---------------------------- MODULE DataPathProofs ----------------------------
(***************************************************************************)
(* For any number of downloads, attempts and limits, and for every length of *)
(* the window: no window has more requests than the limit. For any hours,    *)
(* contents, presets, runs and interference: a processing run tells the       *)
(* truth. For any inputs, loads and tasks: a page shows what it exports and   *)
(* overlooks no load. For any plan, contents, upsets and number of migrations: *)
(* what is published in a bucket stays what it was, and is told truly.        *)
(***************************************************************************)
EXTENDS DataPath, FiniteSetTheorems, SequenceTheorems, WellFoundedInduction, TLAPS

(* What the path of the data does, each of its stages does or sleeps through. *)
LEMMA RequestsInside ==
  (DataInit => Admission!Init) /\ ([DataNext]_<<stage, dataVars>> => [Admission!Next]_Admission!vars)
BY DEF DataInit, DataNext, dataVars, requestVars, Admission!vars

LEMMA RunInside ==
  (DataInit => Processing!Init) /\ ([DataNext]_<<stage, dataVars>> => [Processing!Next]_Processing!vars)
BY DEF DataInit, DataNext, dataVars, runVars, Processing!vars

LEMMA BucketInside ==
  (DataInit => Bucket!Init) /\ ([DataNext]_<<stage, dataVars>> => [Bucket!Next]_Bucket!vars)
BY DEF DataInit, DataNext, dataVars, bucketVars, Bucket!vars

LEMMA PageInside ==
  (DataInit => Page!Init) /\ ([DataNext]_<<stage, dataVars>> => [Page!Next]_Page!vars)
BY DEF DataInit, DataNext, dataVars, pageVars, Page!vars

-----------------------------------------------------------------------------
(* Requests.                                                               *)

(* Every set of natural numbers has a least element.                         *)
Less == {p \in Nat \X Nat : p[1] < p[2]}

LEMMA Least ==
  ASSUME NEW S \in SUBSET Nat, S # {}
  PROVE  \E x \in S : \A y \in S : x =< y
<1>1. IsWellFoundedOn(Less, Nat)
  BY NatLessThanWellFounded DEF OpToRel, Less
<1>2. \A x, y \in Nat : <<x, y>> \in Less <=> x < y
  BY DEF Less
<1>3. PICK x \in S : \A y \in S : <<y, x>> \notin Less
  BY <1>1, WFMin
<1>4. \A y \in S : ~(y < x)
  BY <1>2, <1>3
<1> QED BY <1>3, <1>4

LEMMA CountedGrants == \A S : Admission!Cardinality(S) = Cardinality(S)
BY DEF Admission!Cardinality, Cardinality

(* The two ends of a sequence.                                               *)
LEMMA Prefix ==
  ASSUME NEW S, NEW q \in Seq(S), NEW n \in 0 .. Len(q)
  PROVE  /\ SubSeq(q, 1, n) \in Seq(S) /\ Len(SubSeq(q, 1, n)) = n
         /\ \A j \in 1 .. n : SubSeq(q, 1, n)[j] = q[j]
OBVIOUS

LEMMA Suffix ==
  ASSUME NEW S, NEW q \in Seq(S), NEW n \in 0 .. Len(q)
  PROVE  /\ SubSeq(q, n + 1, Len(q)) \in Seq(S) /\ Len(SubSeq(q, n + 1, Len(q))) = Len(q) - n
         /\ \A j \in 1 .. Len(q) - n : SubSeq(q, n + 1, Len(q))[j] = q[n + j]
OBVIOUS

-----------------------------------------------------------------------------
Grants == [at : Nat, limit : Limits, to : Downloads]

IsDownload(r) ==
  /\ r = [phase |-> r.phase, attempt |-> r.attempt, after |-> r.after]
  /\ r.phase \in {"new", "queued", "requesting", "ended"} /\ r.attempt \in 1 .. MaxAttempts

RequestTypes ==
  /\ now \in Nat /\ limit \in Limits \cup {Null}
  /\ admissions \in Seq(Nat) /\ granted \in Seq(Grants) /\ queue \in Seq(Downloads)

DownloadTypes ==
  /\ download = [d \in Downloads |-> download[d]]
  /\ \A d \in Downloads : IsDownload(download[d])

(* The limiter remembers the end of what it granted, and what it forgot has   *)
(* expired.                                                                  *)
Forgotten == Len(granted) - Len(admissions)

Remembered ==
  /\ Forgotten >= 0
  /\ \A i \in 1 .. Len(admissions) : admissions[i] = granted[Forgotten + i].at
  /\ \A j \in 1 .. Forgotten : Admission!Expired(granted[j].at)
  /\ \A i, j \in 1 .. Len(granted) : i < j => granted[i].at =< granted[j].at
  /\ \A j \in 1 .. Len(granted) : granted[j].at =< now

(* The queue is of downloads that wait, each once, under a limit.            *)
Waits ==
  /\ \A i \in 1 .. Len(queue) : download[queue[i]].phase = "queued"
  /\ \A i, j \in 1 .. Len(queue) : queue[i] = queue[j] => i = j
  /\ queue # <<>> => limit \in Limits

(* Its head sleeps with the lock until the oldest admission expires, and      *)
(* there were as many as the limit allows.                                   *)
Sleeps ==
  sleep # {} =>
    /\ queue # <<>> /\ admissions # <<>>
    /\ sleep = {admissions[1] + Window} /\ Len(admissions) >= limit

GrantsOf(d) == {i \in 1 .. Len(granted) : granted[i].to = d}

Attempted ==
  \A d \in Downloads :
    /\ Cardinality(GrantsOf(d)) \in {download[d].attempt - 1, download[d].attempt}
    /\ download[d].phase = "requesting" => Cardinality(GrantsOf(d)) = download[d].attempt
    /\ download[d].phase \in {"new", "queued"} => Cardinality(GrantsOf(d)) = download[d].attempt - 1

RequestInv ==
  RequestTypes /\ DownloadTypes /\ Remembered /\ Waits /\ Sleeps /\ Attempted /\ Admission!WindowIsKept

LEMMA RequestsStart == Admission!Init => RequestInv
<1> SUFFICES ASSUME Admission!Init PROVE RequestInv
  OBVIOUS
<1>1. /\ granted = <<>> /\ admissions = <<>> /\ queue = <<>> /\ sleep = {} /\ limit = Null
      /\ now = 0
  BY DEF Admission!Init
<1>2. DownloadTypes
  BY RequestAssumption DEF DownloadTypes, Admission!Init, Admission!Fresh, IsDownload
<1>3. RequestTypes
  BY <1>1 DEF RequestTypes
<1>4. Remembered /\ Waits /\ Sleeps /\ Admission!WindowIsKept
  BY <1>1 DEF Remembered, Waits, Sleeps, Forgotten, Admission!WindowIsKept
<1>5. Attempted
  <2>1. \A d \in Downloads : GrantsOf(d) = {}
    BY <1>1 DEF GrantsOf
  <2>2. \A d \in Downloads : download[d].attempt = 1 /\ download[d].phase = "new"
    BY DEF Admission!Init, Admission!Fresh
  <2>3. \A d \in Downloads : Cardinality(GrantsOf(d)) = 0
    BY <2>1, FS_EmptySet
  <2>4. \A d \in Downloads : Cardinality(GrantsOf(d)) = download[d].attempt - 1
    <3> TAKE d \in Downloads
    <3>1. download[d].attempt = 1
      BY <2>2
    <3>2. download[d].attempt - 1 = 0
      BY <3>1
    <3> QED BY <2>3, <3>2
  <2> QED BY <2>2, <2>4 DEF Attempted
<1> QED BY <1>2, <1>3, <1>4, <1>5 DEF RequestInv

(* What is left when the expired times are dropped.                          *)
LEMMA KeptIs ==
  ASSUME NEW times \in Seq(Nat), now \in Nat
  PROVE  \E n \in 0 .. Len(times) :
           /\ Admission!IsDropped(n, times) /\ Admission!Kept(times) \in Seq(Nat)
           /\ Len(Admission!Kept(times)) = Len(times) - n
           /\ \A i \in 1 .. Len(times) - n : Admission!Kept(times)[i] = times[n + i]
<1> DEFINE Live == {i \in 1 .. Len(times) : ~Admission!Expired(times[i])}
<1>1. \E n \in 0 .. Len(times) : Admission!IsDropped(n, times)
  <2>1. CASE Live = {}
    BY <2>1 DEF Admission!IsDropped
  <2>2. CASE Live # {}
    <3>0. Live \in SUBSET Nat
      OBVIOUS
    <3>1. PICK i \in Live : \A j \in Live : i =< j
      <4> HIDE DEF Live
      <4> QED BY <2>2, <3>0, Least
    <3>2. \A j \in 1 .. i - 1 : Admission!Expired(times[j])
      BY <3>1
    <3>3. ~Admission!Expired(times[(i - 1) + 1]) /\ i - 1 \in 0 .. Len(times)
      BY <3>1
    <3> QED BY <3>2, <3>3 DEF Admission!IsDropped
  <2> QED BY <2>1, <2>2
<1>2. PICK n \in 0 .. Len(times) :
        Admission!IsDropped(n, times) /\ Admission!Kept(times) = SubSeq(times, n + 1, Len(times))
  BY <1>1 DEF Admission!Kept
<1> QED BY <1>2, Suffix, ZenonT(60)

(* How the limiter remembers when it has dropped what expired.               *)
LEMMA KeptAreLive ==
  ASSUME RequestTypes, Remembered
  PROVE  \E n \in 0 .. Len(admissions) :
           /\ Admission!Kept(admissions) \in Seq(Nat)
           /\ Len(Admission!Kept(admissions)) = Len(admissions) - n
           /\ Len(granted) - Len(Admission!Kept(admissions)) = Forgotten + n
           /\ \A i \in 1 .. Len(admissions) - n : Admission!Kept(admissions)[i] = granted[Forgotten + n + i].at
           /\ n > 0 => Admission!Expired(admissions[1])
           /\ n = 0 => Admission!Kept(admissions) = admissions
           /\ \A j \in 1 .. Forgotten + n : Admission!Expired(granted[j].at)
           /\ \A j \in Forgotten + n + 1 .. Len(granted) : ~Admission!Expired(granted[j].at)
<1>1. /\ admissions \in Seq(Nat) /\ now \in Nat /\ Len(admissions) \in Nat /\ Len(granted) \in Nat
      /\ Forgotten \in Nat /\ Len(granted) = Forgotten + Len(admissions)
  BY DEF RequestTypes, Remembered, Forgotten
<1>2. \A i \in 1 .. Len(granted) : granted[i].at \in Nat
  <2>1. \A i \in 1 .. Len(granted) : granted[i] \in Grants
    BY DEF RequestTypes
  <2> QED BY <2>1 DEF Grants
<1> DEFINE kept == Admission!Kept(admissions)
<1>3. PICK n \in 0 .. Len(admissions) :
           /\ Admission!IsDropped(n, admissions) /\ kept \in Seq(Nat)
           /\ Len(kept) = Len(admissions) - n
           /\ \A i \in 1 .. Len(admissions) - n : kept[i] = admissions[n + i]
  BY <1>1, KeptIs
<1> HIDE DEF kept
<1>4. \A i \in 1 .. Len(admissions) - n : kept[i] = granted[Forgotten + n + i].at
  <2> TAKE i \in 1 .. Len(admissions) - n
  <2>1. n + i \in 1 .. Len(admissions) /\ Forgotten + (n + i) = Forgotten + n + i
    BY <1>1
  <2> QED BY <1>3, <2>1 DEF Remembered
<1>5. \A j \in 1 .. Forgotten + n : Admission!Expired(granted[j].at)
  <2> TAKE j \in 1 .. Forgotten + n
  <2>1. CASE j =< Forgotten
    BY <1>1, <2>1 DEF Remembered
  <2>2. CASE j > Forgotten
    <3>1. PICK m \in 1 .. n : j = Forgotten + m
      <4>1. j - Forgotten \in 1 .. n /\ j = Forgotten + (j - Forgotten)
        BY <1>1, <2>2
      <4> QED BY <4>1
    <3>2. admissions[m] = granted[j].at
      BY <1>1, <3>1 DEF Remembered
    <3>3. Admission!Expired(admissions[m])
      BY <1>3 DEF Admission!IsDropped
    <3> QED BY <3>2, <3>3
  <2> QED BY <1>1, <2>1, <2>2
<1>6. \A j \in Forgotten + n + 1 .. Len(granted) : ~Admission!Expired(granted[j].at)
  <2> TAKE j \in Forgotten + n + 1 .. Len(granted)
  <2>1. PICK m \in 1 .. Len(admissions) : m = n + 1 /\ n < Len(admissions)
    BY <1>1
  <2>2. PICK g \in 1 .. Len(granted) : g = Forgotten + m /\ g =< j /\ j \in 1 .. Len(granted)
    BY <1>1, <2>1
  <2>3. ~Admission!Expired(granted[g].at)
    BY <1>3, <2>1, <2>2 DEF Remembered, Admission!IsDropped
  <2>4. granted[g].at =< granted[j].at
    <3>1. g < j \/ g = j
      BY <2>2
    <3> QED BY <1>2, <2>2, <3>1 DEF Remembered
  <2>5. granted[g].at \in Nat /\ granted[j].at \in Nat
    BY <1>2, <2>2
  <2>6. ~(granted[g].at + Window =< now)
    BY <2>3 DEF Admission!Expired
  <2>7. Window \in Nat /\ now \in Nat
    BY <1>1, RequestAssumption
  <2>8. \A x, y, w, t \in Nat : x =< y /\ ~(x + w =< t) => ~(y + w =< t)
    OBVIOUS
  <2>9. ~(granted[j].at + Window =< now)
    BY <2>4, <2>5, <2>6, <2>7, <2>8
  <2> QED BY <2>9 DEF Admission!Expired
<1>7. n > 0 => Admission!Expired(admissions[1])
  <2>1. n > 0 => 1 \in 1 .. n
    BY <1>1
  <2>2. \A m \in 1 .. n : Admission!Expired(admissions[m])
    BY <1>3 DEF Admission!IsDropped
  <2> QED BY <2>1, <2>2
<1>8. n = 0 => kept = admissions
  BY <1>1, <1>3
<1>9. Len(granted) - Len(kept) = Forgotten + n
  BY <1>1, <1>3
<1> QED BY <1>3, <1>4, <1>5, <1>6, <1>7, <1>8, <1>9 DEF kept

(* A download in another phase, and one download in another state.           *)
LEMMA Rephased ==
  ASSUME DownloadTypes, NEW d \in Downloads, NEW phase \in {"new", "queued", "requesting", "ended"}
  PROVE  \E r : /\ IsDownload(r) /\ r.phase = phase /\ r.attempt = download[d].attempt
               /\ [download EXCEPT ![d].phase = phase] = [download EXCEPT ![d] = r]
<1>1. IsDownload([download[d] EXCEPT !.phase = phase])
      /\ [download[d] EXCEPT !.phase = phase].phase = phase
      /\ [download[d] EXCEPT !.phase = phase].attempt = download[d].attempt
  BY DEF DownloadTypes, IsDownload
<1>2. [download EXCEPT ![d].phase = phase]
        = [download EXCEPT ![d] = [download[d] EXCEPT !.phase = phase]]
  OBVIOUS
<1> QED BY <1>1, <1>2

LEMMA Placed ==
  ASSUME DownloadTypes, NEW d \in Downloads, NEW r, IsDownload(r), download' = [download EXCEPT ![d] = r]
  PROVE  /\ DownloadTypes' /\ download'[d] = r
         /\ \A e \in Downloads : e # d => download'[e] = download[e]
BY DEF DownloadTypes, IsDownload

(* A step of one download outside of the queue that grants nothing.          *)
LEMMA DownloadMoves ==
  ASSUME RequestInv, NEW d \in Downloads, NEW r, IsDownload(r), r.phase \in {"new", "ended"},
         download' = [download EXCEPT ![d] = r],
         r.phase = "ended" => r.attempt = download[d].attempt,
         r.phase = "new" => download[d].phase = "requesting" /\ r.attempt = download[d].attempt + 1,
         \A i \in 1 .. Len(queue) : queue[i] # d,
         UNCHANGED <<now, limit, admissions, queue, sleep, granted>>
  PROVE  RequestInv'
<1>1. /\ DownloadTypes' /\ download'[d] = r
      /\ \A e \in Downloads : e # d => download'[e] = download[e]
  BY Placed DEF RequestInv
<1>2. RequestTypes' /\ Remembered' /\ Sleeps' /\ Admission!WindowIsKept'
  BY DEF RequestInv, RequestTypes, Remembered, Forgotten, Admission!Expired, Sleeps, Admission!WindowIsKept
<1>3. Waits'
  BY <1>1 DEF RequestInv, RequestTypes, Waits
<1>4. Attempted'
  <2> SUFFICES ASSUME NEW e \in Downloads
               PROVE  /\ Cardinality(GrantsOf(e)) \in {download'[e].attempt - 1, download'[e].attempt}
                      /\ download'[e].phase = "requesting" =>
                           Cardinality(GrantsOf(e)) = download'[e].attempt
                      /\ download'[e].phase \in {"new", "queued"} =>
                           Cardinality(GrantsOf(e)) = download'[e].attempt - 1
    BY DEF Attempted, GrantsOf
  <2>1. CASE e # d
    BY <1>1, <2>1 DEF RequestInv, Attempted
  <2>2. CASE e = d
    <3>1. download[d].attempt \in Nat /\ r.attempt \in Nat
      BY RequestAssumption DEF RequestInv, DownloadTypes, IsDownload
    <3> QED BY <1>1, <2>2, <3>1 DEF RequestInv, Attempted
  <2> QED BY <2>1, <2>2
<1> QED BY <1>1, <1>2, <1>3, <1>4 DEF RequestInv

LEMMA ClockTicks == ASSUME RequestInv, Admission!Tick PROVE RequestInv'
<1>1. now' = now + 1 /\ now' \in Nat /\ now \in Nat
      /\ UNCHANGED <<limit, admissions, queue, sleep, download, granted>>
  BY DEF Admission!Tick, Admission!limiter, RequestInv, RequestTypes
<1>2. \A i \in 1 .. Len(granted) : granted[i].at \in Nat
  <2>1. \A i \in 1 .. Len(granted) : granted[i] \in Grants
    BY DEF RequestInv, RequestTypes
  <2> QED BY <2>1 DEF Grants
<1>3. Forgotten \in Nat /\ Len(granted) \in Nat /\ Forgotten =< Len(granted)
  BY DEF RequestInv, RequestTypes, Remembered, Forgotten
<1>4. Remembered'
  <2>1. \A j \in 1 .. Forgotten : Admission!Expired(granted[j].at)'
    BY <1>1, <1>2, <1>3, RequestAssumption DEF RequestInv, Remembered, Admission!Expired
  <2>2. \A j \in 1 .. Len(granted) : granted[j].at =< now'
    BY <1>1, <1>2 DEF RequestInv, Remembered
  <2> QED BY <1>1, <2>1, <2>2 DEF RequestInv, Remembered, Forgotten
<1>5. RequestTypes' /\ DownloadTypes' /\ Waits' /\ Sleeps' /\ Attempted' /\ Admission!WindowIsKept'
  BY <1>1
  DEF RequestInv, RequestTypes, DownloadTypes, Waits, Sleeps, Attempted, GrantsOf, Admission!WindowIsKept
<1> QED BY <1>4, <1>5 DEF RequestInv

LEMMA Enqueues ==
  ASSUME RequestInv, NEW d \in Downloads, NEW l \in Limits, Admission!Enqueue(d, l)
  PROVE  RequestInv'
<1>1. /\ limit' = Admission!Limited(d, l) /\ queue' = Append(queue, d)
      /\ UNCHANGED <<now, admissions, sleep, granted>> /\ download[d].phase = "new"
      /\ download' = [download EXCEPT ![d].phase = "queued"]
  BY DEF Admission!Enqueue
<1>2. PICK r : /\ IsDownload(r) /\ r.phase = "queued" /\ r.attempt = download[d].attempt
               /\ download' = [download EXCEPT ![d] = r]
  <2>1. DownloadTypes
    BY DEF RequestInv
  <2>2. PICK r : /\ IsDownload(r) /\ r.phase = "queued" /\ r.attempt = download[d].attempt
                 /\ [download EXCEPT ![d].phase = "queued"] = [download EXCEPT ![d] = r]
    BY <2>1, Rephased
  <2> QED BY <1>1, <2>2
<1>3. /\ DownloadTypes' /\ download'[d] = r
      /\ \A e \in Downloads : e # d => download'[e] = download[e]
  BY <1>2, Placed DEF RequestInv
<1>4. limit' \in Limits /\ (limit \in Limits => limit' =< limit)
  BY <1>1, RequestAssumption DEF RequestInv, RequestTypes, Admission!Limited, Admission!LowerOf
<1>5. /\ Len(queue) \in Nat /\ Len(queue') = Len(queue) + 1 /\ queue'[Len(queue) + 1] = d
      /\ \A i \in 1 .. Len(queue) : queue'[i] = queue[i] /\ queue[i] \in Downloads /\ queue[i] # d
      /\ queue' \in Seq(Downloads)
  BY <1>1 DEF RequestInv, RequestTypes, Waits
<1>6. RequestTypes' /\ Remembered' /\ Admission!WindowIsKept'
  BY <1>1, <1>4, <1>5
  DEF RequestInv, RequestTypes, Remembered, Forgotten, Admission!Expired, Admission!WindowIsKept
<1>7. Waits'
  <2>1. \A i \in 1 .. Len(queue') : i \in 1 .. Len(queue) \/ i = Len(queue) + 1
    BY <1>5
  <2>2. \A i \in 1 .. Len(queue') : download'[queue'[i]].phase = "queued"
    BY <1>2, <1>3, <1>5, <2>1 DEF RequestInv, Waits
  <2>3. \A i, j \in 1 .. Len(queue') : queue'[i] = queue'[j] => i = j
    BY <1>5, <2>1 DEF RequestInv, Waits
  <2> QED BY <1>4, <2>2, <2>3 DEF Waits
<1>8. Sleeps'
  <2> SUFFICES ASSUME sleep # {}
               PROVE  queue' # <<>> /\ admissions # <<>> /\ sleep = {admissions[1] + Window}
                      /\ Len(admissions) >= limit'
    BY <1>1 DEF Sleeps
  <2>1. limit \in Limits /\ Len(admissions) >= limit /\ Len(admissions) \in Nat
    BY DEF RequestInv, RequestTypes, Sleeps, Waits
  <2>2. Len(admissions) >= limit'
    BY <1>4, <2>1, RequestAssumption
  <2> QED BY <1>5, <2>2 DEF RequestInv, Sleeps
<1>9. Attempted'
  BY <1>1, <1>2, <1>3 DEF RequestInv, Attempted, GrantsOf
<1> QED BY <1>3, <1>6, <1>7, <1>8, <1>9 DEF RequestInv

(* A window that ends in an admission at the present time: of N earlier ones  *)
(* the first F have expired.                                                 *)
LEMMA CountWindow ==
  ASSUME NEW N \in Nat, NEW F \in 0 .. N, NEW at, NEW t \in Nat, NEW W \in Nat \ {0},
         \A j \in 1 .. N : at[j] \in Nat, at[N + 1] = t,
         \A j \in 1 .. F : at[j] + W =< t, \A j \in F + 1 .. N : ~(at[j] + W =< t)
  PROVE  \A j \in 1 .. N + 1 : at[j] + W > t <=> j \in F + 1 .. N + 1
<1>1. \A j \in 1 .. F : ~(at[j] + W > t)
  <2> TAKE j \in 1 .. F
  <2>1. at[j] \in Nat /\ at[j] + W =< t
    OBVIOUS
  <2> QED BY <2>1
<1>2. \A j \in F + 1 .. N + 1 : at[j] + W > t
  <2> TAKE j \in F + 1 .. N + 1
  <2>1. CASE j = N + 1
    BY <2>1
  <2>2. CASE j # N + 1
    <3>1. j \in 1 .. N /\ j \in F + 1 .. N
      BY <2>2
    <3>2. at[j] \in Nat /\ ~(at[j] + W =< t)
      BY <3>1
    <3> QED BY <3>2
  <2> QED BY <2>1, <2>2
<1>3. \A j \in 1 .. N + 1 : j \in 1 .. F \/ j \in F + 1 .. N + 1
  OBVIOUS
<1>4. \A j \in 1 .. F : j \notin F + 1 .. N + 1
  OBVIOUS
<1> QED BY <1>1, <1>2, <1>3, <1>4, Zenon

LEMMA Appended ==
  ASSUME NEW S, NEW s \in Seq(S), NEW x \in S
  PROVE  /\ Append(s, x) \in Seq(S) /\ Len(Append(s, x)) = Len(s) + 1 /\ Len(s) \in Nat
         /\ Append(s, x)[Len(s) + 1] = x /\ \A j \in 1 .. Len(s) : Append(s, x)[j] = s[j]
OBVIOUS

(* The head of the queue is admitted.                                        *)
Admits(d, r) ==
  /\ queue # <<>> /\ d = Head(queue) /\ Len(Admission!Kept(admissions)) < limit
  /\ admissions' = Append(Admission!Kept(admissions), now)
  /\ granted' = Append(granted, [at |-> now, limit |-> limit, to |-> d])
  /\ queue' = Tail(queue) /\ sleep' = {} /\ UNCHANGED <<now, limit>>
  /\ IsDownload(r) /\ r.phase = "requesting" /\ r.attempt = download[d].attempt
  /\ download' = [download EXCEPT ![d] = r]

LEMMA HeadAdmitted ==
  ASSUME RequestInv, NEW d \in Downloads, NEW r, Admits(d, r)
  PROVE  RequestInv'
<1>1. /\ now \in Nat /\ limit \in Limits /\ limit \in Nat /\ Len(granted) \in Nat
      /\ Len(admissions) \in Nat /\ Forgotten \in Nat /\ Len(granted) = Forgotten + Len(admissions)
  BY RequestAssumption DEF RequestInv, RequestTypes, Waits, Remembered, Forgotten, Admits
<1>a. now' = now /\ limit' = limit /\ sleep' = {} /\ queue' = Tail(queue) /\ r.attempt = download[d].attempt
  BY DEF Admits
<1>2. PICK n \in 0 .. Len(admissions), kept \in Seq(Nat) :
        /\ kept = Admission!Kept(admissions) /\ Len(kept) = Len(admissions) - n
        /\ \A i \in 1 .. Len(admissions) - n : kept[i] = granted[Forgotten + n + i].at
        /\ \A j \in 1 .. Forgotten + n : Admission!Expired(granted[j].at)
        /\ \A j \in Forgotten + n + 1 .. Len(granted) : ~Admission!Expired(granted[j].at)
  BY KeptAreLive DEF RequestInv
<1>3. PICK N \in Nat, F \in Nat, K \in Nat :
        N = Len(granted) /\ F = Forgotten + n /\ K = Len(kept) /\ N = F + K
  BY <1>1, <1>2
<1>b. N = Len(granted)
  BY <1>3
<1>c. N = F + K /\ Len(kept) = K
  BY <1>3
<1>4. /\ \A i \in 1 .. K : kept[i] = granted[F + i].at
      /\ \A j \in 1 .. F : Admission!Expired(granted[j].at)
      /\ \A j \in F + 1 .. N : ~Admission!Expired(granted[j].at)
      /\ K < limit
  BY <1>2, <1>3 DEF Admits
<1>5. PICK g \in Grants : /\ granted' = Append(granted, g)
                          /\ g.at = now /\ g.limit = limit /\ g.to = d
  <2>1. [at |-> now, limit |-> limit, to |-> d] \in Grants
    BY <1>1 DEF Grants
  <2> QED BY <2>1 DEF Admits
<1>6. granted \in Seq(Grants)
  BY DEF RequestInv, RequestTypes
<1>7. /\ granted' \in Seq(Grants) /\ Len(granted') = N + 1 /\ granted'[N + 1] = g
      /\ \A j \in 1 .. N : granted'[j] = granted[j]
  BY <1>b, <1>5, <1>6, Appended
<1>8. /\ \A j \in 1 .. N : granted[j].at \in Nat /\ granted[j].at =< now
      /\ \A j \in 1 .. N : granted'[j].at = granted[j].at
      /\ granted'[N + 1].at = now /\ granted'[N + 1].limit = limit
  <2>1. \A j \in 1 .. N : granted[j] \in Grants
    BY <1>b, <1>6
  <2>2. \A j \in 1 .. N : granted[j].at \in Nat
    BY <2>1 DEF Grants
  <2> QED BY <1>3, <1>5, <1>7, <2>2 DEF RequestInv, Remembered
<1>9. /\ admissions' \in Seq(Nat) /\ Len(admissions') = K + 1
      /\ admissions'[K + 1] = now /\ \A i \in 1 .. K : admissions'[i] = kept[i]
  <2>1. admissions' = Append(kept, now)
    BY <1>2 DEF Admits
  <2> QED BY <1>1, <1>c, <2>1, Appended
<1>10. /\ Len(queue) \in Nat /\ Len(queue') = Len(queue) - 1 /\ d = queue[1] /\ queue' \in Seq(Downloads)
       /\ \A i \in 1 .. Len(queue') : queue'[i] = queue[i + 1] /\ i + 1 \in 1 .. Len(queue)
       /\ \A i \in 1 .. Len(queue) : queue[i] \in Downloads
       /\ 1 \in 1 .. Len(queue)
  BY DEF RequestInv, RequestTypes, Admits
<1>12. /\ DownloadTypes' /\ download'[d] = r
       /\ \A e \in Downloads : e # d => download'[e] = download[e]
  BY Placed DEF RequestInv, Admits
<1>13. Forgotten' = F
  <2>1. Len(granted') - Len(admissions') = (N + 1) - (K + 1)
    BY <1>7, <1>9
  <2> QED BY <1>c, <2>1 DEF Forgotten
<1>14. RequestTypes'
  BY <1>1, <1>a, <1>7, <1>9, <1>10 DEF RequestTypes
<1>15. \A j \in 1 .. N + 1 : j \in 1 .. N \/ j = N + 1
  OBVIOUS
<1>16. Remembered'
  <2>1. \A i \in 1 .. K + 1 : admissions'[i] = granted'[F + i].at
    <3> TAKE i \in 1 .. K + 1
    <3>1. CASE i \in 1 .. K
      <4>1. F + i \in 1 .. N
        BY <1>3, <3>1
      <4> QED BY <1>4, <1>8, <1>9, <3>1, <4>1
    <3>2. CASE i = K + 1
      <4>1. F + i = N + 1
        BY <1>3, <3>2
      <4> QED BY <1>8, <1>9, <3>2, <4>1
    <3> QED BY <3>1, <3>2
  <2>2. \A j \in 1 .. F : granted'[j].at + Window =< now
    <3> TAKE j \in 1 .. F
    <3>1. j \in 1 .. N
      BY <1>3
    <3> QED BY <1>4, <1>8, <3>1 DEF Admission!Expired
  <2>3. \A j \in 1 .. N + 1 : granted'[j].at \in Nat /\ granted'[j].at =< now
    <3> TAKE j \in 1 .. N + 1
    <3>1. CASE j \in 1 .. N
      BY <1>8, <3>1
    <3>2. CASE j = N + 1
      BY <1>1, <1>8, <3>2
    <3> QED BY <1>15, <3>1, <3>2
  <2>4. \A i, j \in 1 .. N + 1 : i < j => granted'[i].at =< granted'[j].at
    <3> TAKE i, j \in 1 .. N + 1
    <3>1. CASE j \in 1 .. N
      <4>1. i < j => i \in 1 .. N
        BY <3>1
      <4>2. i \in 1 .. N /\ i < j => granted[i].at =< granted[j].at
        BY <1>3, <3>1 DEF RequestInv, Remembered
      <4> QED BY <1>8, <3>1, <4>1, <4>2
    <3>2. CASE j = N + 1
      BY <1>8, <2>3, <3>2
    <3> QED BY <1>15, <3>1, <3>2
  <2> QED BY <1>a, <1>7, <1>9, <1>13, <2>1, <2>2, <2>3, <2>4 DEF Remembered, Admission!Expired
<1>17. Waits'
  <2>1. \A i \in 1 .. Len(queue') : queue'[i] # d
    <3> TAKE i \in 1 .. Len(queue')
    <3>1. i + 1 # 1
      BY <1>10
    <3> QED BY <1>10, <3>1 DEF RequestInv, Waits
  <2>2. \A i \in 1 .. Len(queue') : download'[queue'[i]].phase = "queued"
    <3> TAKE i \in 1 .. Len(queue')
    <3>1. queue'[i] = queue[i + 1] /\ i + 1 \in 1 .. Len(queue) /\ queue'[i] \in Downloads
      BY <1>10
    <3>2. download[queue[i + 1]].phase = "queued"
      BY <3>1 DEF RequestInv, Waits
    <3> QED BY <1>12, <2>1, <3>1, <3>2
  <2>3. \A i, j \in 1 .. Len(queue') : queue'[i] = queue'[j] => i = j
    <3> TAKE i, j \in 1 .. Len(queue')
    <3>1. queue'[i] = queue'[j] => i + 1 = j + 1
      BY <1>10 DEF RequestInv, Waits
    <3> QED BY <3>1, <1>10
  <2> QED BY <1>1, <1>a, <2>2, <2>3 DEF Waits
<1>18. Sleeps'
  BY <1>a DEF Sleeps
<1>19. Attempted'
  <2>1. \A e \in Downloads : GrantsOf(e)' = IF e = d THEN GrantsOf(e) \cup {N + 1} ELSE GrantsOf(e)
    <3>1. 1 .. N + 1 = (1 .. N) \cup {N + 1}
      OBVIOUS
    <3>2. granted'[N + 1].to = d /\ \A j \in 1 .. N : granted'[j].to = granted[j].to
      BY <1>5, <1>7
    <3> QED BY <1>3, <1>7, <3>1, <3>2 DEF GrantsOf
  <2>2. \A e \in Downloads : IsFiniteSet(GrantsOf(e)) /\ N + 1 \notin GrantsOf(e)
    <3>1. IsFiniteSet(1 .. N)
      BY FS_Interval
    <3>2. N + 1 \notin 1 .. N
      OBVIOUS
    <3> TAKE e \in Downloads
    <3>3. GrantsOf(e) \in SUBSET (1 .. N)
      BY <1>b DEF GrantsOf
    <3> QED BY <3>1, <3>2, <3>3, FS_Subset
  <2>3. Cardinality(GrantsOf(d) \cup {N + 1}) = Cardinality(GrantsOf(d)) + 1
    BY <2>2, FS_AddElement
  <2>4. Cardinality(GrantsOf(d)) = download[d].attempt - 1 /\ download[d].attempt \in Nat
    <3>1. download[d].phase = "queued"
      BY <1>10 DEF RequestInv, Waits
    <3>2. download[d].attempt \in Nat
      BY RequestAssumption DEF RequestInv, DownloadTypes, IsDownload
    <3> QED BY <3>1, <3>2 DEF RequestInv, Attempted
  <2>5. Cardinality(GrantsOf(d)') = r.attempt /\ r.attempt \in Nat
    <3>1. GrantsOf(d)' = GrantsOf(d) \cup {N + 1}
      BY <2>1
    <3> QED BY <1>a, <2>3, <2>4, <3>1
  <2> SUFFICES ASSUME NEW e \in Downloads
               PROVE  /\ Cardinality(GrantsOf(e)') \in {download'[e].attempt - 1, download'[e].attempt}
                      /\ download'[e].phase = "requesting" =>
                           Cardinality(GrantsOf(e)') = download'[e].attempt
                      /\ download'[e].phase \in {"new", "queued"} =>
                           Cardinality(GrantsOf(e)') = download'[e].attempt - 1
    BY DEF Attempted
  <2>6. CASE e = d
    BY <1>a, <1>12, <2>5, <2>6 DEF Admits
  <2>7. CASE e # d
    BY <1>12, <2>1, <2>7 DEF RequestInv, Attempted
  <2> QED BY <2>6, <2>7
<1>20. Admission!WindowIsKept'
  <2> SUFFICES ASSUME NEW i \in 1 .. N + 1
               PROVE  Cardinality({j \in 1 .. i : granted'[j].at + Window > granted'[i].at})
                        =< granted'[i].limit
    <3>1. DOMAIN granted' = 1 .. N + 1
      BY <1>7
    <3> QED BY <3>1, CountedGrants DEF Admission!WindowIsKept
  <2>1. CASE i = N + 1
    <3>1. PICK at : at = [j \in 1 .. N + 1 |-> granted'[j].at]
      OBVIOUS
    <3>2. \A j \in 1 .. N + 1 : at[j] = granted'[j].at
      BY <3>1
    <3>3. N + 1 \in 1 .. N + 1 /\ \A j \in 1 .. N : j \in 1 .. N + 1
      OBVIOUS
    <3>4. at[N + 1] = now /\ \A j \in 1 .. N : at[j] \in Nat /\ at[j] = granted[j].at
      BY <1>8, <3>2, <3>3
    <3>5. (\A j \in 1 .. F : j \in 1 .. N) /\ (\A j \in F + 1 .. N : j \in 1 .. N) /\ F \in 0 .. N
      BY <1>c
    <3>6. /\ \A j \in 1 .. F : at[j] + Window =< now
          /\ \A j \in F + 1 .. N : ~(at[j] + Window =< now)
      BY <1>4, <3>4, <3>5, Zenon DEF Admission!Expired
    <3>7. \A j \in 1 .. N + 1 : at[j] + Window > now <=> j \in F + 1 .. N + 1
      <4>1. Window \in Nat \ {0} /\ now \in Nat
        BY <1>1, RequestAssumption
      <4>2. \A j \in 1 .. N : at[j] \in Nat
        BY <3>4
      <4>3. F \in 0 .. N /\ at[N + 1] = now
        BY <3>4, <3>5
      <4> QED BY <3>6, <4>1, <4>2, <4>3, CountWindow, ZenonT(60)
    <3>8. {j \in 1 .. N + 1 : granted'[j].at + Window > now} = F + 1 .. N + 1
      <4>1. F + 1 .. N + 1 \subseteq 1 .. N + 1
        BY <3>5
      <4> QED BY <3>2, <3>7, <4>1, Zenon
    <3>10. Cardinality(F + 1 .. N + 1) = N + 1 - F
      BY <3>5, FS_Interval
    <3>9. N + 1 - F =< limit
      BY <1>1, <1>3, <1>4
    <3> QED BY <1>8, <2>1, <3>8, <3>9, <3>10
  <2>2. CASE i \in 1 .. N
    <3>0. \A j \in 1 .. i : j \in 1 .. N
      BY <2>2
    <3>1. \A j \in 1 .. i : granted'[j].at = granted[j].at
      BY <1>8, <3>0
    <3>2. Cardinality({j \in 1 .. i : granted[j].at + Window > granted[i].at}) =< granted[i].limit
      <4>1. DOMAIN granted = 1 .. N
        BY <1>b, <1>6
      <4> QED BY <2>2, <4>1, CountedGrants DEF RequestInv, Admission!WindowIsKept
    <3>3. granted'[i].at = granted[i].at /\ granted'[i].limit = granted[i].limit
      BY <1>7, <1>8, <2>2
    <3>4. {j \in 1 .. i : granted'[j].at + Window > granted'[i].at}
            = {j \in 1 .. i : granted[j].at + Window > granted[i].at}
      BY <3>1, <3>3, Zenon
    <3> QED BY <3>2, <3>3, <3>4, Zenon
  <2> QED BY <1>15, <2>1, <2>2
<1> QED BY <1>12, <1>14, <1>16, <1>17, <1>18, <1>19, <1>20 DEF RequestInv

(* The window is full: the head sleeps.                                      *)
Refuses ==
  /\ queue # <<>> /\ ~(Len(Admission!Kept(admissions)) < limit)
  /\ admissions' = Admission!Kept(admissions) /\ sleep' = {Head(Admission!Kept(admissions)) + Window}
  /\ UNCHANGED <<now, limit, queue, download, granted>>

LEMMA HeadSleeps == ASSUME RequestInv, Refuses PROVE RequestInv'
<1>1. /\ limit \in Limits /\ limit \in Nat \ {0} /\ Len(granted) \in Nat
      /\ Len(admissions) \in Nat /\ Forgotten \in Nat /\ Len(granted) = Forgotten + Len(admissions)
  BY RequestAssumption DEF RequestInv, RequestTypes, Waits, Remembered, Forgotten, Refuses
<1>2. PICK n \in 0 .. Len(admissions), kept \in Seq(Nat) :
        /\ kept = Admission!Kept(admissions) /\ Len(kept) = Len(admissions) - n
        /\ \A i \in 1 .. Len(admissions) - n : kept[i] = granted[Forgotten + n + i].at
        /\ \A j \in 1 .. Forgotten + n : Admission!Expired(granted[j].at)
  BY KeptAreLive DEF RequestInv
<1>3. /\ admissions' = kept /\ ~(Len(kept) < limit) /\ sleep' = {Head(kept) + Window} /\ queue # <<>>
      /\ now' = now /\ limit' = limit /\ queue' = queue /\ download' = download /\ granted' = granted
  BY <1>2 DEF Refuses
<1>4. kept # <<>> /\ Len(kept) >= limit /\ Len(kept) \in Nat /\ Head(kept) = kept[1]
  BY <1>1, <1>2, <1>3
<1>5. Forgotten' = Forgotten + n
  <2>1. Forgotten' = Len(granted) - Len(kept)
    BY <1>3 DEF Forgotten
  <2> QED BY <1>1, <1>2, <2>1
<1>6. Remembered'
  <2>1. Forgotten + n >= 0
    BY <1>1
  <2>2. \A i \in 1 .. Len(kept) : kept[i] = granted[Forgotten + n + i].at
    BY <1>2
  <2>3. \A j \in 1 .. Forgotten + n : Admission!Expired(granted[j].at)'
    BY <1>2, <1>3 DEF Admission!Expired
  <2>4. /\ \A i, j \in 1 .. Len(granted) : i < j => granted[i].at =< granted[j].at
        /\ \A j \in 1 .. Len(granted) : granted[j].at =< now
    BY DEF RequestInv, Remembered
  <2> QED BY <1>3, <1>5, <2>1, <2>2, <2>3, <2>4 DEF Remembered
<1>7. RequestTypes' /\ DownloadTypes' /\ Waits' /\ Attempted' /\ Admission!WindowIsKept'
  BY <1>3 DEF RequestInv, RequestTypes, DownloadTypes, Waits, Attempted, GrantsOf, Admission!WindowIsKept
<1>8. Sleeps'
  BY <1>3, <1>4 DEF Sleeps
<1> QED BY <1>6, <1>7, <1>8 DEF RequestInv

LEMMA Decides == ASSUME RequestInv, Admission!Decide PROVE RequestInv'
<1>1. CASE Len(Admission!Kept(admissions)) < limit
  <2>1. PICK d \in Downloads : d = Head(queue)
    BY DEF Admission!Decide, RequestInv, RequestTypes
  <2>2. PICK r : /\ IsDownload(r) /\ r.phase = "requesting" /\ r.attempt = download[d].attempt
                 /\ [download EXCEPT ![d].phase = "requesting"] = [download EXCEPT ![d] = r]
    BY Rephased DEF RequestInv
  <2>3. Admits(d, r)
    BY <1>1, <2>1, <2>2 DEF Admission!Decide, Admits
  <2> QED BY <2>3, HeadAdmitted
<1>2. CASE ~(Len(Admission!Kept(admissions)) < limit)
  <2>1. Refuses
    BY <1>2 DEF Admission!Decide, Refuses
  <2> QED BY <2>1, HeadSleeps
<1> QED BY <1>1, <1>2

(* A sequence without one of its elements.                                   *)
LEMMA Removed ==
  ASSUME NEW S, NEW q \in Seq(S), NEW i \in 1 .. Len(q)
  PROVE  /\ Admission!RemoveAt(q, i) \in Seq(S) /\ Len(Admission!RemoveAt(q, i)) = Len(q) - 1
         /\ \A j \in 1 .. Len(q) - 1 :
              Admission!RemoveAt(q, i)[j] = IF j < i THEN q[j] ELSE q[j + 1]
<1>1. PICK a \in Seq(S) : /\ a = SubSeq(q, 1, i - 1) /\ Len(a) = i - 1
                          /\ \A j \in 1 .. i - 1 : a[j] = q[j]
  <2>1. i - 1 \in 0 .. Len(q)
    OBVIOUS
  <2> QED BY <2>1, Prefix
<1>2. PICK b \in Seq(S) : /\ b = SubSeq(q, i + 1, Len(q)) /\ Len(b) = Len(q) - i
                          /\ \A j \in 1 .. Len(q) - i : b[j] = q[i + j]
  <2>1. i \in 0 .. Len(q)
    OBVIOUS
  <2>2. /\ SubSeq(q, i + 1, Len(q)) \in Seq(S) /\ Len(SubSeq(q, i + 1, Len(q))) = Len(q) - i
        /\ \A j \in 1 .. Len(q) - i : SubSeq(q, i + 1, Len(q))[j] = q[i + j]
    BY <2>1, Suffix, ZenonT(60)
  <2> QED BY <2>2
<1>3. Admission!RemoveAt(q, i) = a \o b
  BY <1>1, <1>2 DEF Admission!RemoveAt
<1>4. /\ a \o b \in Seq(S) /\ Len(a \o b) = Len(q) - 1
      /\ \A j \in 1 .. Len(q) - 1 : (a \o b)[j] = IF j < i THEN q[j] ELSE q[j + 1]
  <2>0. Len(a) + Len(b) = Len(q) - 1
    <3>1. Len(a) = i - 1
      BY <1>1
    <3>2. Len(b) = Len(q) - i
      BY <1>2
    <3>3. Len(q) \in Nat /\ i \in Nat
      OBVIOUS
    <3> QED BY <3>1, <3>2, <3>3
  <2>1. Len(a \o b) = Len(q) - 1 /\ a \o b \in Seq(S)
    BY <2>0, ConcatProperties
  <2>2. \A j \in 1 .. Len(q) - 1 : (a \o b)[j] = IF j =< Len(a) THEN a[j] ELSE b[j - Len(a)]
    BY <2>0, ConcatProperties, Zenon
  <2> SUFFICES ASSUME NEW j \in 1 .. Len(q) - 1
               PROVE  (a \o b)[j] = IF j < i THEN q[j] ELSE q[j + 1]
    BY <2>1
  <2>3. CASE j < i
    BY <1>1, <2>2, <2>3
  <2>4. CASE ~(j < i)
    <3>1. j - (i - 1) \in 1 .. Len(q) - i /\ i + (j - (i - 1)) = j + 1 /\ ~(j =< Len(a))
      BY <1>1, <2>4
    <3>2. (a \o b)[j] = b[j - (i - 1)]
      BY <1>1, <2>2, <3>1
    <3>3. b[j - (i - 1)] = q[j + 1]
      BY <1>2, <3>1
    <3> QED BY <2>4, <3>2, <3>3
  <2> QED BY <2>3, <2>4
<1> QED BY <1>3, <1>4

(* A download leaves the queue, or the lock.                                 *)
Leaves(d, i, r) ==
  /\ queue[i] = d /\ queue' = Admission!RemoveAt(queue, i)
  /\ sleep' = (IF i = 1 THEN {} ELSE sleep) /\ UNCHANGED <<now, limit, admissions, granted>>
  /\ IsDownload(r) /\ r.phase = "ended" /\ r.attempt = download[d].attempt
  /\ download' = [download EXCEPT ![d] = r]

LEMMA QueueShrinks ==
  ASSUME RequestInv, NEW d \in Downloads, NEW i \in 1 .. Len(queue), NEW r, Leaves(d, i, r)
  PROVE  RequestInv'
<1>1. /\ now' = now /\ limit' = limit /\ admissions' = admissions /\ granted' = granted
      /\ sleep' = (IF i = 1 THEN {} ELSE sleep) /\ queue[i] = d
  BY DEF Leaves
<1>2. /\ queue \in Seq(Downloads) /\ Len(queue) \in Nat
      /\ \A j \in 1 .. Len(queue) : queue[j] \in Downloads
  BY DEF RequestInv, RequestTypes
<1>3. /\ queue' \in Seq(Downloads) /\ Len(queue') = Len(queue) - 1
      /\ \A j \in 1 .. Len(queue) - 1 : queue'[j] = IF j < i THEN queue[j] ELSE queue[j + 1]
  BY <1>2, Removed DEF Leaves
<1>4. \A j \in 1 .. Len(queue') :
        \E k \in 1 .. Len(queue) : k # i /\ queue'[j] = queue[k] /\ k = IF j < i THEN j ELSE j + 1
  <2> TAKE j \in 1 .. Len(queue')
  <2>1. j \in 1 .. Len(queue) - 1 /\ j \in 1 .. Len(queue) /\ j + 1 \in 1 .. Len(queue)
    BY <1>2, <1>3
  <2>2. CASE j < i
    BY <1>3, <2>1, <2>2
  <2>3. CASE ~(j < i)
    <3>1. j + 1 # i
      BY <2>1, <2>3
    <3> QED BY <1>3, <2>1, <2>3, <3>1
  <2> QED BY <2>2, <2>3
<1>5. /\ DownloadTypes' /\ download'[d] = r
      /\ \A e \in Downloads : e # d => download'[e] = download[e]
  BY Placed DEF RequestInv, Leaves
<1>6. RequestTypes' /\ Remembered' /\ Admission!WindowIsKept'
  BY <1>1, <1>3 DEF RequestInv, RequestTypes, Remembered, Forgotten, Admission!Expired, Admission!WindowIsKept
<1>7. Waits'
  <2>1. \A j \in 1 .. Len(queue') : download'[queue'[j]].phase = "queued"
    <3> TAKE j \in 1 .. Len(queue')
    <3>1. PICK k \in 1 .. Len(queue) : k # i /\ queue'[j] = queue[k]
      BY <1>4
    <3>2. queue[k] # d /\ download[queue[k]].phase = "queued" /\ queue[k] \in Downloads
      BY <1>1, <1>2, <3>1 DEF RequestInv, Waits
    <3> QED BY <1>5, <3>1, <3>2
  <2>2. \A j, h \in 1 .. Len(queue') : queue'[j] = queue'[h] => j = h
    <3> SUFFICES ASSUME NEW j \in 1 .. Len(queue'), NEW h \in 1 .. Len(queue'), queue'[j] = queue'[h]
                 PROVE  j = h
      OBVIOUS
    <3>1. PICK k \in 1 .. Len(queue) : queue'[j] = queue[k] /\ k = IF j < i THEN j ELSE j + 1
      BY <1>4
    <3>2. PICK m \in 1 .. Len(queue) : queue'[h] = queue[m] /\ m = IF h < i THEN h ELSE h + 1
      BY <1>4
    <3>3. k = m
      BY <3>1, <3>2 DEF RequestInv, Waits
    <3>4. j \in Nat /\ h \in Nat
      BY <1>2, <1>3
    <3> QED BY <3>1, <3>2, <3>3, <3>4
  <2>3. queue # <<>>
    BY <1>2
  <2> QED BY <1>1, <2>1, <2>2, <2>3 DEF RequestInv, Waits
<1>8. Sleeps'
  <2>1. CASE i = 1
    BY <1>1, <2>1 DEF Sleeps
  <2>2. CASE i # 1
    <3>1. queue' # <<>>
      BY <1>2, <1>3, <2>2
    <3> QED BY <1>1, <2>2, <3>1 DEF RequestInv, Sleeps
  <2> QED BY <2>1, <2>2
<1>9. Attempted'
  <2> SUFFICES ASSUME NEW e \in Downloads
               PROVE  /\ Cardinality(GrantsOf(e)) \in {download'[e].attempt - 1, download'[e].attempt}
                      /\ download'[e].phase = "requesting" =>
                           Cardinality(GrantsOf(e)) = download'[e].attempt
                      /\ download'[e].phase \in {"new", "queued"} =>
                           Cardinality(GrantsOf(e)) = download'[e].attempt - 1
    BY <1>1 DEF Attempted, GrantsOf
  <2>1. CASE e # d
    BY <1>5, <2>1 DEF RequestInv, Attempted
  <2>2. CASE e = d
    <3>1. r.attempt = download[d].attempt /\ r.phase = "ended"
      BY DEF Leaves
    <3> QED BY <1>5, <2>2, <3>1 DEF RequestInv, Attempted
  <2> QED BY <2>1, <2>2
<1> QED BY <1>5, <1>6, <1>7, <1>8, <1>9 DEF RequestInv

(* A download that is not queued is not in the queue.                        *)
LEMMA NotQueued ==
  ASSUME RequestInv, NEW d \in Downloads, download[d].phase # "queued"
  PROVE  \A i \in 1 .. Len(queue) : queue[i] # d
BY DEF RequestInv, Waits

LEMMA Ends ==
  ASSUME RequestInv, NEW d \in Downloads, download[d].phase # "queued",
         download' = [download EXCEPT ![d].phase = "ended"],
         UNCHANGED <<now, limit, admissions, queue, sleep, granted>>
  PROVE  RequestInv'
<1>1. PICK r : /\ IsDownload(r) /\ r.phase = "ended" /\ r.attempt = download[d].attempt
               /\ download' = [download EXCEPT ![d] = r]
  BY Rephased DEF RequestInv
<1> QED BY <1>1, NotQueued, DownloadMoves

LEMMA Cancels == ASSUME RequestInv, NEW d \in Downloads, Admission!Cancel(d) PROVE RequestInv'
<1>1. /\ download' = [download EXCEPT ![d].phase = "ended"]
      /\ UNCHANGED <<now, limit, admissions, granted>>
  BY DEF Admission!Cancel
<1>2. CASE download[d].phase = "new" /\ UNCHANGED <<queue, sleep>>
  BY <1>1, <1>2, Ends
<1>3. ASSUME NEW i \in DOMAIN queue, queue[i] = d, queue' = Admission!RemoveAt(queue, i),
             sleep' = IF i = 1 THEN {} ELSE sleep
      PROVE  RequestInv'
  <2>1. i \in 1 .. Len(queue)
    BY <1>3 DEF RequestInv, RequestTypes
  <2>2. PICK r : /\ IsDownload(r) /\ r.phase = "ended" /\ r.attempt = download[d].attempt
                 /\ download' = [download EXCEPT ![d] = r]
    BY <1>1, Rephased DEF RequestInv
  <2>3. Leaves(d, i, r)
    BY <1>1, <1>3, <2>2 DEF Leaves
  <2> QED BY <2>1, <2>3, QueueShrinks
<1> QED BY <1>2, <1>3 DEF Admission!Cancel

LEMMA Fails ==
  ASSUME RequestInv, NEW d \in Downloads, NEW asked \in Delays \cup {Null}, Admission!Failed(d, asked)
  PROVE  RequestInv'
<1>1. download[d].phase = "requesting" /\ download[d].attempt \in 1 .. MaxAttempts
  BY DEF Admission!Failed, RequestInv, DownloadTypes, IsDownload
<1>2. CASE download[d].attempt = MaxAttempts
  BY <1>1, <1>2, Ends DEF Admission!Failed, Admission!Close, Admission!limiter
<1>3. CASE download[d].attempt # MaxAttempts
  <2>1. PICK r : /\ r = [phase |-> "new", attempt |-> download[d].attempt + 1,
                         after |-> now + Admission!DelayOf(d, asked)]
                 /\ download' = [download EXCEPT ![d] = r]
    BY <1>3 DEF Admission!Failed
  <2>2. download[d].attempt + 1 \in 1 .. MaxAttempts
    BY <1>1, <1>3, RequestAssumption
  <2>3. IsDownload(r) /\ r.phase = "new" /\ r.attempt = download[d].attempt + 1
    BY <2>1, <2>2 DEF IsDownload
  <2>4. UNCHANGED <<now, limit, admissions, queue, sleep, granted>>
    BY <1>3 DEF Admission!Failed, Admission!limiter
  <2>5. \A i \in 1 .. Len(queue) : queue[i] # d
    BY <1>1, NotQueued
  <2> QED BY <1>1, <2>1, <2>3, <2>4, <2>5, DownloadMoves
<1> QED BY <1>2, <1>3

LEMMA RequestSteps == RequestInv /\ [Admission!Next]_Admission!vars => RequestInv'
<1> SUFFICES ASSUME RequestInv, [Admission!Next]_Admission!vars PROVE RequestInv'
  OBVIOUS
<1>1. ASSUME NEW d \in Downloads, Admission!Answered(d) PROVE RequestInv'
  BY <1>1, Ends DEF Admission!Answered, Admission!Close, Admission!limiter
<1>2. CASE UNCHANGED Admission!vars
  BY <1>2 DEF Admission!vars, RequestInv, RequestTypes, DownloadTypes, Remembered, Forgotten,
    Admission!Expired, Waits, Sleeps, Attempted, GrantsOf, Admission!WindowIsKept
<1> QED BY <1>1, <1>2, ClockTicks, Decides, Enqueues, Cancels, Fails DEF Admission!Next

(* What the invariant says.                                                  *)
LEMMA RequestsSay ==
  RequestInv => /\ Admission!WindowIsKept /\ Admission!MemoryIsExact
                /\ Admission!SleepIsNeeded /\ Admission!AttemptsAreAdmitted
<1> SUFFICES ASSUME RequestInv
             PROVE  Admission!MemoryIsExact /\ Admission!SleepIsNeeded /\ Admission!AttemptsAreAdmitted
  BY DEF RequestInv
<1>1. /\ Len(granted) \in Nat /\ DOMAIN granted = 1 .. Len(granted) /\ Len(admissions) \in Nat
      /\ Forgotten \in Nat /\ Len(granted) = Forgotten + Len(admissions) /\ now \in Nat
  BY DEF RequestInv, RequestTypes, Remembered, Forgotten
<1>2. PICK n \in 0 .. Len(admissions), kept \in Seq(Nat) :
        /\ kept = Admission!Kept(admissions) /\ Len(kept) = Len(admissions) - n
        /\ Len(granted) - Len(kept) = Forgotten + n
        /\ \A i \in 1 .. Len(admissions) - n : kept[i] = granted[Forgotten + n + i].at
        /\ n > 0 => Admission!Expired(admissions[1])
        /\ n = 0 => kept = admissions
        /\ \A j \in 1 .. Forgotten + n : Admission!Expired(granted[j].at)
        /\ \A j \in Forgotten + n + 1 .. Len(granted) : ~Admission!Expired(granted[j].at)
  BY KeptAreLive DEF RequestInv
<1>3. Admission!MemoryIsExact
  <2>1. PICK F \in Nat : F = Forgotten + n /\ F =< Len(granted)
    BY <1>1
  <2>2. Len(granted) - Len(kept) = F
    BY <1>2, <2>1
  <2>3. \A i \in 1 .. Len(granted) : i =< F => Admission!Expired(granted[i].at)
    BY <1>2, <2>1
  <2>4. \A i \in 1 .. Len(granted) :
          ~(i =< F) => ~Admission!Expired(granted[i].at) /\ granted[i].at = kept[i - F]
    <3> SUFFICES ASSUME NEW i \in 1 .. Len(granted), ~(i =< F)
                 PROVE  ~Admission!Expired(granted[i].at) /\ granted[i].at = kept[i - F]
      OBVIOUS
    <3>1. i - F \in 1 .. Len(admissions) - n /\ Forgotten + n + (i - F) = i
      BY <1>1, <2>1
    <3>2. i \in Forgotten + n + 1 .. Len(granted)
      BY <1>1, <2>1
    <3> QED BY <1>2, <3>1, <3>2
  <2> QED BY <1>1, <1>2, <2>1, <2>2, <2>3, <2>4 DEF Admission!MemoryIsExact
<1>4. Admission!SleepIsNeeded
  <2> SUFFICES ASSUME NEW t \in sleep
               PROVE  queue # <<>> /\ t =< now + Window /\ (t > now => Len(kept) >= limit)
    BY <1>2 DEF Admission!SleepIsNeeded
  <2>1. /\ queue # <<>> /\ admissions # <<>> /\ t = admissions[1] + Window /\ Len(admissions) >= limit
    BY DEF RequestInv, Sleeps
  <2>2. Window \in Nat /\ 1 \in 1 .. Len(admissions) /\ admissions[1] \in Nat
    BY <2>1, RequestAssumption DEF RequestInv, RequestTypes
  <2>3. admissions[1] =< now
    <3>1. Forgotten + 1 \in 1 .. Len(granted)
      BY <1>1, <2>2
    <3> QED BY <2>2, <3>1 DEF RequestInv, Remembered
  <2>4. t =< now + Window
    BY <1>1, <2>1, <2>2, <2>3
  <2>5. t > now => Len(kept) >= limit
    <3>1. t > now => ~Admission!Expired(admissions[1])
      BY <1>1, <2>1, <2>2 DEF Admission!Expired
    <3>2. t > now => n = 0
      BY <1>2, <3>1
    <3> QED BY <1>2, <2>1, <3>2
  <2> QED BY <2>1, <2>4, <2>5
<1>5. Admission!AttemptsAreAdmitted
  <2> SUFFICES ASSUME NEW d \in Downloads
               PROVE  /\ Cardinality(GrantsOf(d)) =< MaxAttempts
                      /\ download[d].phase = "requesting" => Cardinality(GrantsOf(d)) = download[d].attempt
                      /\ download[d].phase \in {"new", "queued"} =>
                           Cardinality(GrantsOf(d)) = download[d].attempt - 1
    BY <1>1, CountedGrants DEF Admission!AttemptsAreAdmitted, GrantsOf
  <2>1. download[d].attempt \in 1 .. MaxAttempts
    BY DEF RequestInv, DownloadTypes, IsDownload
  <2>2. Cardinality(GrantsOf(d)) \in {download[d].attempt - 1, download[d].attempt}
    BY DEF RequestInv, Attempted
  <2>3. Cardinality(GrantsOf(d)) =< MaxAttempts
    BY <2>1, <2>2, RequestAssumption
  <2> QED BY <2>3 DEF RequestInv, Attempted
<1> QED BY <1>3, <1>4, <1>5

(* No window of time has more requests than the limit in force, the limiter   *)
(* remembers what it admitted and sleeps only when it has to, and every        *)
(* attempt of a download is one admission, whoever is cancelled meanwhile      *)
(* (acquisition/rate_limit.py, acquisition/downloader.py).                   *)
THEOREM LimitsHold == DataSpec => []RequestsAreLimited
<1>1. RequestInv => RequestsAreLimited
  BY RequestsSay DEF RequestsAreLimited
<1> QED BY <1>1, RequestsStart, RequestSteps, RequestsInside, PTL DEF DataSpec

-----------------------------------------------------------------------------
(* Processing runs.                                                        *)

(* The provenance of a price row: the archives it was built from.            *)
Provenance == UNION {[G -> Digests] : G \in SUBSET RunHours}

Trades(h) == <<"trades", h>>
Hash == Digests \cup {Null}
Rows == [status : {"planned", "downloaded", "processed", "error"}, local : BOOLEAN, digest : Hash]

RowTypes ==
  /\ row \in [Processing!Sources -> Rows]
  /\ book \in [RunHours -> SUBSET Presets]
  /\ price \in [RunHours -> Provenance \cup {Null}]

(* Whoever has had bytes owns their content.                                 *)
Owned ==
  \A s \in Processing!Sources : row[s].status \in {"downloaded", "processed"} => row[s].digest \in Digests

RowsInv == RowTypes /\ Owned /\ Processing!PriceRowsAgree

(* What exists stays.                                                       *)
Grows ==
  /\ \A s \in Processing!Sources : row[s].status = "processed" => row'[s].status = "processed"
  /\ \A h \in RunHours : book[h] \subseteq book'[h]
  /\ \A h \in RunHours : price[h] # Null => price'[h] # Null

LEMMA SourceOf == \A h \in RunHours : Trades(h) \in Processing!Sources
BY DEF Trades, Processing!Sources, Processing!Kinds

LEMMA Provided ==
  ASSUME NEW used \in Provenance, NEW h \in DOMAIN used
  PROVE  h \in RunHours /\ used[h] \in Digests /\ used # Null
<1>1. PICK G \in SUBSET RunHours : used \in [G -> Digests]
  BY DEF Provenance
<1> QED BY <1>1, RunAssumption

LEMMA Finalized ==
  ASSUME RowsInv, NEW used \in Provenance, NEW h \in DOMAIN used,
         Processing!Write(h, used), Processing!Own(h, used[h]), UNCHANGED book
  PROVE  RowsInv' /\ Grows /\ row'[Trades(h)].status = "processed" /\ price'[h] # Null
<1> USE RunAssumption DEF RowsInv
<1>1. h \in RunHours /\ used[h] \in Digests /\ used # Null
  BY Provided
<1>2. row' = [row EXCEPT ![Trades(h)] = [row[Trades(h)] EXCEPT !.status = "processed", !.digest = used[h]]]
  BY <1>1, SourceOf DEF Processing!Own, Trades, RowTypes
<1>3. [row[Trades(h)] EXCEPT !.status = "processed", !.digest = used[h]] \in Rows
  BY <1>1, SourceOf, ZenonT(60) DEF RowTypes, Rows, Hash
<1>4. price' = [price EXCEPT ![h] = used]
  BY DEF Processing!Write
<1>5. RowTypes'
  BY <1>1, <1>2, <1>3, <1>4 DEF RowTypes
<1>6. /\ row'[Trades(h)].status = "processed" /\ row'[Trades(h)].digest = used[h]
      /\ \A s \in Processing!Sources : s # Trades(h) => row'[s] = row[s]
  BY <1>1, <1>2, SourceOf DEF RowTypes, Rows
<1>7. Owned'
  BY <1>1, <1>6 DEF Owned
<1>8. Processing!PriceRowsAgree'
  BY <1>1, <1>4, <1>6, SourceOf DEF Processing!PriceRowsAgree, RowTypes, Trades
<1>9. Grows
  BY <1>1, <1>4, <1>6 DEF Grows, RowTypes
<1> QED BY <1>1, <1>4, <1>5, <1>6, <1>7, <1>8, <1>9 DEF RowTypes

(* A step on one row that leaves what was built.                             *)
LEMMA Touched ==
  ASSUME RowsInv, NEW s \in Processing!Sources, NEW r \in Rows,
         row' = [row EXCEPT ![s] = r], UNCHANGED price,
         r.status \in {"downloaded", "processed"} => r.digest \in Digests,
         row[s].status = "processed" => r.status = "processed" /\ r.digest = row[s].digest,
         s[1] = "trades" /\ r.status = "processed" => row[s].status = "processed",
         book' \in [RunHours -> SUBSET Presets], \A h \in RunHours : book[h] \subseteq book'[h]
  PROVE  RowsInv' /\ Grows
<1> USE DEF RowsInv
<1>1. RowTypes'
  BY DEF RowTypes
<1>2. row'[s] = r /\ \A t \in Processing!Sources : t # s => row'[t] = row[t]
  BY DEF RowTypes
<1>3. Owned'
  BY <1>2 DEF Owned
<1>4. Processing!PriceRowsAgree'
  <2> SUFFICES ASSUME NEW h \in RunHours
               PROVE  /\ row'[Trades(h)].status = "processed" <=> price[h] # Null
                      /\ price[h] # Null => price[h][h] = row'[Trades(h)].digest
    BY DEF Processing!PriceRowsAgree, Trades
  <2>1. /\ row[Trades(h)].status = "processed" <=> price[h] # Null
        /\ price[h] # Null => price[h][h] = row[Trades(h)].digest
    BY DEF Processing!PriceRowsAgree, Trades
  <2>2. CASE s = Trades(h)
    BY <1>2, <2>1, <2>2 DEF Trades
  <2>3. CASE s # Trades(h)
    BY <1>2, <2>1, <2>3, SourceOf
  <2> QED BY <2>2, <2>3
<1>5. Grows
  BY <1>2 DEF Grows
<1> QED BY <1>1, <1>3, <1>4, <1>5

LEMMA OthersTouch ==
  ASSUME RowsInv, Processing!Others
  PROVE  /\ RowsInv' /\ Grows
         /\ \A g \in RunHours \cap run.locked : row'[Trades(g)] = row[Trades(g)]
<1> USE RunAssumption
<1>1. ASSUME NEW s \in Processing!Sources, NEW digest \in Digests, Processing!Fetch(s, digest)
      PROVE  /\ RowsInv' /\ Grows
             /\ \A g \in RunHours \cap run.locked : row'[Trades(g)] = row[Trades(g)]
  <2> DEFINE r == [status |-> IF row[s].status = "processed" THEN row[s].status ELSE "downloaded",
                   local |-> TRUE, digest |-> digest]
  <2>1. row[s] \in Rows
    BY DEF RowsInv, RowTypes
  <2>2. r \in Rows
    BY <2>1 DEF Rows, Hash
  <2>3. row[s].status = "processed" => row[s].digest = digest
    BY <1>1 DEF Processing!Fetch, RowsInv, Owned
  <2>4. /\ r.status \in {"downloaded", "processed"} /\ r.digest = digest
        /\ r.status = "processed" <=> row[s].status = "processed"
    OBVIOUS
  <2>5. row' = [row EXCEPT ![s] = r] /\ UNCHANGED <<book, price>>
    BY <1>1 DEF Processing!Fetch
  <2> HIDE DEF r
  <2>6. RowsInv' /\ Grows
    BY <2>2, <2>3, <2>4, <2>5, Touched DEF RowsInv, RowTypes
  <2>7. \A g \in RunHours \cap run.locked : s # Trades(g)
    BY <1>1 DEF Processing!Fetch, Processing!Unlocked, Trades
  <2> QED BY <2>5, <2>6, <2>7, SourceOf DEF RowsInv, RowTypes
<1>2. ASSUME NEW s \in Processing!Sources, Processing!Prune(s) \/ Processing!Quarantine(s)
      PROVE  /\ RowsInv' /\ Grows
             /\ \A g \in RunHours \cap run.locked : row'[Trades(g)] = row[Trades(g)]
  <2>1. row[s] \in Rows /\ (row[s].status \in {"downloaded", "processed"} => row[s].digest \in Digests)
    BY DEF RowsInv, RowTypes, Owned
  <2>2. PICK status \in {row[s].status, "error"} :
          /\ row[s].status = "processed" => status = "processed"
          /\ row' = [row EXCEPT ![s] = [row[s] EXCEPT !.local = FALSE, !.status = status]]
          /\ UNCHANGED <<book, price>>
    <3>1. CASE Processing!Prune(s)
      <4>1. [row[s] EXCEPT !.local = FALSE] = [row[s] EXCEPT !.local = FALSE, !.status = row[s].status]
        BY <2>1 DEF Rows
      <4> QED BY <3>1, <4>1 DEF Processing!Prune
    <3>2. CASE Processing!Quarantine(s)
      <4>1. row' = [row EXCEPT ![s] = [row[s] EXCEPT !.local = FALSE,
                       !.status = IF row[s].status = "processed" THEN row[s].status ELSE "error"]]
        BY <2>1, <3>2 DEF Processing!Quarantine, RowsInv, RowTypes, Rows
      <4> QED BY <3>2, <4>1 DEF Processing!Quarantine
    <3> QED BY <1>2, <3>1, <3>2
  <2> DEFINE r == [row[s] EXCEPT !.local = FALSE, !.status = status]
  <2>3. r \in Rows /\ r.status = status /\ r.digest = row[s].digest
    BY <2>1 DEF Rows
  <2>4. row' = [row EXCEPT ![s] = r]
    BY <2>2
  <2> HIDE DEF r
  <2>6. RowsInv' /\ Grows
    BY <2>1, <2>2, <2>3, <2>4, Touched DEF RowsInv, RowTypes
  <2>7. \A g \in RunHours \cap run.locked : s # Trades(g)
    BY <1>2 DEF Processing!Prune, Processing!Quarantine, Processing!Unlocked, Trades
  <2> QED BY <2>4, <2>6, <2>7, SourceOf DEF RowsInv, RowTypes
<1>3. ASSUME NEW h \in RunHours, NEW used \in Processing!Provenances(h), Processing!Import(h, used)
      PROVE  /\ RowsInv' /\ Grows
             /\ \A g \in RunHours \cap run.locked : row'[Trades(g)] = row[Trades(g)]
  <2>1. used \in Provenance
    BY DEF Processing!Provenances, Provenance
  <2>2. RowsInv' /\ Grows
    BY <1>3, <2>1, Finalized DEF Processing!Import
  <2>3. h \notin run.locked
    BY <1>3 DEF Processing!Import, Processing!Unlocked
  <2>4. \A s \in Processing!Sources : s # Trades(h) => row'[s] = row[s]
    BY <1>3 DEF Processing!Import, Processing!Own, RowsInv, RowTypes, Trades
  <2>5. \A g \in RunHours \cap run.locked : Trades(g) # Trades(h)
    BY <2>3 DEF Trades
  <2> QED BY <2>2, <2>4, <2>5, SourceOf
<1> QED BY <1>1, <1>2, <1>3 DEF Processing!Others

-----------------------------------------------------------------------------
Items == [source : Processing!Sources, result : {"completed", "error"}]
Phases ==
  {"idle", "next", "locking", "building", "ok", "partial_ok", "error", "stopped", "no_work"}

RunTypes ==
  /\ run \in [phase : Phases, preset : Presets \cup {Null}, adjacent : BOOLEAN,
              queue : Seq(Processing!Sources), items : Seq(Items),
              chosen : Provenance \cup {<<>>}, locked : SUBSET RunHours, stop : BOOLEAN]
  /\ run.queue # <<>> => run.preset \in Presets

(* The items are of targets before those that are left, in the order of the   *)
(* plan.                                                                     *)
InOrder ==
  /\ \A i, j \in 1 .. Len(run.queue) :
       i < j => Processing!ProcessedBefore(run.queue[i], run.queue[j])
  /\ \A i \in 1 .. Len(run.items), j \in 1 .. Len(run.queue) :
       Processing!ProcessedBefore(run.items[i].source, run.queue[j])

(* What an item calls completed is there.                                    *)
Completed ==
  \A i \in 1 .. Len(run.items) :
    run.items[i].result = "completed" =>
      /\ row[run.items[i].source].status = "processed"
      /\ Processing!Materialized(run.items[i].source, run.preset)

Succeeded ==
  run.phase = "ok" => \A i \in 1 .. Len(run.items) : run.items[i].result = "completed"

(* The transaction of a trade hour reads the hour itself and what it locks,   *)
(* and by default nothing else.                                              *)
Chosen ==
  /\ run.phase \in {"locking", "building"} =>
       /\ run.queue # <<>> /\ Processing!Target[1] = "trades"
       /\ run.chosen \in Provenance /\ Processing!Target[2] \in DOMAIN run.chosen
       /\ ~run.adjacent => DOMAIN run.chosen = {Processing!Target[2]}
  /\ run.phase = "building" => run.locked = DOMAIN run.chosen

RunInv ==
  /\ RowsInv /\ RunTypes /\ InOrder /\ Completed /\ Succeeded /\ Chosen
  /\ Processing!SelectionHolds /\ Processing!ChainsStopAtFailure

LEMMA RunStarts == Processing!Init => RunInv
<1> SUFFICES ASSUME Processing!Init PROVE RunInv
  OBVIOUS
<1> USE RunAssumption DEF Processing!Init
<1>1. RowTypes
  BY DEF RowTypes, Rows, Hash
<1>2. Owned
  BY DEF Owned
<1>3. Processing!PriceRowsAgree
  BY SourceOf DEF Processing!PriceRowsAgree, Trades
<1>4. RunTypes /\ run.items = <<>> /\ run.queue = <<>> /\ run.phase = "idle"
  BY DEF RunTypes, Processing!Idle, Phases
<1>5. InOrder /\ Completed /\ Succeeded /\ Chosen /\ Processing!SelectionHolds
      /\ Processing!ChainsStopAtFailure
  BY <1>4
  DEF InOrder, Completed, Succeeded, Chosen, Processing!SelectionHolds, Processing!ChainsStopAtFailure
<1> QED BY <1>1, <1>2, <1>3, <1>4, <1>5 DEF RunInv, RowsInv

(* What is completed stays so.                                               *)
LEMMA CompletedStays ==
  ASSUME RunInv, Grows, run'.items = run.items, run'.preset = run.preset
  PROVE  Completed'
<1> SUFFICES ASSUME NEW i \in 1 .. Len(run.items), run.items[i].result = "completed"
             PROVE  /\ row'[run.items[i].source].status = "processed"
                    /\ Processing!Materialized(run.items[i].source, run.preset)'
  BY DEF Completed
<1>0. run.items[i] \in Items
  BY DEF RunInv, RunTypes
<1>1. PICK s \in Processing!Sources : s = run.items[i].source
  BY <1>0 DEF Items
<1>2. row[s].status = "processed" /\ Processing!Materialized(s, run.preset)
  BY <1>1 DEF RunInv, Completed
<1>3. s[2] \in RunHours
  BY DEF Processing!Sources
<1>4. Processing!Materialized(s, run.preset)'
  BY <1>2, <1>3 DEF Grows, Processing!Materialized
<1> QED BY <1>1, <1>2, <1>4 DEF Grows

(* The report of a target.                                                   *)
LEMMA Reported ==
  ASSUME RunInv, RowsInv', Grows, NEW result \in {"completed", "error"},
         Processing!Report(result), run.queue # <<>>,
         result = "completed" =>
           /\ row'[Processing!Target].status = "processed"
           /\ IF Processing!Target[1] = "orderbook" THEN run.preset \in book'[Processing!Target[2]]
              ELSE price'[Processing!Target[2]] # Null
           /\ ~Processing!Blocked(Processing!Target)
  PROVE  RunInv'
<1> DEFINE s == Processing!Target
           item == [source |-> s, result |-> result]
<1>1. s \in Processing!Sources /\ item \in Items /\ s = run.queue[1]
  BY DEF RunInv, RunTypes, Processing!Target, Items
<1>2. /\ run'.phase = "next" /\ run'.queue = Tail(run.queue) /\ run'.items = Append(run.items, item)
      /\ run'.chosen = <<>> /\ run'.locked = {} /\ run'.preset = run.preset
      /\ run'.stop = run.stop /\ run'.adjacent = run.adjacent
  BY DEF RunInv, RunTypes, Processing!Report
<1>3. /\ run' = [phase |-> run'.phase, preset |-> run'.preset, adjacent |-> run'.adjacent,
                 queue |-> run'.queue, items |-> run'.items, chosen |-> run'.chosen,
                 locked |-> run'.locked, stop |-> run'.stop]
  BY DEF RunInv, RunTypes, Processing!Report
<1> HIDE DEF s, item
<1>4. RunTypes'
  <2>1. /\ run'.queue \in Seq(Processing!Sources) /\ run'.items \in Seq(Items)
        /\ run'.preset \in Presets \cup {Null} /\ run'.stop \in BOOLEAN
        /\ run'.adjacent \in BOOLEAN
    BY <1>1, <1>2 DEF RunInv, RunTypes
  <2>2. /\ run'.phase \in Phases /\ run'.chosen \in Provenance \cup {<<>>}
        /\ run'.locked \in SUBSET RunHours
    BY <1>2 DEF Phases
  <2>3. run'.preset \in Presets
    BY <1>2 DEF RunInv, RunTypes
  <2> QED BY <1>3, <2>1, <2>2, <2>3 DEF RunTypes
<1> HIDE <1>3
<1>5. /\ Len(run'.items) = Len(run.items) + 1 /\ Len(run.items) \in Nat
      /\ run'.items[Len(run.items) + 1] = item
      /\ \A i \in 1 .. Len(run.items) : run'.items[i] = run.items[i] /\ run.items[i] \in Items
  BY <1>1, <1>2 DEF RunInv, RunTypes
<1>6. /\ Len(run.queue) \in Nat /\ Len(run'.queue) = Len(run.queue) - 1
      /\ \A j \in 1 .. Len(run'.queue) : run'.queue[j] = run.queue[j + 1]
      /\ \A j \in 1 .. Len(run.queue) : run.queue[j] \in Processing!Sources
  BY <1>2 DEF RunInv, RunTypes
<1>7. item.source = s /\ item.result = result
  BY DEF item
<1>8. InOrder'
  <2>1. ASSUME NEW i \in 1 .. Len(run'.queue), NEW j \in 1 .. Len(run'.queue), i < j
        PROVE  Processing!ProcessedBefore(run'.queue[i], run'.queue[j])
    <3>1. /\ i + 1 \in 1 .. Len(run.queue) /\ j + 1 \in 1 .. Len(run.queue) /\ i + 1 < j + 1
          /\ run'.queue[i] = run.queue[i + 1] /\ run'.queue[j] = run.queue[j + 1]
      BY <1>6, <2>1
    <3> QED BY <3>1 DEF RunInv, InOrder
  <2>2. ASSUME NEW i \in 1 .. Len(run'.items), NEW j \in 1 .. Len(run'.queue)
        PROVE  Processing!ProcessedBefore(run'.items[i].source, run'.queue[j])
    <3>1. run'.queue[j] = run.queue[j + 1] /\ j + 1 \in 1 .. Len(run.queue) /\ 1 < j + 1
          /\ 1 \in 1 .. Len(run.queue)
      BY <1>6
    <3>2. CASE i \in 1 .. Len(run.items)
      BY <1>5, <3>1, <3>2 DEF RunInv, InOrder
    <3>3. CASE i = Len(run.items) + 1
      BY <1>1, <1>5, <1>7, <3>1, <3>3 DEF RunInv, InOrder
    <3> QED BY <1>5, <3>2, <3>3
  <2> QED BY <2>1, <2>2 DEF InOrder, Processing!ProcessedBefore
<1>9. Completed'
  <2> SUFFICES ASSUME NEW i \in 1 .. Len(run'.items), run'.items[i].result = "completed"
               PROVE  /\ row'[run'.items[i].source].status = "processed"
                      /\ Processing!Materialized(run.items[i].source, run.preset)'
    BY DEF Completed
  <2>1. CASE i \in 1 .. Len(run.items)
    <3>1. PICK t \in Processing!Sources : t = run.items[i].source
      BY <1>5, <2>1 DEF Items
    <3>2. row[t].status = "processed" /\ Processing!Materialized(t, run.preset) /\ t[2] \in RunHours
      BY <1>5, <2>1, <3>1 DEF RunInv, Completed, Processing!Sources
    <3>3. Processing!Materialized(t, run.preset)'
      BY <1>2, <3>2 DEF Grows, Processing!Materialized
    <3> QED BY <1>5, <2>1, <3>1, <3>2, <3>3 DEF Grows
  <2>2. CASE i = Len(run.items) + 1
    BY <1>2, <1>5, <1>7, <2>2 DEF s, Processing!Materialized
  <2> QED BY <1>5, <2>1, <2>2
<1>10. Processing!ChainsStopAtFailure'
  <2> SUFFICES ASSUME NEW i \in 1 .. Len(run'.items), NEW j \in 1 .. Len(run'.items),
                      run'.items[i].source[1] = "orderbook", run'.items[j].source[1] = "orderbook",
                      run'.items[i].source[2] < run'.items[j].source[2],
                      run'.items[i].result = "error"
               PROVE  run'.items[j].result = "error"
    BY DEF Processing!ChainsStopAtFailure
  <2>1. CASE i \in 1 .. Len(run.items) /\ j \in 1 .. Len(run.items)
    BY <1>5, <2>1 DEF RunInv, Processing!ChainsStopAtFailure
  <2>2. CASE i \in 1 .. Len(run.items) /\ j = Len(run.items) + 1
    BY <1>5, <1>7, <2>2 DEF Processing!Blocked, Processing!Failures, s
  <2>3. CASE i = Len(run.items) + 1 /\ j \in 1 .. Len(run.items)
    <3>1. Processing!ProcessedBefore(run.items[j].source, s)
      BY <1>1, <1>6, <2>3 DEF RunInv, InOrder
    <3>2. run.items[j].source[2] \in Int /\ s[2] \in Int
      BY <1>1, <1>5, <2>3, RunAssumption DEF Items, Processing!Sources
    <3>3. ~(s[2] < run.items[j].source[2]) \/ s[1] # "orderbook"
          \/ run.items[j].source[1] # "orderbook"
      BY <3>1, <3>2 DEF Processing!ProcessedBefore
    <3> QED BY <1>5, <1>7, <2>3, <3>3
  <2>4. CASE i = Len(run.items) + 1 /\ j = Len(run.items) + 1
    BY <2>4
  <2> QED BY <1>5, <2>1, <2>2, <2>3, <2>4
<1>11. Succeeded' /\ Chosen' /\ Processing!SelectionHolds'
  BY <1>2 DEF Succeeded, Chosen, Processing!SelectionHolds
<1> QED BY <1>4, <1>8, <1>9, <1>10, <1>11 DEF RunInv

(* A step of the run that reports nothing.                                   *)
LEMMA Moved ==
  ASSUME RunInv, UNCHANGED <<row, book, price>>, run'.items = run.items, run'.preset = run.preset,
         run'.queue = run.queue, RunTypes', Succeeded', Chosen', Processing!SelectionHolds'
  PROVE  RunInv'
<1>1. Grows
  BY DEF Grows
<1>2. Completed'
  BY <1>1, CompletedStays
<1>3. RowsInv' /\ InOrder'
  BY DEF RunInv, RowsInv, RowTypes, Owned, Processing!PriceRowsAgree, InOrder
<1>4. Processing!ChainsStopAtFailure'
  BY DEF RunInv, Processing!ChainsStopAtFailure
<1> QED BY <1>2, <1>3, <1>4 DEF RunInv

LEMMA CountedTargets == \A S : Processing!Cardinality(S) = Cardinality(S)
BY DEF Processing!Cardinality, Cardinality

LEMMA RunBegins ==
  ASSUME RunInv, NEW preset \in Presets, NEW adjacent \in BOOLEAN,
         Processing!Start(preset, adjacent)
  PROVE  RunInv'
<1> DEFINE targets == {s \in Processing!Sources : Processing!ShouldProcess(s, preset)}
<1>1. PICK q \in Processing!Plans(preset) :
        run' = [Processing!Idle EXCEPT !.phase = "next", !.preset = preset, !.adjacent = adjacent,
                                       !.queue = q]
  BY DEF Processing!Start
<1>2. UNCHANGED <<row, book, price>>
  BY DEF Processing!Start
<1>3. IsFiniteSet(targets)
  <2>1. IsFiniteSet(Processing!Kinds) /\ IsFiniteSet(RunHours)
    <3>1. Processing!Kinds = {"orderbook"} \cup {"trades"}
      BY DEF Processing!Kinds
    <3> QED BY <3>1, RunAssumption, FS_Singleton, FS_Union
  <2>2. IsFiniteSet(Processing!Sources)
    BY <2>1, FS_Product DEF Processing!Sources
  <2> QED BY <2>2, FS_Subset
<1>4. Cardinality(targets) \in Nat
  BY <1>3, FS_CardinalityType
<1>5. /\ q \in [1 .. Cardinality(targets) -> targets]
      /\ \A i, j \in DOMAIN q : i < j => Processing!ProcessedBefore(q[i], q[j])
  <2>1. /\ q \in [1 .. Processing!Cardinality(targets) -> targets]
        /\ \A i, j \in DOMAIN q : i < j => Processing!ProcessedBefore(q[i], q[j])
    BY DEF Processing!Plans
  <2> QED BY <2>1, CountedTargets
<1> HIDE DEF targets
<1>6. q \in [1 .. Cardinality(targets) -> Processing!Sources]
  BY <1>5 DEF targets
<1>7. q \in Seq(Processing!Sources) /\ DOMAIN q = 1 .. Len(q)
  BY <1>4, <1>6
<1>8. /\ run'.phase = "next" /\ run'.preset = preset /\ run'.queue = q /\ run'.items = <<>>
      /\ RunTypes'
  <2>1. run' = [phase |-> "next", preset |-> preset, adjacent |-> adjacent, queue |-> q,
                items |-> <<>>, chosen |-> <<>>, locked |-> {}, stop |-> FALSE]
    BY <1>1 DEF Processing!Idle
  <2> HIDE <1>1
  <2> QED BY <1>7, <2>1 DEF RunTypes, Phases
<1>9. RowsInv'
  BY <1>2 DEF RunInv, RowsInv, RowTypes, Owned, Processing!PriceRowsAgree
<1>10. InOrder' /\ Completed' /\ Succeeded' /\ Chosen' /\ Processing!SelectionHolds'
       /\ Processing!ChainsStopAtFailure'
  BY <1>5, <1>7, <1>8
  DEF InOrder, Completed, Succeeded, Chosen, Processing!SelectionHolds, Processing!ChainsStopAtFailure,
      Processing!ProcessedBefore
<1> QED BY <1>8, <1>9, <1>10 DEF RunInv

(* The choice of archives of an hour.                                        *)
LEMMA Selected ==
  ASSUME RunInv, NEW h \in RunHours
  PROVE  /\ Processing!Selection(h) \in Provenance
         /\ DOMAIN Processing!Selection(h) = Processing!Around(h)
         /\ ~run.adjacent => Processing!Around(h) \subseteq {h}
         /\ \A g \in Processing!Around(h) :
              /\ Processing!Replayable(Trades(g))
              /\ Processing!Selection(h)[g] = row[Trades(g)].digest
<1>1. Processing!Around(h) \in SUBSET RunHours
  BY DEF Processing!Around
<1>2. ASSUME NEW g \in Processing!Around(h)
      PROVE  Processing!Replayable(Trades(g)) /\ row[Trades(g)].digest \in Digests
  BY <1>1, SourceOf DEF Processing!Around, Processing!Replayable, RunInv, RowsInv, Owned, Trades
<1>3. Processing!Selection(h) \in [Processing!Around(h) -> Digests]
  BY <1>2 DEF Processing!Selection, Trades
<1>4. ~run.adjacent => Processing!Around(h) \subseteq {h}
  BY DEF Processing!Around
<1> QED BY <1>1, <1>2, <1>3, <1>4 DEF Processing!Selection, Provenance, Trades

LEMMA WorkSteps == ASSUME RunInv, Processing!Work PROVE RunInv'
<1> USE RunAssumption
<1>1. ASSUME Processing!StoppedBefore \/ Processing!BookCancelled \/ Processing!TradesCancelled
      PROVE  RunInv'
  <2>1. UNCHANGED <<row, book, price>>
        /\ run' = [run EXCEPT !.phase = "stopped", !.chosen = <<>>, !.locked = {}]
    BY <1>1 DEF Processing!StoppedBefore, Processing!BookCancelled, Processing!TradesCancelled,
                Processing!Cancelled
  <2>2. /\ run'.items = run.items /\ run'.preset = run.preset /\ run'.queue = run.queue
        /\ run'.phase = "stopped" /\ RunTypes'
    BY <2>1 DEF RunInv, RunTypes, Phases
  <2> QED BY <2>1, <2>2, Moved DEF Succeeded, Chosen, Processing!SelectionHolds
<1>2. ASSUME UNCHANGED <<row, book, price>>, Processing!Report("error"), run.queue # <<>>
      PROVE  RunInv'
  <2>1. RowsInv' /\ Grows
    BY <1>2 DEF RunInv, RowsInv, RowTypes, Owned, Processing!PriceRowsAgree, Grows
  <2> QED BY <1>2, <2>1, Reported
<1>3. ASSUME Processing!Block \/ Processing!BookFails \/ Processing!TradesFail
             \/ Processing!BuildConflicts
      PROVE  RunInv'
  BY <1>2, <1>3 DEF Processing!Block, Processing!BookFails, Processing!TradesFail, Processing!Enter,
                    Processing!BuildConflicts, RunInv, Chosen
<1>4. ASSUME Processing!BookBuilt PROVE RunInv'
  <2> DEFINE s == Processing!Target
             r == [row[s] EXCEPT !.status = "processed"]
  <2>1. s \in Processing!Sources /\ s[1] = "orderbook" /\ s[2] \in RunHours /\ run.queue # <<>>
        /\ ~Processing!Blocked(s) /\ Processing!Replayable(s)
    <3>1. run.queue # <<>> /\ run.queue \in Seq(Processing!Sources)
      BY <1>4 DEF Processing!BookBuilt, Processing!Enter, RunInv, RunTypes
    <3>2. s \in Processing!Sources
      BY <3>1 DEF Processing!Target
    <3> QED BY <1>4, <3>1, <3>2 DEF Processing!BookBuilt, Processing!Enter, Processing!Sources
  <2>2. row[s] \in Rows /\ row[s].digest \in Digests
    BY <2>1 DEF RunInv, RowsInv, RowTypes, Owned, Processing!Replayable
  <2>3. r \in Rows /\ r.status = "processed" /\ r.digest = row[s].digest
    BY <2>2 DEF Rows
  <2>4. /\ row' = [row EXCEPT ![s] = r] /\ UNCHANGED price
        /\ book' = [book EXCEPT ![s[2]] = @ \cup {run.preset}]
        /\ Processing!Report("completed")
    BY <1>4 DEF Processing!BookBuilt
  <2> HIDE DEF r, s
  <2>5. run.preset \in Presets
    BY <1>4 DEF RunInv, RunTypes, Processing!BookBuilt, Processing!Enter
  <2>6. book' \in [RunHours -> SUBSET Presets] /\ run.preset \in book'[s[2]]
        /\ \A h \in RunHours : book[h] \subseteq book'[h]
    BY <2>1, <2>4, <2>5 DEF RunInv, RowsInv, RowTypes
  <2>7. RowsInv' /\ Grows
    BY <2>1, <2>2, <2>3, <2>4, <2>6, Touched DEF RunInv
  <2>8. row'[s].status = "processed"
    BY <2>1, <2>3, <2>4 DEF RunInv, RowsInv, RowTypes
  <2> QED BY <2>1, <2>4, <2>6, <2>7, <2>8, Reported DEF s
<1>5. ASSUME Processing!Choose PROVE RunInv'
  <2> DEFINE h == Processing!Target[2]
  <2>1. run.queue # <<>> /\ run.queue \in Seq(Processing!Sources) /\ Processing!Target[1] = "trades"
    BY <1>5 DEF Processing!Choose, Processing!Enter, RunInv, RunTypes
  <2>2. h \in RunHours
    BY <2>1 DEF Processing!Target, Processing!Sources
  <2>3. CASE h \in Processing!Around(h)
    <3>1. /\ run' = [run EXCEPT !.phase = "locking", !.chosen = Processing!Selection(h)]
          /\ UNCHANGED <<row, book, price>> /\ run.phase = "next"
      BY <1>5, <2>3 DEF Processing!Choose, Processing!Enter
    <3>2. /\ Processing!Selection(h) \in Provenance /\ h \in DOMAIN Processing!Selection(h)
          /\ ~run.adjacent => DOMAIN Processing!Selection(h) = {h}
      BY <2>2, <2>3, Selected
    <3>3. /\ run'.adjacent = run.adjacent
          /\ run'.items = run.items /\ run'.preset = run.preset /\ run'.queue = run.queue
          /\ run'.phase = "locking" /\ run'.chosen = Processing!Selection(h) /\ RunTypes'
      BY <3>1, <3>2 DEF RunInv, RunTypes, Phases
    <3>4. Processing!Target' = Processing!Target
      BY <3>3 DEF Processing!Target
    <3>5. Chosen'
      BY <2>1, <3>2, <3>3, <3>4 DEF Chosen
    <3> QED BY <3>1, <3>3, <3>5, Moved DEF Succeeded, Processing!SelectionHolds
  <2>4. CASE h \notin Processing!Around(h)
    BY <1>2, <1>5, <2>1, <2>4 DEF Processing!Choose
  <2> QED BY <2>3, <2>4
<1>6. ASSUME Processing!Lock PROVE RunInv'
  <2>1. PICK g \in DOMAIN run.chosen : run' = [run EXCEPT !.locked = @ \cup {g}]
    BY <1>6 DEF Processing!Lock
  <2>2. /\ UNCHANGED <<row, book, price>> /\ run.phase = "locking" /\ run.chosen \in Provenance
        /\ DOMAIN run.chosen \subseteq RunHours
    BY <1>6, Provided DEF Processing!Lock, RunInv, Chosen
  <2>3. /\ run'.items = run.items /\ run'.preset = run.preset /\ run'.queue = run.queue
        /\ run'.adjacent = run.adjacent
        /\ run'.phase = "locking" /\ run'.chosen = run.chosen /\ RunTypes'
    BY <2>1, <2>2 DEF RunInv, RunTypes
  <2>4. Processing!Target' = Processing!Target
    BY <2>3 DEF Processing!Target
  <2>5. Chosen'
    BY <2>2, <2>3, <2>4 DEF RunInv, Chosen
  <2> QED BY <2>2, <2>3, <2>5, Moved DEF Succeeded, Processing!SelectionHolds
<1>7. ASSUME Processing!Reselect PROVE RunInv'
  <2> DEFINE h == Processing!Target[2]
  <2>1. /\ run.queue # <<>> /\ run.chosen \in Provenance /\ h \in DOMAIN run.chosen /\ h \in RunHours
        /\ run.phase = "locking" /\ run.locked = DOMAIN run.chosen /\ UNCHANGED <<row, book, price>>
    BY <1>7, Provided DEF Processing!Reselect, RunInv, Chosen
  <2>2. CASE Processing!Selection(h) = run.chosen
    <3>1. run' = [run EXCEPT !.phase = "building"]
      BY <1>7, <2>2 DEF Processing!Reselect
    <3>2. /\ run'.items = run.items /\ run'.preset = run.preset /\ run'.queue = run.queue
          /\ run'.phase = "building" /\ run'.chosen = run.chosen /\ run'.locked = run.locked
          /\ run'.adjacent = run.adjacent /\ RunTypes'
      BY <2>1, <3>1 DEF RunInv, RunTypes, Phases
    <3>3. Processing!Target' = Processing!Target
      BY <3>2 DEF Processing!Target
    <3>4. Chosen'
      BY <2>1, <3>2, <3>3 DEF RunInv, Chosen
    <3>5. Processing!SelectionHolds'
      <4>1. \A g \in DOMAIN run.chosen :
              Processing!Replayable(Trades(g)) /\ row[Trades(g)].digest = run.chosen[g]
        BY <2>1, <2>2, Selected
      <4> QED BY <2>1, <3>2, <4>1, ZenonT(60)
          DEF Processing!SelectionHolds, Processing!Replayable, Trades
    <3> QED BY <2>1, <3>2, <3>4, <3>5, Moved DEF Succeeded
  <2>3. CASE Processing!Selection(h) # run.chosen
    BY <1>2, <1>7, <2>1, <2>3 DEF Processing!Reselect
  <2> QED BY <2>2, <2>3
<1>8. ASSUME Processing!Build PROVE RunInv'
  <2> DEFINE h == Processing!Target[2]
  <2>1. /\ run.queue # <<>> /\ run.chosen \in Provenance /\ h \in DOMAIN run.chosen
        /\ Processing!Target[1] = "trades"
    BY <1>8 DEF Processing!Build, RunInv, Chosen
  <2>2. /\ Processing!Write(h, run.chosen) /\ Processing!Own(h, run.chosen[h])
        /\ Processing!Report("completed") /\ UNCHANGED book
    BY <1>8 DEF Processing!Build
  <2>3. RowsInv' /\ Grows /\ row'[Trades(h)].status = "processed" /\ price'[h] # Null
    BY <2>1, <2>2, Finalized DEF RunInv
  <2>4. Processing!Target = Trades(h)
    BY <2>1 DEF Trades, RunInv, RunTypes, Processing!Target, Processing!Sources
  <2>5. ~Processing!Blocked(Processing!Target)
    BY <2>1 DEF Processing!Blocked
  <2> QED BY <2>1, <2>2, <2>3, <2>4, <2>5, Reported
<1>9. ASSUME Processing!Finish PROVE RunInv'
  <2>1. /\ UNCHANGED <<row, book, price>>
        /\ run.phase = "next"
        /\ run' = [run EXCEPT !.phase =
                     IF run.items = <<>> THEN "no_work"
                     ELSE IF Processing!Failures = {} THEN "ok"
                     ELSE IF Processing!Completed # {} THEN "partial_ok"
                     ELSE "error"]
    BY <1>9 DEF Processing!Finish
  <2>2. /\ run'.items = run.items /\ run'.preset = run.preset /\ run'.queue = run.queue
        /\ run'.phase \in {"no_work", "ok", "partial_ok", "error"}
        /\ run'.phase = "ok" => Processing!Failures = {}
        /\ RunTypes'
    BY <2>1 DEF RunInv, RunTypes, Phases
  <2>3. Succeeded'
    <3>1. \A i \in 1 .. Len(run.items) : run.items[i] \in Items
      BY DEF RunInv, RunTypes
    <3>2. \A i \in 1 .. Len(run.items) : run.items[i].result \in {"completed", "error"}
      BY <3>1 DEF Items
    <3> QED BY <2>2, <3>2 DEF Succeeded, Processing!Failures
  <2> QED BY <2>1, <2>2, <2>3, Moved DEF Chosen, Processing!SelectionHolds
<1> QED
  BY <1>1, <1>3, <1>4, <1>5, <1>6, <1>7, <1>8, <1>9 DEF Processing!Work

LEMMA RunSteps == RunInv /\ [Processing!Next]_Processing!vars => RunInv'
<1> SUFFICES ASSUME RunInv, [Processing!Next]_Processing!vars PROVE RunInv'
  OBVIOUS
<1>1. ASSUME Processing!RequestStop PROVE RunInv'
  <2>1. /\ UNCHANGED <<row, book, price>> /\ run' = [run EXCEPT !.stop = TRUE]
    BY <1>1 DEF Processing!RequestStop
  <2>2. /\ run'.items = run.items /\ run'.preset = run.preset /\ run'.queue = run.queue
        /\ run'.phase = run.phase /\ run'.chosen = run.chosen /\ run'.locked = run.locked
        /\ run'.adjacent = run.adjacent /\ RunTypes'
    BY <2>1 DEF RunInv, RunTypes
  <2>3. Processing!Target' = Processing!Target
    BY <2>2 DEF Processing!Target
  <2>4. Chosen' /\ Succeeded' /\ Processing!SelectionHolds'
    BY <2>1, <2>2, <2>3
    DEF RunInv, Chosen, Succeeded, Processing!SelectionHolds, Processing!Replayable
  <2> QED BY <2>1, <2>2, <2>4, Moved
<1>2. ASSUME Processing!Others PROVE RunInv'
  <2>1. UNCHANGED run
    BY <1>2 DEF Processing!Others
  <2>2. /\ RowsInv' /\ Grows
        /\ \A g \in RunHours \cap run.locked : row'[Trades(g)] = row[Trades(g)]
    BY <1>2, OthersTouch DEF RunInv
  <2>3. Completed'
    BY <2>1, <2>2, CompletedStays
  <2>4. RunTypes' /\ InOrder' /\ Succeeded' /\ Chosen' /\ Processing!ChainsStopAtFailure'
    BY <2>1
    DEF RunInv, RunTypes, InOrder, Succeeded, Chosen, Processing!Target, Processing!ChainsStopAtFailure
  <2>5. Processing!SelectionHolds'
    <3>1. ASSUME run.phase = "building", NEW g \in DOMAIN run.chosen
          PROVE  row'[Trades(g)] = row[Trades(g)]
      BY <2>2, <3>1, Provided DEF RunInv, Chosen
    <3> QED BY <2>1, <3>1 DEF RunInv, Processing!SelectionHolds, Processing!Replayable, Trades
  <2> QED BY <2>2, <2>3, <2>4, <2>5 DEF RunInv
<1>3. CASE UNCHANGED Processing!vars
  <2>1. UNCHANGED <<row, book, price, run>>
    BY <1>3 DEF Processing!vars
  <2>2. RunTypes' /\ Succeeded' /\ Chosen' /\ Processing!SelectionHolds'
    BY <2>1
    DEF RunInv, RunTypes, Succeeded, Chosen, Processing!Target, Processing!SelectionHolds,
        Processing!Replayable
  <2> QED BY <2>1, <2>2, Moved
<1> QED
  BY <1>1, <1>2, <1>3, RunBegins, WorkSteps DEF Processing!Next

LEMMA RunSays ==
  RunInv => /\ Processing!ChainsStopAtFailure /\ Processing!OkLeavesNothing
            /\ Processing!SelectionHolds /\ Processing!PriceRowsAgree
            /\ Processing!DefaultRunsAgree
<1>1. ASSUME RunInv PROVE Processing!OkLeavesNothing
  BY <1>1 DEF RunInv, Succeeded, Completed, Processing!OkLeavesNothing, Processing!ShouldProcess
<1>2. ASSUME RunInv PROVE Processing!DefaultRunsAgree
  <2> DEFINE h == Processing!Target[2]
  <2> SUFFICES ASSUME run.phase = "building", ~run.adjacent
               PROVE  /\ DOMAIN run.chosen = {h}
                      /\ price[h] # Null /\ DOMAIN price[h] = {h} => price[h] = run.chosen
    BY DEF Processing!DefaultRunsAgree
  <2>1. DOMAIN run.chosen = {h} /\ run.chosen \in Provenance
    BY <1>2 DEF RunInv, Chosen
  <2>2. h \in RunHours
    BY <2>1 DEF Provenance
  <2>3. row[Trades(h)].digest = run.chosen[h]
    BY <1>2, <2>1 DEF RunInv, Processing!SelectionHolds, Trades
  <2>4. ASSUME price[h] # Null, DOMAIN price[h] = {h} PROVE price[h] = run.chosen
    <3>1. price[h] \in Provenance /\ price[h][h] = row[Trades(h)].digest
      BY <1>2, <2>2, <2>4
      DEF RunInv, RowsInv, RowTypes, Processing!PriceRowsAgree, Trades
    <3>2. price[h] \in [{h} -> Digests] /\ run.chosen \in [{h} -> Digests]
      BY <2>1, <2>4, <3>1 DEF Provenance
    <3> QED BY <2>3, <3>1, <3>2
  <2> QED BY <2>1, <2>4
<1> QED BY <1>1, <1>2 DEF RunInv, RowsInv

(* Of default runs and of runs that read the adjacent hours as well: no hour   *)
(* of a chain completes after an earlier one failed, a run called "ok" leaves  *)
(* nothing of its plan to do, and a trade hour is built from the archives it   *)
(* chose under its locks, whatever fetches, pruning, quarantine and imports do *)
(* to the rows meanwhile; a default run over an hour that has a row of its own *)
(* archive finds that row to be the one it would write                        *)
(* (ui/processing_runtime.py, processing/price_coordinator.py).               *)
THEOREM RunsTellTheTruth == DataSpec => []RunIsTruthful
<1>1. RunInv => RunIsTruthful
  BY RunSays DEF RunIsTruthful
<1> QED BY <1>1, RunStarts, RunSteps, RunInside, PTL DEF DataSpec

-----------------------------------------------------------------------------
(* Pages.                                                                  *)

(* What a page and its loader handle.                                        *)
Loads == [op : Nat, tf : Timeframes]
Projections == [op : Nat, source : Inputs, tf : Timeframes]
Captures ==
  [kind : {"presentation"}, step : {"capture"}]
    \cup [kind : {"view"}, step : {"capture"}, tf : Timeframes]
Publications ==
  [kind : {"presentation", "view", "poll"}, step : {"send", "confirm", "settle"},
   projection : Projections]
Waiting == [op : Nat, viewport : Projections \cup {Null}]
Restored == [viewport : Projections, projection : Projections]

PageTypes ==
  /\ loader \in [running : Loads \cup {Null}, sequence : Nat, op : Nat,
                 last : Projections \cup {Null}]
  /\ page \in [loaded : Projections \cup {Null}, displayed : Projections \cup {Null},
               commit : Inputs \cup {Null}, task : Captures \cup Publications \cup {Null},
               pending : Waiting \cup {Null}, sequence : Nat, success : Nat,
               restored : Restored \cup {Null}]
  /\ window \in Projections \cup {Null}

(* A commit is of the displayed chart, which is the browser's, and no task is *)
(* about to change that.                                                     *)
Committed ==
  page.commit # Null =>
    /\ window = page.displayed
    /\ ~Page!InStep("send") /\ ~Page!InStep("confirm")

(* Each load but the one that runs has ended, and the last projection is of   *)
(* one of those.                                                             *)
Ended ==
  /\ loader.op = IF Page!Running THEN loader.sequence + 1 ELSE loader.sequence
  /\ loader.last # Null => loader.last.op \in 1 .. loader.sequence
  /\ page.sequence =< loader.sequence

(* The page has loaded what it handled last, and holds what it publishes for  *)
(* a poll.                                                                   *)
Heard ==
  /\ page.success =< loader.sequence
  /\ page.loaded # Null =>
       /\ page.loaded.op =< loader.sequence
       /\ loader.last # Null /\ page.loaded.op = loader.last.op => page.loaded = loader.last
  /\ loader.last # Null /\ page.success = loader.last.op => page.loaded = loader.last
  /\ page.task # Null /\ page.task \in Publications /\ page.task.kind = "poll" =>
       page.loaded # Null /\ page.task.projection = page.loaded

(* A viewport waits for a load, and for the last one only while the page has  *)
(* yet to look at its end.                                                   *)
Awaited ==
  page.pending # Null =>
    /\ page.pending.op =< loader.op
    /\ page.pending.op = loader.op /\ ~Page!Running => page.sequence # loader.sequence

(* A task that captures a viewport has something to publish after that, and   *)
(* only a poll settles.                                                     *)
Held ==
  /\ Page!InStep("capture") =>
       IF page.task.kind = "view" THEN page.loaded # Null ELSE page.displayed # Null
  /\ Page!InStep("settle") => page.task.kind = "poll"

PageInv ==
  PageTypes /\ Committed /\ Ended /\ Heard /\ Awaited /\ Held /\ Page!ViewportBelongs

LEMMA PageStarts == Page!Init => PageInv
BY PageAssumption
DEF Page!Init, Page!Blank, PageInv, PageTypes, Committed, Ended, Heard, Awaited, Held,
    Page!ViewportBelongs,     Page!InStep, Page!Running, Captures, Publications

LEMMA TaskInStep ==
  ASSUME PageTypes, NEW step \in {"send", "confirm", "settle"}, Page!InStep(step)
  PROVE  page.task \in Publications /\ page.task # Null
BY DEF PageTypes, Page!InStep, Captures

LEMMA PageSteps == PageInv /\ [Page!Next]_Page!vars => PageInv'
<1> SUFFICES ASSUME PageInv, [Page!Next]_Page!vars PROVE PageInv'
  OBVIOUS
<1> USE PageAssumption DEF PageInv
<1>0. loader.sequence + 1 \in Nat /\ loader.op + 1 \in Nat
  BY DEF PageTypes
<1>1. ASSUME NEW s \in Inputs, Page!Complete(s) PROVE PageInv'
  <2> USE <1>1 DEF Page!Complete
  <2>1. PageTypes'
    <3>1. loader.running \in Loads
      BY DEF PageTypes, Page!Running
    <3>2. [op |-> loader.op, source |-> s, tf |-> loader.running.tf] \in Projections
      BY <3>1 DEF PageTypes, Loads, Projections
    <3> QED BY <1>0, <3>2 DEF PageTypes
  <2>2. Committed'
    BY DEF Committed, Page!InStep
  <2>3. Ended'
    BY DEF PageTypes, Ended, Page!Running
  <2>4. Heard'
    BY DEF PageTypes, Ended, Heard, Page!Running, Projections
  <2>5. Awaited'
    BY DEF PageTypes, Ended, Awaited, Page!Running, Waiting
  <2>7. Held'
    BY DEF PageTypes, Held, Page!InStep
  <2>6. Page!ViewportBelongs'
    BY DEF Page!ViewportBelongs, Page!InStep
  <2> QED BY <2>1, <2>2, <2>3, <2>4, <2>5, <2>6, <2>7
<1>2. ASSUME Page!End PROVE PageInv'
  <2> USE <1>2 DEF Page!End
  <2>1. PageTypes'
    BY <1>0 DEF PageTypes
  <2>2. Committed'
    BY DEF Committed, Page!InStep
  <2>3. Ended'
    BY DEF PageTypes, Ended, Page!Running, Projections
  <2>4. Heard'
    BY DEF PageTypes, Heard, Projections
  <2>5. Awaited'
    BY DEF PageTypes, Ended, Awaited, Page!Running, Waiting
  <2>7. Held'
    BY DEF PageTypes, Held, Page!InStep
  <2>6. Page!ViewportBelongs'
    BY DEF Page!ViewportBelongs, Page!InStep
  <2> QED BY <2>1, <2>2, <2>3, <2>4, <2>5, <2>6, <2>7
<1>3. ASSUME Page!Send PROVE PageInv'
  <2>0. page.task \in Publications /\ page.task # Null
    BY <1>3, TaskInStep DEF Page!Send
  <2> USE <1>3, <2>0 DEF Page!Send
  <2>1. PageTypes'
    <3>1. [page.task EXCEPT !.step = "confirm"] \in Publications
      BY DEF Publications
    <3>2. page' = [page EXCEPT !.task = [page.task EXCEPT !.step = "confirm"]]
      OBVIOUS
    <3>3. page.task.projection \in Projections
      BY DEF Publications
    <3> QED BY <3>1, <3>2, <3>3 DEF PageTypes
  <2>2. Committed'
    BY DEF PageTypes, Committed
  <2>3. Ended'
    BY DEF PageTypes, Ended, Page!Running
  <2>4. Heard'
    <3>1. page'.task # Null => page'.task.kind = page.task.kind
                               /\ page'.task.projection = page.task.projection
      BY DEF PageTypes, Publications
    <3>2. page'.loaded = page.loaded /\ page'.success = page.success
      BY DEF PageTypes
    <3> QED BY <3>1, <3>2 DEF Heard
  <2>5. Awaited'
    BY DEF PageTypes, Awaited, Page!Running
  <2>7. Held'
    <3>1. page'.task.step = "confirm"
      BY DEF PageTypes, Publications
    <3> QED BY <3>1 DEF Held, Page!InStep
  <2>6. Page!ViewportBelongs'
    BY DEF PageTypes, Page!ViewportBelongs, Page!InStep, Publications
  <2> QED BY <2>1, <2>2, <2>3, <2>4, <2>5, <2>6, <2>7
<1>4. ASSUME Page!Acknowledge PROVE PageInv'
  <2>0. page.task \in Publications /\ page.task # Null
    BY <1>4, TaskInStep DEF Page!Acknowledge
  <2> USE <1>4, <2>0 DEF Page!Acknowledge, Page!Left
  <2>1. PageTypes'
    <3>1. [page.task EXCEPT !.step = "settle"] \in Publications
      BY DEF Publications
    <3>2. page.task.projection \in Projections
      BY DEF Publications
    <3>3. page.task.projection.source \in Inputs
      BY <3>2 DEF Projections
    <3> QED BY <3>1, <3>2, <3>3, ZenonT(60) DEF PageTypes
  <2>2. Committed'
    BY DEF PageTypes, Committed, Page!InStep, Publications
  <2>3. Ended'
    BY DEF PageTypes, Ended, Page!Running
  <2>4. Heard'
    <3>1. page'.task # Null => page'.task.kind = page.task.kind
                               /\ page'.task.projection = page.task.projection
      BY DEF PageTypes, Publications
    <3>2. page'.loaded = page.loaded /\ page'.success = page.success
      BY DEF PageTypes
    <3> QED BY <3>1, <3>2 DEF Heard
  <2>5. Awaited'
    BY DEF PageTypes, Awaited, Page!Running
  <2>7. Held'
    <3>1. page'.task # Null => page'.task.step = "settle" /\ page'.task.kind = "poll"
      BY DEF PageTypes, Publications
    <3> QED BY <3>1 DEF Held, Page!InStep
  <2>6. Page!ViewportBelongs'
    BY DEF PageTypes, Page!ViewportBelongs, Page!InStep, Publications
  <2> QED BY <2>1, <2>2, <2>3, <2>4, <2>5, <2>6, <2>7
<1>5. ASSUME Page!PublishFails PROVE PageInv'
  <2>0. page.task \in Publications /\ page.task # Null
    BY <1>5, TaskInStep DEF Page!PublishFails
  <2> USE <1>5, <2>0 DEF Page!PublishFails, Page!Left
  <2>1. PageTypes'
    <3>1. [page.task EXCEPT !.step = "settle"] \in Publications
      BY DEF Publications
    <3>2. page.task.projection \in Projections
      BY DEF Publications
    <3>3. page.task.projection.source \in Inputs
      BY <3>2 DEF Projections
    <3> QED BY <3>1, <3>2, <3>3, ZenonT(60) DEF PageTypes
  <2>2. Committed'
    BY DEF PageTypes, Committed, Page!InStep, Publications
  <2>3. Ended'
    BY DEF PageTypes, Ended, Page!Running
  <2>4. Heard'
    <3>1. page'.task # Null => page'.task.kind = page.task.kind
                               /\ page'.task.projection = page.task.projection
      BY DEF PageTypes, Publications
    <3>2. page'.loaded = page.loaded /\ page'.success = page.success
      BY DEF PageTypes
    <3> QED BY <3>1, <3>2 DEF Heard
  <2>5. Awaited'
    BY DEF PageTypes, Awaited, Page!Running
  <2>7. Held'
    <3>1. page'.task # Null => page'.task.step = "settle" /\ page'.task.kind = "poll"
      BY DEF PageTypes, Publications
    <3> QED BY <3>1 DEF Held, Page!InStep
  <2>6. Page!ViewportBelongs'
    BY DEF PageTypes, Page!ViewportBelongs, Page!InStep, Publications
  <2> QED BY <2>1, <2>2, <2>3, <2>4, <2>5, <2>6, <2>7
<1>6. ASSUME Page!ChangePresentation \/ \E tf \in Timeframes : Page!ChangeView(tf) PROVE PageInv'
  <2>0. PICK t \in Captures : /\ page' = [page EXCEPT !.task = t]
                              /\ IF t.kind = "view" THEN page.loaded # Null ELSE page.displayed # Null
    <3>1. [kind |-> "presentation", step |-> "capture"] \in Captures
      BY DEF Captures
    <3>2. \A tf \in Timeframes : [kind |-> "view", step |-> "capture", tf |-> tf] \in Captures
      BY DEF Captures
    <3>3. CASE Page!ChangePresentation
      BY <3>1, <3>3 DEF Page!ChangePresentation
    <3>4. CASE \E tf \in Timeframes : Page!ChangeView(tf)
      BY <3>2, <3>4 DEF Page!ChangeView
    <3> QED BY <1>6, <3>3, <3>4
  <2>a. UNCHANGED <<loader, window>>
    BY <1>6 DEF Page!ChangePresentation, Page!ChangeView
  <2>b. t.step = "capture" /\ t \notin Publications
    BY DEF Captures, Publications
  <2> USE <2>0, <2>a, <2>b
  <2>1. PageTypes'
    BY DEF PageTypes
  <2>2. Committed'
    BY DEF PageTypes, Committed, Page!InStep
  <2>3. Ended'
    BY DEF PageTypes, Ended, Page!Running
  <2>4. Heard'
    BY DEF PageTypes, Heard
  <2>5. Awaited'
    BY DEF PageTypes, Awaited, Page!Running
  <2>7. Held'
    BY DEF PageTypes, Held, Page!InStep
  <2>6. Page!ViewportBelongs'
    BY DEF PageTypes, Page!ViewportBelongs, Page!InStep
  <2> QED BY <2>1, <2>2, <2>3, <2>4, <2>5, <2>6, <2>7
<1>7. ASSUME NEW tf \in Timeframes, NEW v \in Page!Captured,
             Page!CanAdmit, loader' = Page!Admitted(tf), UNCHANGED window,
             page' = [page EXCEPT !.task = Null,
                                  !.pending = [op |-> loader.op + 1, viewport |-> v]]
      PROVE  PageInv'
  <2> USE <1>7 DEF Page!Admitted, Page!CanAdmit
  <2>1. PageTypes'
    <3>1. [op |-> loader.op + 1, tf |-> tf] \in Loads
      BY <1>0 DEF Loads
    <3>2. [op |-> loader.op + 1, viewport |-> v] \in Waiting
      BY <1>0 DEF PageTypes, Page!Captured, Waiting
    <3> QED BY <1>0, <3>1, <3>2 DEF PageTypes
  <2>2. Committed'
    BY DEF PageTypes, Committed, Page!InStep
  <2>3. Ended'
    BY DEF PageTypes, Ended, Page!Running
  <2>4. Heard'
    BY DEF PageTypes, Heard
  <2>5. Awaited'
    BY DEF PageTypes, Awaited, Page!Running, Waiting
  <2>7. Held'
    BY DEF PageTypes, Held, Page!InStep
  <2>6. Page!ViewportBelongs'
    BY DEF PageTypes, Page!ViewportBelongs, Page!InStep, Page!Free
  <2> QED BY <2>1, <2>2, <2>3, <2>4, <2>5, <2>6, <2>7
<1>8. ASSUME NEW tf \in Timeframes, Page!OthersLoad(tf) PROVE PageInv'
  <2> USE <1>8 DEF Page!OthersLoad, Page!Admitted, Page!CanAdmit
  <2>1. PageTypes'
    <3>1. [op |-> loader.op + 1, tf |-> tf] \in Loads
      BY <1>0 DEF Loads
    <3> QED BY <1>0, <3>1 DEF PageTypes
  <2>2. Committed'
    BY DEF PageTypes, Committed, Page!InStep
  <2>3. Ended'
    BY DEF PageTypes, Ended, Page!Running
  <2>4. Heard'
    BY DEF PageTypes, Heard
  <2>5. Awaited'
    BY DEF PageTypes, Awaited, Page!Running, Waiting
  <2>7. Held'
    BY DEF PageTypes, Held, Page!InStep
  <2>6. Page!ViewportBelongs'
    BY DEF PageTypes, Page!ViewportBelongs, Page!InStep
  <2> QED BY <2>1, <2>2, <2>3, <2>4, <2>5, <2>6, <2>7
<1>9. ASSUME NEW t \in {"presentation", "view"}, NEW p \in Projections, NEW v \in Page!Captured,
             page' = Page!Publishing(t, p, v), UNCHANGED <<loader, window>>
      PROVE  PageInv'
  <2> USE <1>9 DEF Page!Publishing
  <2>0. v \in {Null, page.displayed}
    BY DEF Page!Captured
  <2>1. PageTypes'
    <3>1. [kind |-> t, step |-> "send", projection |-> p] \in Publications
      BY DEF Publications
    <3>2. v # Null => v \in Projections
      BY <2>0 DEF PageTypes
    <3>3. v # Null => [viewport |-> v, projection |-> p] \in Restored
      BY <3>2 DEF Restored
    <3> QED BY <3>1, <3>3, ZenonT(60) DEF PageTypes
  <2>2. Committed'
    BY DEF PageTypes, Committed
  <2>3. Ended'
    BY DEF PageTypes, Ended, Page!Running
  <2>4. Heard'
    BY DEF PageTypes, Heard
  <2>5. Awaited'
    BY DEF PageTypes, Awaited, Page!Running
  <2>7. Held'
    BY DEF PageTypes, Held, Page!InStep
  <2>6. Page!ViewportBelongs'
    BY <2>0 DEF PageTypes, Page!ViewportBelongs, Page!InStep, Page!Same
  <2> QED BY <2>1, <2>2, <2>3, <2>4, <2>5, <2>6, <2>7
<1>10. ASSUME UNCHANGED <<loader, window>>, page' = [page EXCEPT !.task = Null] PROVE PageInv'
  <2> USE <1>10
  <2>1. PageTypes'
    BY DEF PageTypes
  <2>2. Committed'
    BY DEF PageTypes, Committed, Page!InStep
  <2>3. Ended'
    BY DEF PageTypes, Ended, Page!Running
  <2>4. Heard'
    BY DEF PageTypes, Heard, Publications
  <2>5. Awaited'
    BY DEF PageTypes, Awaited, Page!Running
  <2>7. Held'
    BY DEF PageTypes, Held, Page!InStep
  <2>6. Page!ViewportBelongs'
    BY DEF PageTypes, Page!ViewportBelongs, Page!InStep
  <2> QED BY <2>1, <2>2, <2>3, <2>4, <2>5, <2>6, <2>7
<1>11. ASSUME Page!Present \/ Page!View PROVE PageInv'
  <2>1. page.task \in Captures /\ page.task.kind = "view" => page.task.tf \in Timeframes
    BY DEF Captures
  <2>2. page.task \in Captures
    BY <1>11 DEF Page!Present, Page!View, Page!InStep, PageTypes, Publications
  <2>3. CASE Page!Running
    BY <1>10, <1>11, <2>3 DEF Page!Present, Page!View
  <2>4. CASE ~Page!Running /\ Page!Present
    <3>1. page.displayed \in Projections
      BY <2>4 DEF Page!Present, Held, PageTypes
    <3>2. PICK v \in Page!Captured : \/ page' = Page!Publishing("presentation", page.displayed, v)
                                     \/ page' = [page EXCEPT !.task = Null]
      BY <2>4 DEF Page!Present, Page!Attempts, Page!OptionRefused, Page!Left
    <3> QED BY <1>9, <1>10, <2>4, <3>1, <3>2 DEF Page!Present
  <2>5. CASE ~Page!Running /\ Page!View
    <3> DEFINE tf == page.task.tf
    <3>1. page.loaded \in Projections
      BY <2>5 DEF Page!View, Held, PageTypes
    <3>2. tf \in Timeframes
      BY <2>1, <2>2, <2>5 DEF Page!View
    <3>3. [page.loaded EXCEPT !.tf = tf] \in Projections
      BY <3>1, <3>2 DEF Projections
    <3> HIDE DEF tf
    <3>4. PICK v \in Page!Captured :
            \/ page' = Page!Publishing("view", [page.loaded EXCEPT !.tf = tf], v) /\ UNCHANGED loader
            \/ /\ Page!CanAdmit
               /\ loader' = Page!Admitted(tf)
               /\ page' = [page EXCEPT !.task = Null,
                                       !.pending = [op |-> loader.op + 1, viewport |-> v]]
            \/ page' = [page EXCEPT !.task = Null] /\ UNCHANGED loader
      BY <2>5 DEF Page!View, Page!Attempts, Page!OptionRefused, Page!Left, tf
    <3>5. UNCHANGED window
      BY <2>5 DEF Page!View
    <3> QED BY <1>7, <1>9, <1>10, <3>2, <3>3, <3>4, <3>5
  <2> QED BY <1>11, <2>3, <2>4, <2>5
<1>12. ASSUME Page!Poll, Page!Unhandled,
              page' = [Page!Publishing("poll", loader.last, Page!ViewportFor) EXCEPT !.loaded = loader.last]
       PROVE  PageInv'
  <2> DEFINE v == Page!ViewportFor
             task == [kind |-> "poll", step |-> "send", projection |-> loader.last]
  <2>1. page' = [page EXCEPT !.commit = Null, !.task = task, !.loaded = loader.last,
                   !.restored = IF v # Null /\ Page!Same(loader.last, page.displayed)
                                THEN [viewport |-> v, projection |-> loader.last] ELSE Null]
    BY <1>12 DEF Page!Publishing, PageTypes
  <2>2. UNCHANGED <<loader, window>> /\ loader.last # Null /\ loader.last \in Projections
        /\ loader.last.op # page.success
    BY <1>12 DEF Page!Poll, Page!Unhandled, PageTypes
  <2>3. v # Null => page.pending # Null /\ page.pending.op = loader.last.op /\ v = page.pending.viewport
    BY DEF Page!ViewportFor
  <2>4. task \in Publications
    BY <2>2 DEF Publications
  <2>5. v # Null => [viewport |-> v, projection |-> loader.last] \in Restored
    BY <2>2, <2>3 DEF PageTypes, Waiting, Restored
  <2> HIDE DEF v
  <2>6. PageTypes'
    BY <2>1, <2>2, <2>4, <2>5, ZenonT(60) DEF PageTypes
  <2>7. Committed' /\ Ended'
    BY <2>1, <2>2 DEF PageTypes, Committed, Ended, Page!Running
  <2>8. Heard'
    <3>1. loader.last.op =< loader.sequence
      BY <2>2 DEF Ended, PageTypes
    <3>2. page'.loaded = loader.last /\ page'.success = page.success /\ page'.task = task
      BY <2>1 DEF PageTypes
    <3> QED BY <2>2, <3>1, <3>2 DEF Heard
  <2>9. Awaited' /\ Held'
    BY <2>1, <2>2 DEF PageTypes, Awaited, Held, Page!InStep, Page!Running
  <2>10. Page!ViewportBelongs'
    <3>1. page'.task = task /\ page'.pending = page.pending
      BY <2>1 DEF PageTypes
    <3>2. page'.restored # Null => v # Null /\ page'.restored.viewport = v
      BY <2>1 DEF PageTypes
    <3> QED BY <2>3, <3>1, <3>2 DEF Page!ViewportBelongs
  <2> QED BY <2>6, <2>7, <2>8, <2>9, <2>10
<1>12a. ASSUME Page!Poll, Page!Unhandled,
              page' = [Page!OptionRefused("poll", loader.last) EXCEPT !.loaded = loader.last]
       PROVE  PageInv'
  <2> DEFINE task == [kind |-> "poll", step |-> "settle", projection |-> loader.last]
  <2>1. page' = [page EXCEPT !.task = task, !.loaded = loader.last]
    <3>1. Page!Left([kind |-> "poll", step |-> "send", projection |-> loader.last]) = task
      BY DEF Page!Left
    <3>2. Page!OptionRefused("poll", loader.last) = [page EXCEPT !.task = task]
      BY <3>1 DEF Page!OptionRefused
    <3> QED BY <1>12a, <3>2 DEF PageTypes
  <2>2. UNCHANGED <<loader, window>> /\ loader.last # Null /\ loader.last \in Projections
        /\ loader.last.op # page.success /\ page.task = Null
    BY <1>12a DEF Page!Poll, Page!CanPoll, Page!Free, Page!Unhandled, PageTypes
  <2>3. task \in Publications
    BY <2>2 DEF Publications
  <2>4. PageTypes'
    BY <2>1, <2>2, <2>3, ZenonT(60) DEF PageTypes
  <2>5. Committed' /\ Ended'
    BY <2>1, <2>2 DEF PageTypes, Committed, Ended, Page!Running, Page!InStep
  <2>6. Heard'
    <3>1. loader.last.op =< loader.sequence
      BY <2>2 DEF Ended, PageTypes
    <3>2. page'.loaded = loader.last /\ page'.success = page.success /\ page'.task = task
      BY <2>1 DEF PageTypes
    <3> QED BY <2>2, <3>1, <3>2 DEF Heard
  <2>7. Awaited' /\ Held' /\ Page!ViewportBelongs'
    BY <2>1, <2>2 DEF PageTypes, Awaited, Held, Page!ViewportBelongs, Page!InStep, Page!Running
  <2> QED BY <2>4, <2>5, <2>6, <2>7
<1>12b. ASSUME Page!Poll, Page!Unhandled PROVE PageInv'
  BY <1>12, <1>12a, <1>12b DEF Page!Poll, Page!Attempts
<1>13. ASSUME UNCHANGED <<loader, window>>,
              NEW s, s \in {page, Page!Handled(page.task.projection.op)},
              page' = Page!Settled(s),
              s = page => page.task = Null,
              s # page => page.task \in Publications /\ page.task # Null /\ page.task.kind = "poll"
       PROVE  PageInv'
  <2>1. /\ s \in [loaded : {page.loaded}, displayed : {page.displayed}, commit : {page.commit},
                  task : {Null}, pending : {page.pending, Null}, sequence : {page.sequence},
                  success : Nat, restored : {page.restored}]
        /\ s.success # page.success => page.loaded # Null /\ s.success = page.loaded.op
    <3>1. CASE s = page
      BY <1>13, <3>1 DEF PageTypes
    <3>2. CASE s # page
      <4> DEFINE op == page.task.projection.op
      <4>1. op \in Nat /\ page.loaded # Null /\ op = page.loaded.op
        BY <1>13, <3>2 DEF Heard, Publications, Projections
      <4>2. s = [page EXCEPT !.task = Null, !.success = op,
                            !.pending = IF page.pending # Null /\ page.pending.op = op
                                        THEN Null ELSE page.pending]
        BY <1>13, <3>2 DEF Page!Handled
      <4> HIDE DEF op
      <4> QED BY <4>1, <4>2, ZenonT(60) DEF PageTypes
    <3> QED BY <3>1, <3>2
  <2>2. /\ page' \in [loaded : {page.loaded}, displayed : {page.displayed}, commit : {page.commit},
                      task : {Null}, pending : {page.pending, Null},
                      sequence : {page.sequence, loader.sequence}, success : {s.success},
                      restored : {page.restored}]
        /\ Page!Running => page'.sequence = page.sequence
        /\ ~Page!Running => /\ page'.sequence = loader.sequence
                            /\ page'.pending # Null => page'.pending.op # loader.op
    BY <1>13, <2>1 DEF Page!Settled
  <2>3. PageTypes'
    <3>1. /\ page'.loaded = page.loaded /\ page'.displayed = page.displayed
          /\ page'.commit = page.commit /\ page'.task = Null /\ page'.pending \in {page.pending, Null}
          /\ page'.sequence \in Nat /\ page'.success \in Nat /\ page'.restored = page.restored
      BY <2>1, <2>2 DEF PageTypes
    <3> HIDE <1>13
    <3>2. page' = [loaded |-> page'.loaded, displayed |-> page'.displayed, commit |-> page'.commit,
                   task |-> page'.task, pending |-> page'.pending, sequence |-> page'.sequence,
                   success |-> page'.success, restored |-> page'.restored]
      BY <2>2
    <3> QED BY <1>13, <3>1, <3>2 DEF PageTypes
  <2>4. Committed' /\ Held' /\ Page!ViewportBelongs'
    BY <1>13, <2>2 DEF Committed, Held, Page!ViewportBelongs, Page!InStep
  <2>5. Ended'
    BY <1>13, <2>2 DEF PageTypes, Ended, Page!Running
  <2>6. Heard'
    BY <1>13, <2>1, <2>2 DEF PageTypes, Heard
  <2>7. Awaited'
    BY <1>13, <2>2 DEF Awaited, Page!Running
  <2> QED BY <2>3, <2>4, <2>5, <2>6, <2>7
<1>14. CASE UNCHANGED Page!vars
  BY <1>14
  DEF Page!vars, PageTypes, Committed, Ended, Heard, Awaited, Held, Page!ViewportBelongs,
      Page!InStep, Page!Running
<1>15. ASSUME NEW tf \in Timeframes, Page!StartLoad(tf) PROVE PageInv'
  <2>1. page' = [page EXCEPT !.task = Null, !.pending = [op |-> loader.op + 1, viewport |-> Null]]
    BY <1>15 DEF Page!StartLoad, Page!Free, PageTypes
  <2> QED
    BY <1>7, <1>15, <2>1 DEF Page!StartLoad, Page!Captured
<1>16. ASSUME Page!Poll, ~Page!Unhandled PROVE PageInv'
  BY <1>13, <1>16 DEF Page!Poll, Page!CanPoll, Page!Free
<1>17. ASSUME Page!Settle PROVE PageInv'
  <2>1. page.task \in Publications /\ page.task # Null /\ page.task.kind = "poll"
    BY <1>17, TaskInStep DEF Page!Settle, Held
  <2>2. Page!Handled(page.task.projection.op) # page
    BY <2>1 DEF Page!Handled, PageTypes
  <2> QED
    BY <1>13, <1>17, <2>1, <2>2 DEF Page!Settle
<1> QED
  BY <1>1, <1>2, <1>3, <1>4, <1>5, <1>6, <1>8, <1>11, <1>12b, <1>14, <1>15, <1>16, <1>17
  DEF Page!Next

LEMMA PageSays == PageInv => Page!ExportIsShown /\ Page!NoSuccessOverlooked /\ Page!ViewportBelongs
<1> SUFFICES ASSUME PageInv PROVE Page!ExportIsShown /\ Page!NoSuccessOverlooked
  BY DEF PageInv
<1>1. Page!ExportIsShown
  BY PageAssumption DEF PageInv, PageTypes, Committed, Page!ExportIsShown, Page!Exportable, Projections
<1>2. Page!NoSuccessOverlooked
  BY DEF PageInv, PageTypes, Ended, Heard, Awaited, Page!NoSuccessOverlooked, Page!CanPoll, Page!Unhandled,
         Page!Free, Page!Running, Waiting
<1> QED BY <1>1, <1>2

(* What a page exports is what its browser shows, a page with nothing left to  *)
(* poll overlooked no load that succeeded, and a viewport returns with the     *)
(* load it waits for or to the source it was captured on, in whatever order    *)
(* loads end and tasks resume (ui/tab_l2_view.py, ui/l2_view_runtime.py).     *)
THEOREM PagesTellTheTruth == DataSpec => []PageIsTruthful
<1>1. PageInv => PageIsTruthful
  BY PageSays DEF PageIsTruthful
<1> QED BY <1>1, PageStarts, PageSteps, PageInside, PTL DEF DataSpec

-----------------------------------------------------------------------------
(* The bucket.                                                             *)

(* What its objects hold, and what a publication returns.                    *)
Paths == {"artifact", "manifest", "descriptor"}
Pairs == [artifact : Nat, manifest : Nat]
References == [version : Nat, publication : Pairs]
Values == Contents \cup Pairs \cup {Lost}
Results == [key : Bucket!Keys, content : Contents, reference : References]

ObjectTypes == object \in [Bucket!Keys -> [Paths -> Seq(Values)]]

(* A version is there, and is what it was or deleted.                        *)
Is(k, path, v, value) ==
  v \in 1 .. Len(object[k][path]) /\ object[k][path][v] \in {value, Lost}

Pins(k, p, c) == Is(k, "artifact", p.artifact, c) /\ Is(k, "manifest", p.manifest, c)
Returns(k, reference, c) ==
  Pins(k, reference.publication, c) /\ Is(k, "descriptor", reference.version, reference.publication)

(* All that is there of an object.                                           *)
Only(k, path, values) ==
  \A v \in 1 .. Len(object[k][path]) : object[k][path][v] \in values \cup {Lost}

(* Every descriptor pins one content.                                        *)
Pinned ==
  \A k \in Bucket!Keys : \A d \in 1 .. Len(object[k]["descriptor"]) :
    object[k]["descriptor"][d] # Lost =>
      /\ object[k]["descriptor"][d] \in Pairs
      /\ \E c \in Contents : Pins(k, object[k]["descriptor"][d], c)

(* Versions are only added and deleted.                                      *)
Ages ==
  /\ ObjectTypes'
  /\ \A k \in Bucket!Keys, path \in Paths :
       /\ Len(object[k][path]) =< Len(object[k][path])'
       /\ \A v \in 1 .. Len(object[k][path]) : object'[k][path][v] \in {object[k][path][v], Lost}

LEMMA Lasts ==
  ASSUME ObjectTypes, Ages, NEW k \in Bucket!Keys
  PROVE  /\ \A path \in Paths : \A v, value : Is(k, path, v, value) => Is(k, path, v, value)'
         /\ \A p, c : Pins(k, p, c) => Pins(k, p, c)'
         /\ \A r, c : Returns(k, r, c) => Returns(k, r, c)'
<1>1. \A path \in Paths : \A v, value : Is(k, path, v, value) => Is(k, path, v, value)'
  <2> SUFFICES ASSUME NEW path \in Paths, NEW v, NEW value, Is(k, path, v, value)
               PROVE  Is(k, path, v, value)'
    OBVIOUS
  <2>1. Len(object[k][path]) \in Nat /\ Len(object'[k][path]) \in Nat
    BY DEF ObjectTypes, Ages
  <2>2. Len(object[k][path]) =< Len(object'[k][path])
    BY DEF Ages
  <2>3. object'[k][path][v] \in {object[k][path][v], Lost}
    BY DEF Ages, Is
  <2> QED BY <2>1, <2>2, <2>3 DEF Is
<1>2. \A p, c : Pins(k, p, c) => Pins(k, p, c)'
  BY <1>1 DEF Pins, Paths
<1> QED BY <1>1, <1>2 DEF Returns, Paths

(* A new version of an object, and a deleted one.                            *)
Adds(k, path, value) ==
  /\ Ages
  /\ \A j \in Bucket!Keys, q \in Paths : j # k \/ q # path => object'[j][q] = object[j][q]
  /\ Len(object'[k][path]) = Len(object[k][path]) + 1
  /\ \A v \in 1 .. Len(object[k][path]) : object'[k][path][v] = object[k][path][v]
  /\ object'[k][path][Len(object[k][path]) + 1] = value

LEMMA Put ==
  ASSUME ObjectTypes, NEW k \in Bucket!Keys, NEW path \in Paths, NEW value \in Values,
         Bucket!Put(k, path, value)
  PROVE  Adds(k, path, value)
<1> DEFINE s == object[k][path]
<1>1. s \in Seq(Values)
  BY DEF ObjectTypes
<1>2. object' = [object EXCEPT ![k][path] = Append(s, value)]
  BY DEF Bucket!Put
<1>3. /\ Append(s, value) \in Seq(Values) /\ Len(Append(s, value)) = Len(s) + 1 /\ Len(s) \in Nat
      /\ \A v \in 1 .. Len(s) : Append(s, value)[v] = s[v]
      /\ Append(s, value)[Len(s) + 1] = value
  BY <1>1
<1>4. /\ object'[k][path] = Append(s, value)
      /\ \A j \in Bucket!Keys, q \in Paths : j # k \/ q # path => object'[j][q] = object[j][q]
  BY <1>2 DEF ObjectTypes
<1>5. ObjectTypes'
  BY <1>1, <1>2, <1>3 DEF ObjectTypes
<1>6. \A j \in Bucket!Keys, q \in Paths :
        /\ Len(object[j][q]) =< Len(object'[j][q])
        /\ \A v \in 1 .. Len(object[j][q]) : object'[j][q][v] \in {object[j][q][v], Lost}
  <2> SUFFICES ASSUME NEW j \in Bucket!Keys, NEW q \in Paths
               PROVE  /\ Len(object[j][q]) =< Len(object'[j][q])
                      /\ \A v \in 1 .. Len(object[j][q]) : object'[j][q][v] \in {object[j][q][v], Lost}
    OBVIOUS
  <2>1. CASE j = k /\ q = path
    BY <1>3, <1>4, <2>1
  <2>2. CASE j # k \/ q # path
    <3>1. object'[j][q] = object[j][q] /\ Len(object[j][q]) \in Nat
      BY <1>4, <2>2 DEF ObjectTypes
    <3> QED BY <3>1
  <2> QED BY <2>1, <2>2
<1> QED BY <1>3, <1>4, <1>5, <1>6 DEF Adds, Ages

LEMMA Deleted ==
  ASSUME ObjectTypes, NEW k \in Bucket!Keys, NEW path \in Paths, NEW v \in DOMAIN object[k][path],
         object' = [object EXCEPT ![k][path][v] = Lost]
  PROVE  /\ Ages
         /\ \A j \in Bucket!Keys, q \in Paths : Len(object'[j][q]) = Len(object[j][q])
<1> DEFINE s == object[k][path]
           t == [s EXCEPT ![v] = Lost]
<1>1. s \in Seq(Values) /\ Lost \in Values
  BY DEF ObjectTypes, Values
<1>2. object' = [object EXCEPT ![k][path] = t]
  OBVIOUS
<1>3. /\ t \in Seq(Values) /\ Len(t) = Len(s) /\ Len(s) \in Nat
      /\ \A i \in 1 .. Len(s) : t[i] \in {s[i], Lost}
  BY <1>1
<1> HIDE DEF t
<1>4. /\ object'[k][path] = t
      /\ \A j \in Bucket!Keys, q \in Paths : j # k \/ q # path => object'[j][q] = object[j][q]
  BY <1>2 DEF ObjectTypes
<1>5. ObjectTypes'
  BY <1>1, <1>2, <1>3 DEF ObjectTypes
<1>6. \A j \in Bucket!Keys, q \in Paths :
        /\ Len(object[j][q]) = Len(object'[j][q]) /\ Len(object[j][q]) \in Nat
        /\ \A i \in 1 .. Len(object[j][q]) : object'[j][q][i] \in {object[j][q][i], Lost}
  <2> SUFFICES ASSUME NEW j \in Bucket!Keys, NEW q \in Paths
               PROVE  /\ Len(object[j][q]) = Len(object'[j][q]) /\ Len(object[j][q]) \in Nat
                      /\ \A i \in 1 .. Len(object[j][q]) : object'[j][q][i] \in {object[j][q][i], Lost}
    OBVIOUS
  <2>1. CASE j = k /\ q = path
    BY <1>3, <1>4, <2>1
  <2>2. CASE j # k \/ q # path
    <3>1. object'[j][q] = object[j][q] /\ Len(object[j][q]) \in Nat
      BY <1>4, <2>2 DEF ObjectTypes
    <3> QED BY <3>1
  <2> QED BY <2>1, <2>2
<1> QED BY <1>5, <1>6 DEF Ages

(* The newest version there is.                                              *)
LEMMA CurrentIs ==
  ASSUME ObjectTypes, NEW k \in Bucket!Keys, NEW path \in Paths
  PROVE  /\ Bucket!Current(k, path) \in 0 .. Len(object[k][path])
         /\ Bucket!Current(k, path) # 0 => object[k][path][Bucket!Current(k, path)] # Lost
         /\ Bucket!Current(k, path) = 0 => Only(k, path, {})
<1> DEFINE n == Len(object[k][path])
           S == {0} \union {v \in DOMAIN object[k][path] : object[k][path][v] # Lost}
           T == {n - v : v \in S}
<1>1. n \in Nat /\ DOMAIN object[k][path] = 1 .. n
  BY DEF ObjectTypes
<1>2. S \subseteq 0 .. n /\ 0 \in S
  BY <1>1
<1>3. T \in SUBSET Nat /\ n - 0 \in T
  BY <1>1, <1>2
<1> HIDE DEF n
<1>4. PICK x \in T : \A y \in T : x =< y
  BY <1>3, Least
<1>5. PICK m \in S : x = n - m
  BY <1>4
<1>6. \A v \in S : n - m =< n - v
  BY <1>4, <1>5
<1>7. \A v \in S : m >= v
  BY <1>1, <1>2, <1>6
<1>8. Bucket!Current(k, path) = Bucket!Max(S)
  BY DEF Bucket!Current
<1>9. Bucket!Max(S) \in S /\ \A v \in S : Bucket!Max(S) >= v
  BY <1>7 DEF Bucket!Max
<1> QED BY <1>1, <1>2, <1>8, <1>9 DEF Only, n
-----------------------------------------------------------------------------
Heads == {"manifest", "verify"}
Puts ==
  {"put_artifact", "reread_artifact", "put_manifest", "reread_manifest", "again", "put_descriptor"}

IsPub(r) ==
  /\ r = [phase |-> r.phase, key |-> r.key, content |-> r.content, artifact |-> r.artifact,
          manifest |-> r.manifest, reference |-> r.reference, created |-> r.created,
          attempts |-> r.attempts]
  /\ r.phase \in {"idle", "existing", "artifact", "read_back", "published"} \cup Heads \cup Puts
  /\ r.artifact \in Nat /\ r.manifest \in Nat /\ r.created \in BOOLEAN
  /\ r.phase # "idle" => r.key \in Bucket!Keys /\ r.content \in Contents
  /\ r.phase \in {"read_back", "published"} => r.reference \in References

PubTypes ==
  pub = [w \in Bucket!Writers |-> pub[w]] /\ \A w \in Bucket!Writers : IsPub(pub[w])

(* What a writer has found and written of its content so far.                *)
Secured(r) ==
  /\ r.phase \in Heads => r.artifact =< Len(object[r.key]["artifact"])
  /\ r.phase \in Puts \cup {"verify"} /\ r.manifest # 0 => Is(r.key, "manifest", r.manifest, r.content)
  /\ r.phase \in Puts /\ r.artifact # 0 => Is(r.key, "artifact", r.artifact, r.content)
  /\ r.phase \in Puts \ {"put_artifact"} => r.artifact # 0
  /\ r.phase \in {"reread_manifest", "again", "put_descriptor"} => r.manifest # 0
  /\ r.phase \in {"read_back", "published"} => Returns(r.key, r.reference, r.content)

(* What was returned reads as what was published, or is deleted.             *)
Known == results \subseteq Results /\ \A r \in results : Returns(r.key, r.reference, r.content)

(* A single writer: what is there of a key, ...                              *)
OneContent(k) ==
  \E c \in Contents \cup {Null} : Only(k, "artifact", {c}) /\ Only(k, "manifest", {c})
OneDescriptor(k) ==
  \A d, e \in 1 .. Len(object[k]["descriptor"]) :
    \/ object[k]["descriptor"][d] = Lost \/ object[k]["descriptor"][e] = Lost
    \/ object[k]["descriptor"][d] = object[k]["descriptor"][e]

(* ... and what it has found there.                                          *)
Alone(r) ==
  /\ r.phase \in {"artifact"} \cup Heads \cup (Puts \ {"put_descriptor"}) =>
       Only(r.key, "descriptor", {})
  /\ r.phase = "put_descriptor" =>
       Only(r.key, "descriptor", {[artifact |-> r.artifact, manifest |-> r.manifest]})
  /\ r.phase \in {"read_back", "put_descriptor"} =>
       \A q \in results :
         q.key = r.key => object[r.key]["descriptor"][q.reference.version] = Lost
  /\ r.phase \in Heads /\ r.artifact = 0 => Only(r.key, "artifact", {})
  /\ r.phase \in Puts \cup {"verify", "read_back"} => Only(r.key, "manifest", {r.content})
  /\ r.phase \in Puts \cup {"read_back"} => Only(r.key, "artifact", {r.content})
  /\ r.phase = "published" =>
       \A q \in results : q.key = r.key => q.content = r.content \/ Bucket!Gone(q)

Single ==
  exclusive =>
    /\ pub["worker"].phase = "idle" \/ migration.phase = "idle"
    /\ \A w \in Bucket!Writers : Alone(pub[w])
    /\ \A k \in Bucket!Keys : OneContent(k) /\ OneDescriptor(k)
    /\ \A q, r \in results :
         q.key = r.key => q.content = r.content \/ Bucket!Gone(q) \/ Bucket!Gone(r)

(* A migration publishes the key it is at.                                   *)
Copies ==
  pub["migration"].phase # "idle" => migration.phase = "copy" /\ migration.left # <<>>

(* What a migration reads from, and what is left of it.                      *)
SourceTypes ==
  /\ migration = [phase |-> migration.phase, left |-> migration.left, pinned |-> migration.pinned,
                  seeds |-> migration.seeds]
  /\ migration.left \in Seq(Bucket!Keys)
  /\ migration.pinned = Null \/ migration.pinned \in [Bucket!Keys -> Contents \cup {Null}]
  /\ origin \in [Bucket!Keys -> Contents \cup {Null}]

ObjectInv ==
  /\ ObjectTypes /\ PubTypes /\ Pinned /\ Known /\ (\A w \in Bucket!Writers : Secured(pub[w]))
  /\ Single /\ Copies /\ SourceTypes

LEMMA Gone ==
  ASSUME ObjectTypes, Ages, NEW r \in Results, Returns(r.key, r.reference, r.content), Bucket!Gone(r)
  PROVE  Bucket!Gone(r)'
<1>1. r.key \in Bucket!Keys
  BY DEF Results
<1> QED BY <1>1 DEF Returns, Pins, Is, Ages, Bucket!Gone, Bucket!At, Paths

LEMMA OthersRest ==
  ASSUME ObjectInv, exclusive, NEW w \in Bucket!Writers, NEW x \in Bucket!Writers, x # w,
         pub[w].phase # "idle"
  PROVE  pub[x].phase = "idle"
BY DEF ObjectInv, Single, Copies, Bucket!Writers

LEMMA IdleRests == ASSUME NEW r, r.phase = "idle" PROVE Secured(r) /\ Alone(r)
BY DEF Secured, Alone, Heads, Puts

LEMMA SecuredLasts ==
  ASSUME ObjectTypes, Ages, NEW r, IsPub(r), Secured(r)
  PROVE  Secured(r)'
<1>1. CASE r.phase = "idle"
  BY <1>1 DEF Secured, Heads, Puts
<1>2. CASE r.phase # "idle"
  <2>1. r.key \in Bucket!Keys /\ r.artifact \in Nat
    BY <1>2 DEF IsPub
  <2>2. /\ Len(object[r.key]["artifact"]) \in Nat /\ Len(object'[r.key]["artifact"]) \in Nat
        /\ Len(object[r.key]["artifact"]) =< Len(object'[r.key]["artifact"])
    BY <2>1 DEF Ages, ObjectTypes, Paths
  <2>3. \A path \in {"artifact", "manifest"} : \A v :
          Is(r.key, path, v, r.content) => Is(r.key, path, v, r.content)'
    BY <2>1, Lasts DEF Paths
  <2>4. Returns(r.key, r.reference, r.content) => Returns(r.key, r.reference, r.content)'
    BY <2>1, Lasts
  <2>5. r.phase \in Heads => r.artifact =< Len(object'[r.key]["artifact"])
    BY <2>1, <2>2 DEF Secured
  <2>6. /\ r.phase \in Puts \cup {"verify"} /\ r.manifest # 0 =>
             Is(r.key, "manifest", r.manifest, r.content)'
        /\ r.phase \in Puts /\ r.artifact # 0 => Is(r.key, "artifact", r.artifact, r.content)'
    BY <2>3 DEF Secured
  <2> QED BY <2>4, <2>5, <2>6 DEF Secured
<1> QED BY <1>1, <1>2

LEMMA KnownLasts == ASSUME ObjectTypes, Ages, Known, UNCHANGED results PROVE Known'
<1> SUFFICES ASSUME NEW r \in results PROVE Returns(r.key, r.reference, r.content)'
  BY DEF Known
<1>1. r.key \in Bucket!Keys /\ Returns(r.key, r.reference, r.content)
  BY DEF Known, Results
<1> QED BY <1>1, Lasts

(* A step of one writer that publishes.                                      *)
LEMMA WriterSteps ==
  ASSUME ObjectInv, NEW w \in Bucket!Writers, pub[w].phase # "idle",
         Ages, Pinned', NEW q, pub' = [pub EXCEPT ![w] = q], IsPub(q),
         Secured(q)', exclusive => Alone(q)' /\ \A k \in Bucket!Keys : OneContent(k)' /\ OneDescriptor(k)',
         UNCHANGED <<exclusive, results, migration, origin>>
  PROVE  ObjectInv'
<1>1. pub'[w] = q /\ \A x \in Bucket!Writers : x # w => pub'[x] = pub[x]
  BY DEF ObjectInv, PubTypes
<1>2. ObjectTypes' /\ PubTypes'
  BY <1>1 DEF Ages, ObjectInv, PubTypes
<1>3. Known'
  BY KnownLasts DEF ObjectInv
<1>4. \A x \in Bucket!Writers : Secured(pub[x])'
  <2> SUFFICES ASSUME NEW x \in Bucket!Writers PROVE Secured(pub[x])'
    OBVIOUS
  <2>1. CASE x = w
    BY <1>1, <2>1
  <2>2. CASE x # w
    <3>1. PICK r : r = pub[x]
      OBVIOUS
    <3>2. pub'[x] = r /\ Secured(r) /\ IsPub(r)
      BY <1>1, <2>2, <3>1 DEF ObjectInv, PubTypes
    <3>3. Secured(r)'
      BY <3>2, SecuredLasts DEF ObjectInv
    <3> QED BY <3>2, <3>3
  <2> QED BY <2>1, <2>2
<1>5. exclusive => \A x \in Bucket!Writers : x # w => pub'[x].phase = "idle" /\ pub[x].phase = "idle"
  BY <1>1, OthersRest
<1>6. Single'
  <2> SUFFICES ASSUME exclusive
               PROVE  /\ pub'["worker"].phase = "idle" \/ migration'.phase = "idle"
                      /\ \A x \in Bucket!Writers : Alone(pub[x])'
                      /\ \A k \in Bucket!Keys : OneContent(k)' /\ OneDescriptor(k)'
                      /\ \A r, s \in results :
                           r.key = s.key => \/ r.content = s.content
                                            \/ Bucket!Gone(r)' \/ Bucket!Gone(s)'
    BY DEF Single
  <2>1. pub'["worker"].phase = "idle" \/ migration'.phase = "idle"
    BY <1>5 DEF ObjectInv, Single, Bucket!Writers
  <2>2. ASSUME NEW x \in Bucket!Writers PROVE Alone(pub[x])'
    <3>1. CASE x = w
      BY <1>1, <3>1
    <3>2. CASE x # w
      <4>1. pub'[x].phase = "idle"
        BY <1>5, <3>2
      <4> QED BY <4>1 DEF Alone, Heads, Puts
    <3> QED BY <3>1, <3>2
  <2>3. ASSUME NEW r \in results, NEW s \in results, r.key = s.key
        PROVE  r.content = s.content \/ Bucket!Gone(r)' \/ Bucket!Gone(s)'
    <3>1. /\ r \in Results /\ Returns(r.key, r.reference, r.content)
          /\ s \in Results /\ Returns(s.key, s.reference, s.content)
      BY DEF ObjectInv, Known
    <3>2. r.content = s.content \/ Bucket!Gone(r) \/ Bucket!Gone(s)
      BY <2>3 DEF ObjectInv, Single
    <3> QED BY <3>1, <3>2, Gone DEF ObjectInv
  <2> QED BY <2>1, <2>2, <2>3
<1>7. Copies' /\ SourceTypes'
  BY <1>1 DEF ObjectInv, Copies, SourceTypes, Bucket!Writers
<1> QED BY <1>2, <1>3, <1>4, <1>6, <1>7 DEF ObjectInv
-----------------------------------------------------------------------------
(* What is current, and what it reads as.                                    *)
LEMMA Readable ==
  ASSUME NEW k, NEW p, NEW c \in Bucket!Reads(k, p)
  PROVE  /\ c # Lost /\ object[k]["artifact"][p.artifact] = c /\ object[k]["manifest"][p.manifest] = c
         /\ \A d : Pins(k, p, d) => Pins(k, p, c) /\ c = d
BY DEF Bucket!Reads, Bucket!At, Pins, Is

LEMMA ResolvedIs ==
  ASSUME ObjectTypes, Pinned, NEW k \in Bucket!Keys
  PROVE  \/ Bucket!Resolved(k) = Null /\ Only(k, "descriptor", {})
         \/ /\ Bucket!Resolved(k) # Null /\ Bucket!Resolved(k) \in References
            /\ \E c \in Contents : Returns(k, Bucket!Resolved(k), c)
            /\ object[k]["descriptor"][Bucket!Resolved(k).version] = Bucket!Resolved(k).publication
            /\ Bucket!Resolved(k).publication # Lost
<1> DEFINE d == Bucket!Current(k, "descriptor")
           p == object[k]["descriptor"][d]
<1>1. /\ d \in 0 .. Len(object[k]["descriptor"]) /\ Len(object[k]["descriptor"]) \in Nat
      /\ d # 0 => p # Lost
      /\ d = 0 => Only(k, "descriptor", {})
  BY CurrentIs DEF Paths, ObjectTypes
<1>2. Bucket!Resolved(k) = IF d = 0 THEN Null ELSE [version |-> d, publication |-> p]
  BY DEF Bucket!Resolved, Bucket!Refers, Bucket!At
<1> HIDE DEF d
<1>3. CASE d = 0
  BY <1>1, <1>2, <1>3
<1>4. CASE d # 0
  <2>1. d \in 1 .. Len(object[k]["descriptor"]) /\ d \in Nat
    BY <1>1, <1>4
  <2>2. p # Lost /\ p \in Pairs /\ \E c \in Contents : Pins(k, p, c)
    BY <1>1, <1>4, <2>1 DEF Pinned
  <2>3. PICK r : r = [version |-> d, publication |-> p]
    OBVIOUS
  <2>4. Bucket!Resolved(k) = r /\ r \in References
    BY <1>2, <1>4, <2>1, <2>2, <2>3 DEF References
  <2>5. r # Null
    BY <2>4, BucketAssumption DEF References, Pairs
  <2>6. r.version = d /\ r.publication = p
    BY <2>3
  <2>7. \E c \in Contents : Returns(k, r, c)
    BY <2>1, <2>2, <2>6 DEF Returns, Is
  <2> QED BY <2>2, <2>4, <2>5, <2>6, <2>7
<1> QED BY <1>3, <1>4

(* A complete publication of the content of a writer.                        *)
LEMMA Complete ==
  ASSUME ObjectInv, NEW k \in Bucket!Keys, NEW c \in Contents, Bucket!Resolved(k) # Null,
         c \in Bucket!Reads(k, Bucket!Resolved(k).publication)
  PROVE  /\ Bucket!Resolved(k) \in References /\ Returns(k, Bucket!Resolved(k), c)
         /\ exclusive => \A q \in results : q.key = k => q.content = c \/ Bucket!Gone(q)
<1>1. PICK r, p : r = Bucket!Resolved(k) /\ p = r.publication
  OBVIOUS
<1>2. /\ r \in References /\ object[k]["descriptor"][r.version] = p /\ p # Lost
      /\ \E d \in Contents : Returns(k, r, d)
  BY <1>1, ResolvedIs DEF ObjectInv
<1>3. /\ c # Lost /\ object[k]["artifact"][p.artifact] = c /\ object[k]["manifest"][p.manifest] = c
      /\ \A d : Pins(k, p, d) => Pins(k, p, c) /\ c = d
  BY <1>1, Readable
<1>4. Returns(k, r, c)
  BY <1>1, <1>2, <1>3 DEF Returns
<1>5. ASSUME exclusive, NEW q \in results, q.key = k, q.content # c PROVE Bucket!Gone(q)
  <2> DEFINE s == q.reference
  <2>1. Returns(k, s, q.content)
    BY <1>5 DEF ObjectInv, Known
  <2>2. PICK e \in Contents \cup {Null} : Only(k, "artifact", {e}) /\ Only(k, "manifest", {e})
    BY <1>5 DEF ObjectInv, Single, OneContent
  <2>3. e = c
    BY <1>1, <1>3, <1>4, <2>2 DEF Only, Returns, Pins, Is
  <2>4. object[k]["artifact"][s.publication.artifact] = Lost /\ object[k]["manifest"][s.publication.manifest] = Lost
    BY <1>5, <2>1, <2>2, <2>3 DEF Only, Returns, Pins, Is
  <2>5. object[k]["descriptor"][s.version] \in {s.publication, Lost} /\ s.version \in 1 .. Len(object[k]["descriptor"])
    BY <2>1 DEF Returns, Is
  <2>6. s.publication # p
    BY <1>3, <2>4
  <2>7. r.version \in 1 .. Len(object[k]["descriptor"])
    BY <1>4 DEF Returns, Is
  <2>8. OneDescriptor(k)
    BY <1>5 DEF ObjectInv, Single
  <2>9. object[k]["descriptor"][s.version] = Lost
    BY <1>2, <2>5, <2>6, <2>7, <2>8 DEF OneDescriptor
  <2> QED BY <1>5, <2>4, <2>9 DEF Bucket!Gone, Bucket!At
<1> QED BY <1>1, <1>2, <1>4, <1>5

(* A step of one writer that writes nothing.                                 *)
LEMMA Moves ==
  ASSUME ObjectInv, NEW w \in Bucket!Writers, pub[w].phase # "idle",
         NEW q, pub' = [pub EXCEPT ![w] = q], IsPub(q), Secured(q), exclusive => Alone(q),
         UNCHANGED <<object, exclusive, results, migration, origin>>
  PROVE  ObjectInv'
<1>1. Ages
  BY DEF Ages, ObjectInv, ObjectTypes
<1>2. Pinned'
  BY DEF ObjectInv, Pinned, Pins, Is
<1>3. Secured(q)'
  BY DEF Secured, Returns, Pins, Is
<1>4. exclusive => Alone(q)'
  BY DEF Alone, Only, Bucket!Gone, Bucket!At
<1>5. exclusive => \A k \in Bucket!Keys : OneContent(k)' /\ OneDescriptor(k)'
  <2>1. \A k : OneContent(k) => OneContent(k)'
    BY DEF OneContent, Only
  <2>2. \A k : OneDescriptor(k) => OneDescriptor(k)'
    BY DEF OneDescriptor
  <2> QED BY <2>1, <2>2 DEF ObjectInv, Single
<1> QED BY <1>1, <1>2, <1>3, <1>4, <1>5, WriterSteps

(* A writer in another phase.                                                *)
LEMMA PhaseOf ==
  ASSUME PubTypes, NEW w \in Bucket!Writers, pub[w].phase # "idle",
         NEW phase \in {"artifact"} \cup Heads \cup Puts, Bucket!Goes(w, phase)
  PROVE  \E q : /\ IsPub(q) /\ pub' = [pub EXCEPT ![w] = q] /\ q.phase = phase
                /\ q.key = pub[w].key /\ q.content = pub[w].content
                /\ q.artifact = pub[w].artifact /\ q.manifest = pub[w].manifest
<1> DEFINE r == pub[w]
           q == [r EXCEPT !.phase = phase]
<1>1. IsPub(r) /\ r.phase # "idle"
  BY DEF PubTypes
<1>2. q = [phase |-> phase, key |-> r.key, content |-> r.content, artifact |-> r.artifact,
           manifest |-> r.manifest, reference |-> r.reference, created |-> r.created,
           attempts |-> r.attempts]
  BY <1>1 DEF IsPub
<1>3. pub' = [pub EXCEPT ![w] = q]
  BY DEF Bucket!Goes
<1> HIDE DEF q
<1>4. /\ q.phase = phase /\ q.key = r.key /\ q.content = r.content /\ q.artifact = r.artifact
      /\ q.manifest = r.manifest /\ q.reference = r.reference /\ q.created = r.created
      /\ q.attempts = r.attempts
  BY <1>2
<1>5. phase \notin {"idle", "read_back", "published"}
  BY DEF Heads, Puts
<1>6. IsPub(q)
  BY <1>1, <1>2, <1>4, <1>5 DEF IsPub
<1> QED BY <1>3, <1>4, <1>6
(* The publication is there, or the writer goes on.                          *)
LEMMA Settles ==
  ASSUME ObjectInv, NEW w \in Bucket!Writers, NEW phase,
         \/ pub[w].phase = "existing" /\ phase = "artifact"
         \/ pub[w].phase = "again" /\ phase = "put_descriptor",
         Bucket!Settle(w, phase), UNCHANGED <<object, exclusive, results, migration, origin>>
  PROVE  ObjectInv'
<1>1. PICK r, k, reference : r = pub[w] /\ k = r.key /\ reference = Bucket!Resolved(k)
  OBVIOUS
<1>2. /\ IsPub(r) /\ r.phase \in {"existing", "again"} /\ k \in Bucket!Keys /\ r.content \in Contents
      /\ Secured(r) /\ (exclusive => Alone(r))
  BY <1>1 DEF ObjectInv, PubTypes, IsPub, Single
<1>3. ASSUME reference = Null, Bucket!Goes(w, phase) PROVE ObjectInv'
  <2>1. Only(k, "descriptor", {})
    BY <1>1, <1>2, <1>3, ResolvedIs DEF ObjectInv
  <2>2. PICK q : /\ IsPub(q) /\ pub' = [pub EXCEPT ![w] = q] /\ q.phase = phase
                 /\ q.key = k /\ q.content = r.content /\ q.artifact = r.artifact /\ q.manifest = r.manifest
    BY <1>1, <1>2, <1>3, PhaseOf DEF ObjectInv, Puts
  <2>3. Secured(q)
    BY <1>1, <1>2, <2>2 DEF Secured, Heads, Puts
  <2>4. ASSUME exclusive PROVE Alone(q)
    <3>1. Only(k, "descriptor", {[artifact |-> q.artifact, manifest |-> q.manifest]})
      BY <2>1 DEF Only
    <3>2. \A s \in results : s.key = k => object[k]["descriptor"][s.reference.version] = Lost
      BY <2>1 DEF ObjectInv, Known, Returns, Is, Only
    <3>3. phase = "put_descriptor" => Only(k, "manifest", {q.content}) /\ Only(k, "artifact", {q.content})
      BY <1>1, <1>2, <2>2, <2>4 DEF Alone, Puts
    <3> QED BY <2>1, <2>2, <3>1, <3>2, <3>3 DEF Alone, Heads, Puts
  <2> QED BY <1>1, <1>2, <2>2, <2>3, <2>4, Moves
<1>4. ASSUME reference # Null, r.content \in Bucket!Reads(k, reference.publication),
             pub' = [pub EXCEPT ![w].phase = "published", ![w].reference = reference]
      PROVE  ObjectInv'
  <2>1. /\ reference \in References /\ Returns(k, reference, r.content)
        /\ exclusive => \A q \in results : q.key = k => q.content = r.content \/ Bucket!Gone(q)
    BY <1>1, <1>2, <1>4, Complete
  <2>6. PICK q : q = [r EXCEPT !.phase = "published", !.reference = reference]
    OBVIOUS
  <2>2. q = [phase |-> "published", key |-> r.key, content |-> r.content,
             artifact |-> r.artifact, manifest |-> r.manifest, reference |-> reference,
             created |-> r.created, attempts |-> r.attempts]
    BY <1>2, <2>6 DEF IsPub
  <2>3. pub' = [pub EXCEPT ![w] = q]
    BY <1>1, <1>4, <2>6
  <2>4. IsPub(q)
    BY <1>1, <1>2, <2>1, <2>2 DEF IsPub
  <2>5. Secured(q) /\ (exclusive => Alone(q))
    BY <1>1, <2>1, <2>2 DEF Secured, Alone, Heads, Puts
  <2> QED BY <1>1, <1>2, <2>3, <2>4, <2>5, Moves
<1> QED BY <1>1, <1>3, <1>4 DEF Bucket!Settle

LEMMA HeadsArtifact ==
  ASSUME ObjectInv, NEW w \in Bucket!Writers, Bucket!HeadArtifact(w) PROVE ObjectInv'
<1>1. PICK r, k, n : r = pub[w] /\ k = r.key /\ n = Bucket!Current(k, "artifact")
  OBVIOUS
<1>2. /\ IsPub(r) /\ r.phase = "artifact" /\ k \in Bucket!Keys /\ Secured(r) /\ (exclusive => Alone(r))
  BY <1>1 DEF ObjectInv, PubTypes, IsPub, Single, Bucket!HeadArtifact, Bucket!In
<1>3. n \in 0 .. Len(object[k]["artifact"]) /\ Len(object[k]["artifact"]) \in Nat
      /\ (n = 0 => Only(k, "artifact", {}))
  BY <1>1, <1>2, CurrentIs DEF ObjectInv, ObjectTypes, Paths
<1>8. PICK q : q = [r EXCEPT !.phase = "manifest", !.artifact = n]
  OBVIOUS
<1>4. q = [phase |-> "manifest", key |-> r.key, content |-> r.content, artifact |-> n,
           manifest |-> r.manifest, reference |-> r.reference,
           created |-> r.created, attempts |-> r.attempts]
  BY <1>2, <1>8 DEF IsPub
<1>5. pub' = [pub EXCEPT ![w] = q]
  BY <1>1, <1>8 DEF Bucket!HeadArtifact
<1>6. IsPub(q)
  BY <1>1, <1>2, <1>3, <1>4 DEF IsPub, Heads
<1>7. Secured(q) /\ (exclusive => Alone(q))
  BY <1>1, <1>2, <1>3, <1>4 DEF Secured, Alone, Heads, Puts
<1> QED BY <1>1, <1>2, <1>5, <1>6, <1>7, Moves DEF Bucket!HeadArtifact, Bucket!Only, Bucket!Quiet

LEMMA HeadsManifest ==
  ASSUME ObjectInv, NEW w \in Bucket!Writers, Bucket!HeadManifest(w) PROVE ObjectInv'
<1>1. PICK r, k, n : r = pub[w] /\ k = r.key /\ n = Bucket!Current(k, "manifest")
  OBVIOUS
<1>2. /\ IsPub(r) /\ r.phase = "manifest" /\ k \in Bucket!Keys /\ Secured(r)
      /\ (exclusive => Alone(r) /\ OneContent(k))
  BY <1>1 DEF ObjectInv, PubTypes, IsPub, Single, Bucket!HeadManifest, Bucket!In
<1>3. /\ n \in 0 .. Len(object[k]["manifest"]) /\ Len(object[k]["manifest"]) \in Nat
      /\ n = 0 => Only(k, "manifest", {})
      /\ n # 0 => object[k]["manifest"][n] # Lost
  BY <1>1, <1>2, CurrentIs DEF ObjectInv, ObjectTypes, Paths
<1>4. n # 0 => object[k]["manifest"][n] = r.content
  BY <1>1 DEF Bucket!HeadManifest, Bucket!At
<1>10. PICK q : q = [r EXCEPT !.phase = "verify", !.manifest = n]
  OBVIOUS
<1>5. q = [phase |-> "verify", key |-> r.key, content |-> r.content, artifact |-> r.artifact,
           manifest |-> n, reference |-> r.reference, created |-> r.created,
           attempts |-> r.attempts]
  BY <1>2, <1>10 DEF IsPub
<1>6. pub' = [pub EXCEPT ![w] = q]
  BY <1>1, <1>10 DEF Bucket!HeadManifest
<1>7. IsPub(q)
  BY <1>1, <1>2, <1>3, <1>5 DEF IsPub, Heads
<1>8. Secured(q)
  BY <1>1, <1>2, <1>3, <1>4, <1>5 DEF Secured, Is, Heads, Puts
<1>9. ASSUME exclusive PROVE Alone(q)
  <2>1. Only(k, "manifest", {r.content})
    BY <1>2, <1>3, <1>4, <1>9 DEF OneContent, Only
  <2> QED BY <1>1, <1>2, <1>5, <1>9, <2>1 DEF Alone, Heads, Puts
<1> QED BY <1>1, <1>2, <1>6, <1>7, <1>8, <1>9, Moves DEF Bucket!HeadManifest, Bucket!Only, Bucket!Quiet

LEMMA Verifies ==
  ASSUME ObjectInv, NEW w \in Bucket!Writers, Bucket!VerifyArtifact(w) PROVE ObjectInv'
<1>1. PICK r, k : r = pub[w] /\ k = r.key
  OBVIOUS
<1>2. /\ IsPub(r) /\ r.phase = "verify" /\ k \in Bucket!Keys /\ Secured(r)
      /\ (exclusive => Alone(r) /\ OneContent(k))
  BY <1>1 DEF ObjectInv, PubTypes, IsPub, Single, Bucket!VerifyArtifact, Bucket!In
<1>3. PICK q : /\ IsPub(q) /\ pub' = [pub EXCEPT ![w] = q] /\ q.phase = "put_artifact"
               /\ q.key = k /\ q.content = r.content /\ q.artifact = r.artifact /\ q.manifest = r.manifest
  BY <1>1, <1>2, PhaseOf DEF ObjectInv, Puts, Bucket!VerifyArtifact
<1>4. r.artifact # 0 => object[k]["artifact"][r.artifact] = r.content
                        /\ r.artifact \in 1 .. Len(object[k]["artifact"])
  <2>1. r.artifact =< Len(object[k]["artifact"]) /\ r.artifact \in Nat /\ Len(object[k]["artifact"]) \in Nat
    BY <1>1, <1>2 DEF Secured, Heads, IsPub, ObjectInv, ObjectTypes, Paths
  <2>2. r.artifact # 0 => object[k]["artifact"][r.artifact] = r.content
    BY <1>1 DEF Bucket!VerifyArtifact, Bucket!Holds, Bucket!At
  <2> QED BY <2>1, <2>2
<1>5. Secured(q)
  BY <1>1, <1>2, <1>3, <1>4 DEF Secured, Is, Heads, Puts
<1>6. ASSUME exclusive PROVE Alone(q)
  <2>1. r.artifact = 0 => Only(k, "artifact", {r.content})
    BY <1>1, <1>2, <1>6 DEF Alone, Heads, Only
  <2>2. r.artifact # 0 => Only(k, "artifact", {r.content})
    BY <1>2, <1>4, <1>6, BucketAssumption DEF OneContent, Only, IsPub
  <2> QED BY <1>1, <1>2, <1>3, <1>6, <2>1, <2>2 DEF Alone, Heads, Puts
<1> QED BY <1>1, <1>2, <1>3, <1>5, <1>6, Moves DEF Bucket!VerifyArtifact, Bucket!Only, Bucket!Quiet
(* The next write is that of what is not there yet.                          *)
LEMMA GoesOn ==
  ASSUME ObjectInv, NEW w \in Bucket!Writers, NEW phase \in {"put_manifest", "again"},
         pub[w].phase \in {"put_artifact", "reread_artifact", "put_manifest", "reread_manifest"},
         pub[w].artifact # 0, phase = "again" => pub[w].manifest # 0, Bucket!Goes(w, phase),
         UNCHANGED <<object, exclusive, results, migration, origin>>
  PROVE  ObjectInv'
<1>1. PICK r : r = pub[w]
  OBVIOUS
<1>2. /\ IsPub(r) /\ r.phase \in {"put_artifact", "reread_artifact", "put_manifest", "reread_manifest"}
      /\ Secured(r) /\ (exclusive => Alone(r))
  BY <1>1 DEF ObjectInv, PubTypes, Single
<1>3. PICK q : /\ IsPub(q) /\ pub' = [pub EXCEPT ![w] = q] /\ q.phase = phase /\ q.key = r.key
               /\ q.content = r.content /\ q.artifact = r.artifact /\ q.manifest = r.manifest
  BY <1>1, <1>2, PhaseOf DEF ObjectInv, Puts
<1>4. Secured(q)
  BY <1>1, <1>2, <1>3 DEF Secured, Heads, Puts
<1>5. exclusive => Alone(q)
  BY <1>2, <1>3 DEF Alone, Heads, Puts
<1> QED BY <1>1, <1>2, <1>3, <1>4, <1>5, Moves

LEMMA Rereads == ASSUME ObjectInv, NEW w \in Bucket!Writers, Bucket!Reread(w) PROVE ObjectInv'
<1>1. Secured(pub[w]) /\ UNCHANGED <<object, exclusive, results, migration, origin>>
  BY DEF ObjectInv, Bucket!Reread, Bucket!Only, Bucket!Quiet
<1>2. CASE pub[w].phase = "reread_artifact" /\ Bucket!Goes(w, "put_manifest")
  <2>1. pub[w].artifact # 0
    BY <1>1, <1>2 DEF Secured, Puts
  <2> QED BY <1>1, <1>2, <2>1, GoesOn
<1>3. CASE pub[w].phase = "reread_manifest" /\ Bucket!Goes(w, "again")
  <2>1. pub[w].artifact # 0 /\ pub[w].manifest # 0
    BY <1>1, <1>3 DEF Secured, Puts
  <2> QED BY <1>1, <1>3, <2>1, GoesOn
<1> QED BY <1>2, <1>3 DEF Bucket!Reread, Bucket!In

LEMMA ReadsBack == ASSUME ObjectInv, NEW w \in Bucket!Writers, Bucket!ReadBack(w) PROVE ObjectInv'
<1>1. PICK r, k : r = pub[w] /\ k = r.key
  OBVIOUS
<1>2. /\ IsPub(r) /\ r.phase = "read_back" /\ k \in Bucket!Keys /\ Secured(r) /\ (exclusive => Alone(r))
  BY <1>1 DEF ObjectInv, PubTypes, IsPub, Single, Bucket!ReadBack, Bucket!In
<1>3. PICK q : q = [r EXCEPT !.phase = "published", !.created = TRUE]
  OBVIOUS
<1>4. q = [phase |-> "published", key |-> r.key, content |-> r.content, artifact |-> r.artifact,
           manifest |-> r.manifest, reference |-> r.reference, created |-> TRUE,
           attempts |-> r.attempts]
  BY <1>2, <1>3 DEF IsPub
<1>5. pub' = [pub EXCEPT ![w] = q]
  BY <1>1, <1>3 DEF Bucket!ReadBack
<1>6. IsPub(q)
  BY <1>1, <1>2, <1>4 DEF IsPub
<1>7. Secured(q)
  BY <1>1, <1>2, <1>4 DEF Secured, Heads, Puts
<1>8. ASSUME exclusive, NEW s \in results, s.key = k, s.content # r.content PROVE Bucket!Gone(s)
  <2>1. Returns(k, s.reference, s.content)
    BY <1>8 DEF ObjectInv, Known
  <2>2. Only(k, "artifact", {r.content}) /\ Only(k, "manifest", {r.content})
    BY <1>1, <1>2, <1>8 DEF Alone
  <2>3. object[k]["descriptor"][s.reference.version] = Lost
    BY <1>1, <1>2, <1>8 DEF Alone
  <2>4. /\ object[k]["artifact"][s.reference.publication.artifact] = Lost
        /\ object[k]["manifest"][s.reference.publication.manifest] = Lost
    BY <1>8, <2>1, <2>2 DEF Only, Returns, Pins, Is
  <2> QED BY <1>8, <2>3, <2>4 DEF Bucket!Gone, Bucket!At
<1>9. exclusive => Alone(q)
  BY <1>1, <1>4, <1>8 DEF Alone, Heads, Puts
<1> QED BY <1>1, <1>2, <1>5, <1>6, <1>7, <1>9, Moves DEF Bucket!ReadBack, Bucket!Only, Bucket!Quiet

(* One more artifact or manifest of the content of a writer, ...             *)
LEMMA ContentAdded ==
  ASSUME ObjectInv, NEW r, IsPub(r), r.phase \in Puts, exclusive => Alone(r),
         NEW path \in {"artifact", "manifest"}, Adds(r.key, path, r.content)
  PROVE  /\ Pinned'
         /\ exclusive =>
              /\ \A k \in Bucket!Keys : OneContent(k)' /\ OneDescriptor(k)'
              /\ \A p \in {"artifact", "manifest"} : Only(r.key, p, {r.content})'
              /\ \A values : Only(r.key, "descriptor", values) => Only(r.key, "descriptor", values)'
<1>1. r.key \in Bucket!Keys /\ r.content \in Contents
  BY DEF IsPub, Puts
<1>2. /\ Ages /\ \A j \in Bucket!Keys : object'[j]["descriptor"] = object[j]["descriptor"]
      /\ \A j \in Bucket!Keys, p \in {"artifact", "manifest"} :
           j # r.key \/ p # path => object'[j][p] = object[j][p]
  BY DEF Adds, Paths
<1>3. Pinned'
  <2> SUFFICES ASSUME NEW k \in Bucket!Keys, NEW d \in 1 .. Len(object'[k]["descriptor"]),
                      NEW p, p = object'[k]["descriptor"][d], p # Lost
               PROVE  p \in Pairs /\ \E c \in Contents : Pins(k, p, c)'
    BY DEF Pinned
  <2>1. d \in 1 .. Len(object[k]["descriptor"]) /\ p = object[k]["descriptor"][d]
    BY <1>2
  <2>2. p \in Pairs /\ \E c \in Contents : Pins(k, p, c)
    BY <2>1 DEF ObjectInv, Pinned
  <2>3. \A c : Pins(k, p, c) => Pins(k, p, c)'
    BY <1>2, Lasts DEF ObjectInv
  <2> QED BY <2>2, <2>3
<1>4. exclusive => \A p \in {"artifact", "manifest"} : Only(r.key, p, {r.content})'
  <2> SUFFICES ASSUME exclusive, NEW p \in {"artifact", "manifest"} PROVE Only(r.key, p, {r.content})'
    OBVIOUS
  <2>1. Only(r.key, p, {r.content})
    BY DEF Alone
  <2>2. CASE p # path
    BY <1>1, <1>2, <2>1, <2>2 DEF Only
  <2>3. CASE p = path
    <3>1. /\ Len(object[r.key][p]) \in Nat /\ Len(object'[r.key][p]) = Len(object[r.key][p]) + 1
          /\ \A v \in 1 .. Len(object[r.key][p]) : object'[r.key][p][v] = object[r.key][p][v]
          /\ object'[r.key][p][Len(object[r.key][p]) + 1] = r.content
      BY <1>1, <2>3 DEF Adds, ObjectInv, ObjectTypes, Paths
    <3>2. ASSUME NEW v \in 1 .. Len(object'[r.key][p])
          PROVE  object'[r.key][p][v] \in {r.content} \cup {Lost}
      <4>1. v \in 1 .. Len(object[r.key][p]) \/ v = Len(object[r.key][p]) + 1
        BY <3>1
      <4> QED BY <2>1, <3>1, <4>1 DEF Only
    <3> QED BY <3>2 DEF Only
  <2> QED BY <2>2, <2>3
<1>5. exclusive => \A k \in Bucket!Keys : OneContent(k)' /\ OneDescriptor(k)'
  <2> SUFFICES ASSUME exclusive, NEW k \in Bucket!Keys PROVE OneContent(k)' /\ OneDescriptor(k)'
    OBVIOUS
  <2>1. OneContent(k) /\ OneDescriptor(k)
    BY DEF ObjectInv, Single
  <2>2. OneDescriptor(k)'
    BY <1>2, <2>1 DEF OneDescriptor
  <2>3. CASE k = r.key
    <3>1. Only(k, "artifact", {r.content})' /\ Only(k, "manifest", {r.content})'
      BY <1>4, <2>3
    <3> QED BY <1>1, <2>2, <3>1 DEF OneContent
  <2>4. CASE k # r.key
    <3>1. PICK c \in Contents \cup {Null} : Only(k, "artifact", {c}) /\ Only(k, "manifest", {c})
      BY <2>1 DEF OneContent
    <3>2. Only(k, "artifact", {c})' /\ Only(k, "manifest", {c})'
      BY <1>2, <2>4, <3>1 DEF Only
    <3> QED BY <2>2, <3>2 DEF OneContent
  <2> QED BY <2>2, <2>3, <2>4
<1>6. \A values : Only(r.key, "descriptor", values) => Only(r.key, "descriptor", values)'
  BY <1>1, <1>2 DEF Only
<1> QED BY <1>3, <1>4, <1>5, <1>6
(* ... and one more descriptor of what it has secured.                       *)
Pair(r) == [artifact |-> r.artifact, manifest |-> r.manifest]

LEMMA DescriptorAdded ==
  ASSUME ObjectInv, NEW r, IsPub(r), Secured(r), r.phase = "put_descriptor", exclusive => Alone(r),
         Adds(r.key, "descriptor", Pair(r))
  PROVE  /\ Pinned' /\ Pins(r.key, Pair(r), r.content)'
         /\ exclusive =>
              /\ \A k \in Bucket!Keys : OneContent(k)' /\ OneDescriptor(k)'
              /\ \A p \in {"artifact", "manifest"} : Only(r.key, p, {r.content})'
              /\ Only(r.key, "descriptor", {Pair(r)})'
              /\ \A s \in results :
                   s.key = r.key => object'[r.key]["descriptor"][s.reference.version] = Lost
<1> DEFINE n == Len(object[r.key]["descriptor"])
<1>1. r.key \in Bucket!Keys /\ r.content \in Contents /\ Pair(r) \in Pairs
  BY DEF IsPub, Pairs, Pair
<1>2. /\ Ages /\ n \in Nat /\ Len(object'[r.key]["descriptor"]) = n + 1
      /\ \A v \in 1 .. n : object'[r.key]["descriptor"][v] = object[r.key]["descriptor"][v]
      /\ object'[r.key]["descriptor"][n + 1] = Pair(r)
      /\ \A j \in Bucket!Keys, p \in Paths : j # r.key \/ p # "descriptor" => object'[j][p] = object[j][p]
  BY <1>1 DEF Adds, ObjectInv, ObjectTypes, Paths
<1> HIDE DEF n
<1>3. \A v \in 1 .. n + 1 : v \in 1 .. n \/ v = n + 1
  BY <1>2
<1>4. Pins(r.key, Pair(r), r.content)'
  <2>1. Pins(r.key, Pair(r), r.content)
    BY DEF Secured, Puts, Pins, Pair
  <2> QED BY <1>1, <1>2, <2>1, Lasts DEF ObjectInv
<1>5. Pinned'
  <2> SUFFICES ASSUME NEW k \in Bucket!Keys, NEW d \in 1 .. Len(object'[k]["descriptor"]),
                      NEW p, p = object'[k]["descriptor"][d], p # Lost
               PROVE  p \in Pairs /\ \E c \in Contents : Pins(k, p, c)'
    BY DEF Pinned
  <2>1. CASE k = r.key /\ d = n + 1
    BY <1>1, <1>2, <1>4, <2>1
  <2>2. CASE ~(k = r.key /\ d = n + 1)
    <3>1. d \in 1 .. Len(object[k]["descriptor"]) /\ p = object[k]["descriptor"][d]
      <4>1. CASE k = r.key
        BY <1>2, <1>3, <2>2, <4>1 DEF n
      <4>2. CASE k # r.key
        BY <1>2, <4>2 DEF Paths
      <4> QED BY <4>1, <4>2
    <3>2. p \in Pairs /\ \E c \in Contents : Pins(k, p, c)
      BY <3>1 DEF ObjectInv, Pinned
    <3>3. \A c : Pins(k, p, c) => Pins(k, p, c)'
      BY <1>2, Lasts DEF ObjectInv
    <3> QED BY <3>2, <3>3
  <2> QED BY <2>1, <2>2
<1>6. ASSUME exclusive
      PROVE  /\ \A k \in Bucket!Keys : OneContent(k)' /\ OneDescriptor(k)'
             /\ \A p \in {"artifact", "manifest"} : Only(r.key, p, {r.content})'
             /\ Only(r.key, "descriptor", {Pair(r)})'
             /\ \A s \in results :
                  s.key = r.key => object'[r.key]["descriptor"][s.reference.version] = Lost
  <2>1. /\ \A p \in {"artifact", "manifest"} : Only(r.key, p, {r.content})
        /\ Only(r.key, "descriptor", {Pair(r)})
        /\ \A s \in results : s.key = r.key => object[r.key]["descriptor"][s.reference.version] = Lost
    BY <1>6 DEF Alone, Puts, Pair
  <2>2. \A k \in Bucket!Keys : OneContent(k) /\ OneDescriptor(k)
    BY <1>6 DEF ObjectInv, Single
  <2>3. \A p \in {"artifact", "manifest"} : Only(r.key, p, {r.content})'
    BY <1>1, <1>2, <2>1 DEF Only, Paths
  <2>4. \A v \in 1 .. n + 1 : object'[r.key]["descriptor"][v] \in {Pair(r)} \cup {Lost}
    BY <1>2, <1>3, <2>1 DEF Only, n
  <2>5. Only(r.key, "descriptor", {Pair(r)})'
    BY <1>2, <2>4 DEF Only, Pair
  <2>6. \A s \in results : s.key = r.key => object'[r.key]["descriptor"][s.reference.version] = Lost
    <3> SUFFICES ASSUME NEW s \in results, s.key = r.key
                 PROVE  object'[r.key]["descriptor"][s.reference.version] = Lost
      OBVIOUS
    <3>1. s.reference.version \in 1 .. n
      BY DEF ObjectInv, Known, Returns, Is, n
    <3> QED BY <1>2, <2>1, <3>1
  <2>7. ASSUME NEW k \in Bucket!Keys PROVE OneContent(k)' /\ OneDescriptor(k)'
    <3>1. PICK c \in Contents \cup {Null} : Only(k, "artifact", {c}) /\ Only(k, "manifest", {c})
      BY <2>2 DEF OneContent
    <3>2. Only(k, "artifact", {c})' /\ Only(k, "manifest", {c})'
      BY <1>2, <3>1 DEF Only, Paths
    <3>3. OneContent(k)'
      BY <3>2 DEF OneContent
    <3>4. CASE k = r.key
      BY <1>2, <2>4, <3>3, <3>4 DEF OneDescriptor
    <3>5. CASE k # r.key
      <4>1. object'[k]["descriptor"] = object[k]["descriptor"] /\ OneDescriptor(k)
        BY <1>2, <2>2, <3>5 DEF Paths
      <4> QED BY <3>3, <4>1 DEF OneDescriptor
    <3> QED BY <3>4, <3>5
  <2> QED BY <2>3, <2>5, <2>6, <2>7
<1> QED BY <1>4, <1>5, <1>6
(* A writer writes what is not there.                                        *)
LEMMA Writes ==
  ASSUME ObjectInv, NEW w \in Bucket!Writers, NEW path \in {"artifact", "manifest"},
         NEW phase, NEW next,
         \/ path = "artifact" /\ pub[w].phase = "put_artifact" /\ phase = "reread_artifact"
         \/ path = "manifest" /\ pub[w].phase = "put_manifest" /\ phase = "reread_manifest",
         Bucket!Put(pub[w].key, path, pub[w].content),
         next = Len(object[pub[w].key][path]) + 1,
         pub' = [pub EXCEPT ![w].phase = phase, ![w].attempts = 1, ![w][path] = next],
         UNCHANGED <<exclusive, results, migration, origin>>
  PROVE  ObjectInv'
<1>1. PICK r, k : r = pub[w] /\ k = r.key
  OBVIOUS
<1>2. /\ IsPub(r) /\ r.phase \in {"put_artifact", "put_manifest"} /\ k \in Bucket!Keys /\ Secured(r)
      /\ r.content \in Contents /\ r.content \in Values /\ (exclusive => Alone(r)) /\ path \in Paths
  BY <1>1 DEF ObjectInv, PubTypes, IsPub, Single, Values, Paths
<1>3. Adds(k, path, r.content)
  BY <1>1, <1>2, Put DEF ObjectInv
<1>4. /\ Pinned'
      /\ exclusive =>
           /\ \A j \in Bucket!Keys : OneContent(j)' /\ OneDescriptor(j)'
           /\ Only(k, "artifact", {r.content})' /\ Only(k, "manifest", {r.content})'
           /\ \A values : Only(k, "descriptor", values) => Only(k, "descriptor", values)'
  BY <1>1, <1>2, <1>3, ContentAdded DEF Puts
<1>5. Ages /\ next \in Nat \ {0} /\ Is(k, path, next, r.content)'
  BY <1>1, <1>2, <1>3 DEF Adds, Is, ObjectInv, ObjectTypes
<1>6. PICK q : q = [r EXCEPT !.phase = phase, !.attempts = 1, ![path] = next]
  OBVIOUS
<1>7. /\ q = [phase |-> q.phase, key |-> q.key, content |-> q.content, artifact |-> q.artifact,
              manifest |-> q.manifest, reference |-> q.reference, created |-> q.created,
              attempts |-> q.attempts]
      /\ q.phase = phase /\ q.key = k /\ q.content = r.content /\ q.created = r.created
      /\ q.artifact = IF path = "artifact" THEN next ELSE r.artifact
      /\ q.manifest = IF path = "manifest" THEN next ELSE r.manifest
  BY <1>1, <1>2, <1>6 DEF IsPub
<1>8. pub' = [pub EXCEPT ![w] = q]
  BY <1>1, <1>6
<1>9. IsPub(q)
  BY <1>1, <1>2, <1>5, <1>7 DEF IsPub, Puts
<1>10. \A v : \A p \in {"artifact", "manifest"} : Is(k, p, v, r.content) => Is(k, p, v, r.content)'
  BY <1>2, <1>5, Lasts DEF ObjectInv, Paths
<1>11. Secured(q)'
  <2>1. CASE path = "artifact"
    BY <1>1, <1>2, <1>5, <1>7, <1>10, <2>1 DEF Secured, Heads, Puts
  <2>2. CASE path = "manifest"
    BY <1>1, <1>2, <1>5, <1>7, <1>10, <2>2 DEF Secured, Heads, Puts
  <2> QED BY <2>1, <2>2
<1>12. ASSUME exclusive PROVE Alone(q)'
  <2>1. Only(k, "descriptor", {})'
    BY <1>1, <1>2, <1>4, <1>12 DEF Alone, Puts
  <2> QED BY <1>4, <1>7, <1>12, <2>1 DEF Alone, Heads, Puts
<1> QED BY <1>1, <1>2, <1>4, <1>5, <1>8, <1>9, <1>11, <1>12, WriterSteps

LEMMA PutsArtifact ==
  ASSUME ObjectInv, NEW w \in Bucket!Writers, Bucket!PutArtifact(w) PROVE ObjectInv'
<1>1. pub[w].phase = "put_artifact" /\ UNCHANGED <<exclusive, results, migration, origin>>
  BY DEF Bucket!PutArtifact, Bucket!PutObject, Bucket!In, Bucket!Quiet
<1>2. CASE pub[w].artifact # 0 /\ Bucket!Goes(w, "put_manifest") /\ UNCHANGED object
  BY <1>1, <1>2, GoesOn
<1>3. ASSUME Bucket!Put(pub[w].key, "artifact", pub[w].content),
             pub' = [pub EXCEPT ![w].phase = "reread_artifact", ![w].attempts = 1,
                                ![w]["artifact"] = Len(object[pub[w].key]["artifact"]) + 1]
      PROVE  ObjectInv'
  BY <1>1, <1>3, Writes
<1> QED BY <1>2, <1>3 DEF Bucket!PutArtifact, Bucket!PutObject

LEMMA PutsManifest ==
  ASSUME ObjectInv, NEW w \in Bucket!Writers, Bucket!PutManifest(w) PROVE ObjectInv'
<1>1. /\ pub[w].phase = "put_manifest" /\ UNCHANGED <<exclusive, results, migration, origin>>
      /\ pub[w].artifact # 0
  BY DEF Bucket!PutManifest, Bucket!PutObject, Bucket!In, Bucket!Quiet, ObjectInv, Secured, Puts
<1>2. CASE pub[w].manifest # 0 /\ Bucket!Goes(w, "again") /\ UNCHANGED object
  BY <1>1, <1>2, GoesOn
<1>3. ASSUME Bucket!Put(pub[w].key, "manifest", pub[w].content),
             pub' = [pub EXCEPT ![w].phase = "reread_manifest", ![w].attempts = 1,
                                ![w]["manifest"] = Len(object[pub[w].key]["manifest"]) + 1]
      PROVE  ObjectInv'
  BY <1>1, <1>3, Writes
<1> QED BY <1>2, <1>3 DEF Bucket!PutManifest, Bucket!PutObject

LEMMA PutsDescriptor ==
  ASSUME ObjectInv, NEW w \in Bucket!Writers, Bucket!PutDescriptor(w) PROVE ObjectInv'
<1>1. PICK r, k, n : r = pub[w] /\ k = r.key /\ n = Len(object[k]["descriptor"]) + 1
  OBVIOUS
<1>2. /\ IsPub(r) /\ r.phase = "put_descriptor" /\ k \in Bucket!Keys /\ Secured(r)
      /\ r.content \in Contents /\ (exclusive => Alone(r)) /\ Pair(r) \in Pairs /\ Pair(r) \in Values
  BY <1>1 DEF ObjectInv, PubTypes, IsPub, Single, Values, Pairs, Pair, Bucket!PutDescriptor, Bucket!In
<1>3. Bucket!Publication(w) = Pair(r)
  BY <1>1 DEF Bucket!Publication, Pair
<1>4. Adds(k, "descriptor", Pair(r))
  BY <1>1, <1>2, <1>3, Put DEF ObjectInv, Bucket!PutDescriptor, Paths
<1>5. /\ Pinned' /\ Pins(k, Pair(r), r.content)'
      /\ exclusive =>
           /\ \A j \in Bucket!Keys : OneContent(j)' /\ OneDescriptor(j)'
           /\ Only(k, "artifact", {r.content})' /\ Only(k, "manifest", {r.content})'
           /\ \A s \in results : s.key = k => object'[k]["descriptor"][s.reference.version] = Lost
  BY <1>1, <1>2, <1>4, DescriptorAdded
<1>6. Ages /\ n \in Nat /\ Is(k, "descriptor", n, Pair(r))'
  BY <1>1, <1>2, <1>4 DEF Adds, Is, ObjectInv, ObjectTypes, Paths
<1>7. PICK reference : reference = [version |-> n, publication |-> Pair(r)]
  OBVIOUS
<1>8. /\ reference \in References /\ reference.version = n /\ reference.publication = Pair(r)
      /\ Returns(k, reference, r.content)'
  BY <1>2, <1>5, <1>6, <1>7 DEF References, Returns
<1>9. PICK q : q = [r EXCEPT !.phase = "read_back", !.attempts = 1, !.reference = reference]
  OBVIOUS
<1>10. q = [phase |-> "read_back", key |-> k, content |-> r.content, artifact |-> r.artifact,
            manifest |-> r.manifest, reference |-> reference, created |-> r.created, attempts |-> 1]
  BY <1>1, <1>2, <1>9 DEF IsPub
<1>11. pub' = [pub EXCEPT ![w] = q]
  BY <1>1, <1>3, <1>7, <1>9 DEF Bucket!PutDescriptor
<1>12. IsPub(q)
  BY <1>1, <1>2, <1>8, <1>10 DEF IsPub
<1>13. Secured(q)'
  BY <1>8, <1>10 DEF Secured, Heads, Puts
<1>14. exclusive => Alone(q)'
  <2>1. results' = results
    BY DEF Bucket!PutDescriptor, Bucket!Quiet
  <2> QED BY <1>5, <1>10, <2>1 DEF Alone, Heads, Puts
<1> QED BY <1>1, <1>2, <1>5, <1>6, <1>11, <1>12, <1>13, <1>14, WriterSteps
        DEF Bucket!PutDescriptor, Bucket!Quiet
(* A write that is repeated.                                                 *)
LEMMA Repeats == ASSUME ObjectInv, NEW w \in Bucket!Writers, Bucket!Repeat(w) PROVE ObjectInv'
<1>1. PICK r, k : r = pub[w] /\ k = r.key
  OBVIOUS
<1>2. /\ IsPub(r) /\ r.phase \in {"put_artifact", "put_manifest", "put_descriptor"} /\ k \in Bucket!Keys
      /\ Secured(r) /\ r.content \in Contents /\ (exclusive => Alone(r))
      /\ r.content \in Values /\ Pair(r) \in Values
  BY <1>1 DEF ObjectInv, PubTypes, IsPub, Single, Values, Pairs, Pair, Bucket!Repeat, Bucket!In
<1>3. UNCHANGED <<exclusive, results, migration, origin>>
  BY DEF Bucket!Repeat
<1>4. PICK q : q = [r EXCEPT !.attempts = r.attempts + 1]
  OBVIOUS
<1>5. /\ q = [phase |-> q.phase, key |-> q.key, content |-> q.content, artifact |-> q.artifact,
              manifest |-> q.manifest, reference |-> q.reference, created |-> q.created,
              attempts |-> q.attempts]
      /\ q.phase = r.phase /\ q.key = k /\ q.content = r.content /\ q.artifact = r.artifact
      /\ q.manifest = r.manifest /\ q.reference = r.reference /\ q.created = r.created
  BY <1>1, <1>2, <1>4 DEF IsPub
<1>6. pub' = [pub EXCEPT ![w] = q]
  BY <1>1, <1>4 DEF Bucket!Repeat
<1>7. IsPub(q) /\ Secured(q)
  BY <1>1, <1>2, <1>5 DEF IsPub, Secured
<1>8. CASE r.phase = "put_descriptor"
  <2>1. Bucket!Put(k, "descriptor", Pair(r))
    BY <1>1, <1>8 DEF Bucket!Repeat, Bucket!In, Bucket!Publication, Pair
  <2>2. Adds(k, "descriptor", Pair(r))
    BY <1>2, <2>1, Put DEF ObjectInv, Paths
  <2>3. /\ Pinned' /\ Ages
        /\ exclusive =>
             /\ \A j \in Bucket!Keys : OneContent(j)' /\ OneDescriptor(j)'
             /\ Only(k, "artifact", {r.content})' /\ Only(k, "manifest", {r.content})'
             /\ Only(k, "descriptor", {Pair(r)})'
             /\ \A s \in results : s.key = k => object'[k]["descriptor"][s.reference.version] = Lost
    BY <1>1, <1>2, <1>8, <2>2, DescriptorAdded DEF Adds
  <2>4. exclusive => Alone(q)'
    BY <1>3, <1>5, <1>8, <2>3 DEF Alone, Heads, Puts, Pair
  <2>5. Secured(q)'
    BY <1>7, <2>3, SecuredLasts DEF ObjectInv
  <2> QED BY <1>1, <1>2, <1>3, <1>6, <1>7, <2>3, <2>4, <2>5, WriterSteps
<1>9. CASE r.phase # "put_descriptor"
  <2>1. PICK path : /\ path = IF r.phase = "put_artifact" THEN "artifact" ELSE "manifest"
                    /\ path \in {"artifact", "manifest"}
    OBVIOUS
  <2>2. Bucket!Put(k, path, r.content)
    BY <1>1, <1>2, <1>9, <2>1 DEF Bucket!Repeat, Bucket!In
  <2>3. Adds(k, path, r.content)
    BY <1>2, <2>1, <2>2, Put DEF ObjectInv, Paths
  <2>7. Ages
    BY <2>3 DEF Adds
  <2>4. /\ Pinned'
        /\ exclusive =>
             /\ \A j \in Bucket!Keys : OneContent(j)' /\ OneDescriptor(j)'
             /\ Only(k, "artifact", {r.content})' /\ Only(k, "manifest", {r.content})'
             /\ \A values : Only(k, "descriptor", values) => Only(k, "descriptor", values)'
    BY <1>1, <1>2, <2>1, <2>3, ContentAdded DEF Puts
  <2>5. ASSUME exclusive PROVE Alone(q)'
    <3>1. Only(k, "descriptor", {})'
      BY <1>1, <1>2, <1>9, <2>4, <2>5 DEF Alone, Puts
    <3> QED BY <1>2, <1>5, <1>9, <2>4, <2>5, <3>1 DEF Alone, Heads, Puts
  <2>6. Secured(q)'
    BY <1>7, <2>7, SecuredLasts DEF ObjectInv
  <2> QED BY <1>1, <1>2, <1>3, <1>6, <1>7, <2>4, <2>5, <2>6, <2>7, WriterSteps
<1> QED BY <1>8, <1>9

-----------------------------------------------------------------------------
(* Somebody deletes a version.                                               *)
LEMMA OnlyLasts ==
  ASSUME ObjectTypes, Ages, NEW k \in Bucket!Keys, NEW path \in Paths,
         Len(object'[k][path]) = Len(object[k][path]), NEW values, Only(k, path, values)
  PROVE  Only(k, path, values)'
BY DEF Only, Ages

LEMMA Deletes ==
  ASSUME ObjectInv, NEW k \in Bucket!Keys, NEW path \in DOMAIN object[k],
         NEW v \in DOMAIN object[k][path], Bucket!Delete(k, path, v)
  PROVE  ObjectInv'
<1>1. path \in Paths /\ object' = [object EXCEPT ![k][path][v] = Lost]
      /\ UNCHANGED <<exclusive, pub, results, migration, origin>>
  BY DEF Bucket!Delete, ObjectInv, ObjectTypes
<1>2. Ages /\ \A j \in Bucket!Keys, p \in Paths : Len(object'[j][p]) = Len(object[j][p])
  BY <1>1, Deleted DEF ObjectInv
<1>3. Known' /\ ObjectTypes' /\ PubTypes' /\ Copies' /\ SourceTypes'
  BY <1>1, <1>2, KnownLasts DEF ObjectInv, Ages, PubTypes, Copies, SourceTypes
<1>4. Pinned'
  <2> SUFFICES ASSUME NEW j \in Bucket!Keys, NEW d \in 1 .. Len(object'[j]["descriptor"]),
                      NEW p, p = object'[j]["descriptor"][d], p # Lost
               PROVE  p \in Pairs /\ \E c \in Contents : Pins(j, p, c)'
    BY DEF Pinned
  <2>1. d \in 1 .. Len(object[j]["descriptor"]) /\ p = object[j]["descriptor"][d]
    BY <1>2 DEF Ages, Paths
  <2>2. p \in Pairs /\ \E c \in Contents : Pins(j, p, c)
    BY <2>1 DEF ObjectInv, Pinned
  <2>3. \A c : Pins(j, p, c) => Pins(j, p, c)'
    BY <1>2, Lasts DEF ObjectInv
  <2> QED BY <2>2, <2>3
<1>5. \A w \in Bucket!Writers : Secured(pub[w])'
  <2> SUFFICES ASSUME NEW w \in Bucket!Writers, NEW r, r = pub[w] PROVE Secured(r)'
    BY <1>1
  <2> QED BY <1>2, SecuredLasts DEF ObjectInv, PubTypes
<1>6. ASSUME exclusive
      PROVE  /\ \A w \in Bucket!Writers : Alone(pub[w])'
             /\ \A j \in Bucket!Keys : OneContent(j)' /\ OneDescriptor(j)'
             /\ \A q, r \in results :
                  q.key = r.key => q.content = r.content \/ Bucket!Gone(q)' \/ Bucket!Gone(r)'
  <2>1. \A q \in results : Bucket!Gone(q) => Bucket!Gone(q)'
    BY <1>2, Gone DEF ObjectInv, Known
  <2>2. \A j \in Bucket!Keys, p \in Paths : \A values : Only(j, p, values) => Only(j, p, values)'
    BY <1>2, OnlyLasts DEF ObjectInv
  <2>3. ASSUME NEW w \in Bucket!Writers, NEW r, r = pub[w] PROVE Alone(r)'
    <3>1. Alone(r) /\ IsPub(r)
      BY <1>6, <2>3 DEF ObjectInv, Single, PubTypes
    <3>2. CASE r.phase = "idle"
      BY <3>2 DEF Alone, Heads, Puts
    <3>3. CASE r.phase # "idle"
      <4>1. r.key \in Bucket!Keys
        BY <3>1, <3>3 DEF IsPub
      <4>2. \A q \in results :
              q.key = r.key /\ object[r.key]["descriptor"][q.reference.version] = Lost
                => object'[r.key]["descriptor"][q.reference.version] = Lost
        <5> SUFFICES ASSUME NEW q \in results, q.key = r.key,
                            object[r.key]["descriptor"][q.reference.version] = Lost
                     PROVE  object'[r.key]["descriptor"][q.reference.version] = Lost
          OBVIOUS
        <5>1. q.reference.version \in 1 .. Len(object[r.key]["descriptor"])
          BY DEF ObjectInv, Known, Returns, Is
        <5> QED BY <1>2, <4>1, <5>1 DEF Ages, Paths
      <4>3. \A p \in Paths : \A values : Only(r.key, p, values) => Only(r.key, p, values)'
        BY <2>2, <4>1
      <4> QED BY <1>1, <2>1, <3>1, <4>2, <4>3 DEF Alone, Paths
    <3> QED BY <3>2, <3>3
  <2>4. ASSUME NEW j \in Bucket!Keys PROVE OneContent(j)' /\ OneDescriptor(j)'
    <3>1. PICK c \in Contents \cup {Null} : Only(j, "artifact", {c}) /\ Only(j, "manifest", {c})
      BY <1>6 DEF ObjectInv, Single, OneContent
    <3>2. Only(j, "artifact", {c})' /\ Only(j, "manifest", {c})'
      BY <2>2, <3>1 DEF Paths
    <3>3. OneDescriptor(j)
      BY <1>6 DEF ObjectInv, Single
    <3>4. OneDescriptor(j)'
      BY <1>2, <3>3 DEF OneDescriptor, Ages, Paths
    <3> QED BY <3>2, <3>4 DEF OneContent
  <2>5. \A w \in Bucket!Writers : Alone(pub[w])'
    BY <1>1, <2>3
  <2> QED BY <1>6, <2>1, <2>4, <2>5 DEF ObjectInv, Single
<1>7. Single'
  BY <1>1, <1>6 DEF Single, ObjectInv
<1> QED BY <1>3, <1>4, <1>5, <1>7 DEF ObjectInv
-----------------------------------------------------------------------------
(* What a writer that rests relies on stays.                                 *)
LEMMA SecuredRests ==
  ASSUME NEW x, Secured(pub[x]), pub'[x] = pub[x], UNCHANGED object
  PROVE  Secured(pub[x])'
<1>1. PICK r : r = pub[x] /\ r = pub'[x]
  OBVIOUS
<1>2. Secured(r)'
  BY <1>1 DEF Secured, Returns, Pins, Is
<1> QED BY <1>1, <1>2 DEF Secured

(* A writer begins with a key, and ends.                                     *)
LEMMA Begins ==
  ASSUME ObjectInv, NEW w \in Bucket!Writers, NEW k \in Bucket!Keys, NEW c \in Contents,
         pub[w].phase = "idle", pub' = [pub EXCEPT ![w] = Bucket!Started(k, c)],
         w = "worker" => (exclusive => migration.phase = "idle"),
         w = "migration" => migration.phase = "copy" /\ migration.left # <<>>,
         UNCHANGED <<exclusive, object, results, migration, origin>>
  PROVE  ObjectInv'
<1>1. PICK q : q = Bucket!Started(k, c)
  OBVIOUS
<1>2. q = [phase |-> "existing", key |-> k, content |-> c, artifact |-> 0, manifest |-> 0,
           reference |-> Null, created |-> FALSE, attempts |-> 1]
  BY <1>1 DEF Bucket!Started, Bucket!NoPub
<1>3. IsPub(q) /\ Secured(q) /\ Alone(q) /\ q.phase = "existing"
  BY <1>2 DEF IsPub, Secured, Alone, Heads, Puts
<1>4. pub'[w] = q /\ PubTypes' /\ \A x \in Bucket!Writers : x # w => pub'[x] = pub[x]
  BY <1>1, <1>3 DEF ObjectInv, PubTypes
<1>5. ObjectTypes' /\ Pinned' /\ Known' /\ SourceTypes'
  <2>1. ObjectTypes' /\ SourceTypes'
    BY DEF ObjectInv, ObjectTypes, SourceTypes
  <2>2. Pinned'
    BY DEF ObjectInv, Pinned, Pins, Is
  <2>3. Known'
    BY DEF ObjectInv, Known, Returns, Pins, Is
  <2> QED BY <2>1, <2>2, <2>3
<1>6. Secured(q)' /\ Alone(q)'
  BY <1>3 DEF Secured, Alone, Returns, Pins, Is, Only, Bucket!Gone, Bucket!At
<1>7. \A x \in Bucket!Writers : Secured(pub[x])'
  <2> SUFFICES ASSUME NEW x \in Bucket!Writers PROVE Secured(pub[x])'
    OBVIOUS
  <2>1. CASE x = w
    BY <1>4, <1>6, <2>1 DEF Secured
  <2>2. CASE x # w
    BY <1>4, <2>2, SecuredRests DEF ObjectInv
  <2> QED BY <2>1, <2>2
<1>8. Copies'
  BY <1>4 DEF ObjectInv, Copies, Bucket!Writers
<1>9. Single'
  <2> SUFFICES ASSUME exclusive
               PROVE  /\ pub'["worker"].phase = "idle" \/ migration.phase = "idle"
                      /\ \A x \in Bucket!Writers : Alone(pub[x])'
                      /\ \A j \in Bucket!Keys : OneContent(j)' /\ OneDescriptor(j)'
                      /\ \A s, r \in results :
                           s.key = r.key => s.content = r.content \/ Bucket!Gone(s)' \/ Bucket!Gone(r)'
    BY DEF Single
  <2>1. pub'["worker"].phase = "idle" \/ migration.phase = "idle"
    BY <1>4 DEF ObjectInv, Single, Bucket!Writers
  <2>2. ASSUME NEW x \in Bucket!Writers PROVE Alone(pub[x])'
    <3>1. CASE x = w
      BY <1>4, <1>6, <3>1
    <3>2. CASE x # w
      <4>1. Alone(pub[x]) /\ pub'[x] = pub[x]
        BY <1>4, <3>2 DEF ObjectInv, Single
      <4> QED BY <4>1, ZenonT(60) DEF Alone, Only, Bucket!Gone, Bucket!At
    <3> QED BY <3>1, <3>2
  <2>3. \A j \in Bucket!Keys : OneContent(j)' /\ OneDescriptor(j)'
    BY DEF ObjectInv, Single, OneContent, OneDescriptor, Only
  <2>4. \A s, r \in results :
          s.key = r.key => s.content = r.content \/ Bucket!Gone(s)' \/ Bucket!Gone(r)'
    BY DEF ObjectInv, Single, Bucket!Gone, Bucket!At
  <2> QED BY <2>1, <2>2, <2>3, <2>4
<1> QED BY <1>4, <1>5, <1>7, <1>8, <1>9 DEF ObjectInv

(* A migration gets on, or ends: nothing is published.                       *)
LEMMA Rests ==
  ASSUME ObjectInv, SourceTypes', Copies', UNCHANGED <<exclusive, object, results>>,
         \A w \in Bucket!Writers : pub'[w] = pub[w] \/ pub'[w] = Bucket!NoPub,
         pub' = [w \in Bucket!Writers |-> pub'[w]],
         exclusive => pub'["worker"].phase = "idle" \/ migration'.phase = "idle"
  PROVE  ObjectInv'
<1>1. /\ IsPub(Bucket!NoPub) /\ Bucket!NoPub.phase = "idle"
  BY DEF Bucket!NoPub, IsPub
<1>2. PubTypes'
  BY <1>1 DEF ObjectInv, PubTypes
<1>3. ObjectTypes' /\ Pinned' /\ Known'
  BY DEF ObjectInv, ObjectTypes, Pinned, Known, Returns, Pins, Is
<1>4. \A w \in Bucket!Writers : Secured(pub[w])'
  <2> SUFFICES ASSUME NEW w \in Bucket!Writers PROVE Secured(pub[w])'
    OBVIOUS
  <2>1. CASE pub'[w] = pub[w]
    <3>1. Secured(pub[w])
      BY DEF ObjectInv
    <3>2. UNCHANGED object
      OBVIOUS
    <3> QED BY <2>1, <3>1, <3>2 DEF Secured, Returns, Pins, Is
  <2>2. CASE pub'[w] = Bucket!NoPub
    BY <1>1, <2>2 DEF Secured, Heads, Puts
  <2> QED BY <2>1, <2>2
<1>5. ASSUME exclusive, NEW w \in Bucket!Writers PROVE Alone(pub[w])'
  <2>1. CASE pub'[w] = pub[w]
    <3>1. Alone(pub[w])
      BY <1>5 DEF ObjectInv, Single
    <3>2. UNCHANGED <<object, results>>
      OBVIOUS
    <3> QED BY <2>1, <3>1, <3>2 DEF Alone, Only, Bucket!Gone, Bucket!At
  <2>2. CASE pub'[w] = Bucket!NoPub
    BY <1>1, <2>2 DEF Alone, Heads, Puts
  <2> QED BY <2>1, <2>2
<1>6. exclusive => \A k \in Bucket!Keys : OneContent(k)' /\ OneDescriptor(k)'
  BY DEF ObjectInv, Single, OneContent, OneDescriptor, Only
<1>7. exclusive => \A s, r \in results :
                     s.key = r.key => s.content = r.content \/ Bucket!Gone(s)' \/ Bucket!Gone(r)'
  BY DEF ObjectInv, Single, Bucket!Gone, Bucket!At
<1>8. Single'
  BY <1>5, <1>6, <1>7 DEF Single
<1> QED BY <1>2, <1>3, <1>4, <1>8 DEF ObjectInv

(* A publication is returned.                                                *)
LEMMA Taken ==
  ASSUME ObjectInv, NEW w \in Bucket!Writers, pub[w].phase = "published",
         pub' = [pub EXCEPT ![w] = Bucket!NoPub], results' = results \union {Bucket!Result(w)},
         UNCHANGED <<exclusive, object, origin>>, SourceTypes', migration'.phase = migration.phase,
         w = "worker" => UNCHANGED migration
  PROVE  ObjectInv'
<1>1. PICK r, s : r = pub[w] /\ s = Bucket!Result(w)
  OBVIOUS
<1>2. /\ IsPub(r) /\ r.phase = "published" /\ r.key \in Bucket!Keys /\ r.content \in Contents
      /\ r.reference \in References /\ Secured(r) /\ (exclusive => Alone(r))
  BY <1>1 DEF ObjectInv, PubTypes, IsPub, Single
<1>3. /\ s \in Results /\ s.key = r.key /\ s.content = r.content /\ s.reference = r.reference
  BY <1>1, <1>2 DEF Bucket!Result, Results
<1>4. Returns(s.key, s.reference, s.content)
  BY <1>2, <1>3 DEF Secured
<1>5. /\ IsPub(Bucket!NoPub) /\ Bucket!NoPub.phase = "idle"
  BY DEF Bucket!NoPub, IsPub
<1>6. /\ pub'[w] = Bucket!NoPub /\ \A x \in Bucket!Writers : x # w => pub'[x] = pub[x]
      /\ PubTypes'
  BY <1>5 DEF ObjectInv, PubTypes
<1>7. ObjectTypes' /\ Pinned'
  BY DEF ObjectInv, ObjectTypes, Pinned, Pins, Is
<1>8. Known'
  <2>1. \A q \in results \cup {s} : q \in Results /\ Returns(q.key, q.reference, q.content)
    BY <1>3, <1>4 DEF ObjectInv, Known
  <2>2. results' = results \cup {s}
    BY <1>1
  <2>3. \A q : Returns(q.key, q.reference, q.content)' <=> Returns(q.key, q.reference, q.content)
    BY DEF Returns, Pins, Is
  <2> QED BY <2>1, <2>2, <2>3 DEF Known
<1>9. \A x \in Bucket!Writers : Secured(pub[x])'
  <2> SUFFICES ASSUME NEW x \in Bucket!Writers PROVE Secured(pub[x])'
    OBVIOUS
  <2>1. CASE x # w
    BY <1>6, <2>1, SecuredRests DEF ObjectInv
  <2>2. CASE x = w
    BY <1>5, <1>6, <2>2 DEF Secured, Heads, Puts
  <2> QED BY <2>1, <2>2
<1>10. Copies'
  BY <1>5, <1>6, <1>1, <1>2 DEF ObjectInv, Copies, Bucket!Writers
<1>11. Single'
  <2> SUFFICES ASSUME exclusive
               PROVE  /\ pub'["worker"].phase = "idle" \/ migration'.phase = "idle"
                      /\ \A x \in Bucket!Writers : Alone(pub[x])'
                      /\ \A j \in Bucket!Keys : OneContent(j)' /\ OneDescriptor(j)'
                      /\ \A p, q \in results' :
                           p.key = q.key => p.content = q.content \/ Bucket!Gone(p)' \/ Bucket!Gone(q)'
    BY DEF Single
  <2>1. pub'["worker"].phase = "idle" \/ migration'.phase = "idle"
    BY <1>5, <1>6 DEF ObjectInv, Single, Bucket!Writers
  <2>2. ASSUME NEW x \in Bucket!Writers PROVE Alone(pub[x])'
    <3>1. pub'[x].phase = "idle"
      BY <1>1, <1>2, <1>5, <1>6, OthersRest
    <3> QED BY <3>1 DEF Alone, Heads, Puts
  <2>3. \A j \in Bucket!Keys : OneContent(j)' /\ OneDescriptor(j)'
    BY DEF ObjectInv, Single, OneContent, OneDescriptor, Only
  <2>4. \A q : Bucket!Gone(q) => Bucket!Gone(q)'
    BY DEF Bucket!Gone, Bucket!At
  <2>5. \A q \in results : q.key = s.key => q.content = s.content \/ Bucket!Gone(q)
    BY <1>2, <1>3 DEF Alone
  <2>6. \A p, q \in results :
          p.key = q.key => p.content = q.content \/ Bucket!Gone(p) \/ Bucket!Gone(q)
    BY DEF ObjectInv, Single
  <2>7. \A p, q \in results' :
          p.key = q.key => p.content = q.content \/ Bucket!Gone(p)' \/ Bucket!Gone(q)'
    BY <1>1, <2>4, <2>5, <2>6
  <2> QED BY <2>1, <2>2, <2>3, <2>7
<1> QED BY <1>6, <1>7, <1>8, <1>9, <1>10, <1>11 DEF ObjectInv
-----------------------------------------------------------------------------
(* All steps, and the objects of a bucket.                                   *)
LEMMA ObjectsStart == Bucket!Init => ObjectInv
<1> SUFFICES ASSUME Bucket!Init PROVE ObjectInv
  OBVIOUS
<1>1. /\ IsPub(Bucket!NoPub) /\ Bucket!NoPub.phase = "idle"
  BY DEF Bucket!NoPub, IsPub
<1>2. PubTypes /\ (\A w \in Bucket!Writers : Secured(pub[w]) /\ Alone(pub[w]) /\ pub[w].phase = "idle")
  BY <1>1 DEF Bucket!Init, PubTypes, Secured, Alone, Heads, Puts
<1>3. \A k \in Bucket!Keys, path \in Paths : object[k][path] = <<>>
  BY DEF Bucket!Init, Paths
<1>4. ObjectTypes
  <2>1. object = [k \in Bucket!Keys |-> [artifact |-> <<>>, manifest |-> <<>>, descriptor |-> <<>>]]
    BY DEF Bucket!Init
  <2>2. PICK o : o = [artifact |-> <<>>, manifest |-> <<>>, descriptor |-> <<>>]
    OBVIOUS
  <2>3. /\ DOMAIN o = Paths /\ o = [path \in DOMAIN o |-> o[path]]
        /\ \A path \in Paths : o[path] \in Seq(Values)
    BY <2>2 DEF Paths
  <2>4. o \in [Paths -> Seq(Values)]
    BY <2>3
  <2> QED BY <2>1, <2>2, <2>4 DEF ObjectTypes
<1>5. Pinned /\ Known
  BY <1>3 DEF Pinned, Known, Paths, Bucket!Init
<1>6. SourceTypes /\ Copies
  <2>1. migration = [phase |-> "idle", left |-> <<>>, pinned |-> Null, seeds |-> FALSE]
    BY DEF Bucket!Init, Bucket!NoRun
  <2>2. origin \in [Bucket!Keys -> Contents \cup {Null}]
    BY BucketAssumption DEF Bucket!Init, Bucket!Keys, Bucket!Range
  <2> QED BY <1>2, <2>1, <2>2 DEF SourceTypes, Copies, Bucket!Writers
<1>7. exclusive => \A k \in Bucket!Keys : OneContent(k) /\ OneDescriptor(k)
  BY <1>3 DEF OneContent, OneDescriptor, Only, Paths
<1>8. Single
  BY <1>2, <1>7 DEF Single, Bucket!Init, Bucket!Writers
<1> QED BY <1>2, <1>4, <1>5, <1>6, <1>8 DEF ObjectInv
(* The keys of a plan, and the last hours of its chains in an order.          *)
LEMMA CountedKeys == \A S : Bucket!Cardinality(S) = Cardinality(S)
BY DEF Bucket!Cardinality, Cardinality

LEMMA Planned ==
  /\ Plan \in Seq(Bucket!Keys) /\ IsFiniteSet(Bucket!Keys) /\ Chained \subseteq Bucket!Keys
  /\ \A k \in Bucket!Keys : \E i \in 1 .. Len(Plan) : Plan[i] = k
  /\ \A k \in Bucket!Keys : Bucket!Index(k) \in 1 .. Len(Plan)
<1>1. Bucket!Keys = {Plan[i] : i \in DOMAIN Plan}
  BY DEF Bucket!Keys, Bucket!Range
<1>2. /\ Plan \in Seq(Bucket!Keys) /\ Chained \subseteq Bucket!Keys
      /\ DOMAIN Plan = 1 .. Len(Plan) /\ Len(Plan) \in Nat
  BY <1>1, BucketAssumption
<1>3. Plan \in Surjection(1 .. Len(Plan), Bucket!Keys)
  BY <1>1, <1>2 DEF Surjection
<1>4. IsFiniteSet(Bucket!Keys)
  BY <1>2, <1>3, FS_Interval, FS_Surjection
<1>5. ASSUME NEW k \in Bucket!Keys PROVE Bucket!Index(k) \in 1 .. Len(Plan)
  <2>1. \E i \in DOMAIN Plan : Plan[i] = k
    BY <1>1
  <2> QED BY <1>2, <2>1 DEF Bucket!Index
<1> QED BY <1>1, <1>2, <1>4, <1>5

LEMMA PreflightIs ==
  ASSUME NEW q \in Bucket!Preflights
  PROVE  /\ q \in Seq(Bucket!Keys) /\ \A i \in 1 .. Len(q) : Bucket!Terminal(q[i])
         /\ \A k \in Bucket!Keys : Bucket!Terminal(k) => \E i \in 1 .. Len(q) : q[i] = k
<1> DEFINE T == {k \in Bucket!Keys : Bucket!Terminal(k)}
           n == Cardinality(T)
<1>1. IsFiniteSet(T) /\ n \in Nat
  BY Planned, FS_Subset, FS_CardinalityType
<1>2. /\ q \in [1 .. n -> T]
      /\ \A i, j \in DOMAIN q : i # j => q[i] # q[j]
  <2>1. /\ q \in [1 .. Bucket!Cardinality(T) -> T]
        /\ \A i, j \in DOMAIN q : i # j => q[i] # q[j]
    BY DEF Bucket!Preflights
  <2> QED BY <2>1, CountedKeys
<1>3. \A k \in T : k \in Bucket!Keys /\ Bucket!Terminal(k)
  OBVIOUS
<1>4. \A k \in Bucket!Keys : Bucket!Terminal(k) => k \in T
  OBVIOUS
<1> HIDE DEF T
<1> HIDE DEF n
<1>5. \A i, j \in 1 .. n : q[i] = q[j] => i = j
  BY <1>2
<1>6. q \in Injection(1 .. n, T)
  BY <1>2, <1>5 DEF Injection, IsInjective
<1>7. Cardinality(1 .. n) = n
  BY <1>1, FS_Interval
<1>8. q \in Surjection(1 .. n, T)
  BY <1>1, <1>6, <1>7, FS_Injection DEF n
<1>9. \A k \in T : \E i \in 1 .. n : q[i] = k
  BY <1>8 DEF Surjection
<1>10. q \in Seq(Bucket!Keys) /\ Len(q) = n
  BY <1>1, <1>2, <1>3
<1> QED BY <1>2, <1>3, <1>4, <1>9, <1>10
-----------------------------------------------------------------------------
(* What a migration has left.                                                *)
IsRun(m) ==
  /\ m = [phase |-> m.phase, left |-> m.left, pinned |-> m.pinned, seeds |-> m.seeds]
  /\ m.left \in Seq(Bucket!Keys)
  /\ m.pinned = Null \/ m.pinned \in [Bucket!Keys -> Contents \cup {Null}]

LEMMA RunIs ==
  /\ SourceTypes <=> IsRun(migration) /\ origin \in [Bucket!Keys -> Contents \cup {Null}]
  /\ \A m : IsRun(m) /\ migration' = m /\ UNCHANGED origin /\ SourceTypes => SourceTypes'
  /\ IsRun(Bucket!NoRun) /\ Bucket!NoRun.phase = "idle"
BY DEF SourceTypes, IsRun, Bucket!NoRun

LEMMA Shorter ==
  ASSUME SourceTypes, migration.left # <<>>
  PROVE  /\ Head(migration.left) \in Bucket!Keys /\ Tail(migration.left) \in Seq(Bucket!Keys)
         /\ \A i \in 1 .. Len(migration.left) :
              migration.left[i] = Head(migration.left)
                \/ \E j \in 1 .. Len(Tail(migration.left)) : Tail(migration.left)[j] = migration.left[i]
         /\ \A j \in 1 .. Len(Tail(migration.left)) :
              \E i \in 1 .. Len(migration.left) : Tail(migration.left)[j] = migration.left[i]
         /\ Len(migration.left) > 1 => Tail(migration.left) # <<>>
         /\ Len(migration.left) =< 1 => \A i \in 1 .. Len(migration.left) : migration.left[i] = Head(migration.left)
<1>1. PICK q : q = migration.left /\ q \in Seq(Bucket!Keys) /\ q # <<>>
  BY DEF SourceTypes
<1>2. /\ Head(q) \in Bucket!Keys /\ Tail(q) \in Seq(Bucket!Keys) /\ Len(q) \in Nat \ {0}
      /\ Len(Tail(q)) = Len(q) - 1 /\ Head(q) = q[1] /\ \A j \in 1 .. Len(q) - 1 : Tail(q)[j] = q[j + 1]
  BY <1>1
<1>3. ASSUME NEW i \in 1 .. Len(q), i # 1 PROVE i - 1 \in 1 .. Len(q) - 1 /\ Tail(q)[i - 1] = q[i]
  BY <1>2, <1>3
<1>4. \A j \in 1 .. Len(q) - 1 : j + 1 \in 1 .. Len(q)
  BY <1>2
<1>5. Len(q) > 1 => Tail(q) # <<>>
  <2>1. Len(<<>>) = 0
    OBVIOUS
  <2>2. Len(q) > 1 => Len(Tail(q)) # 0
    BY <1>2
  <2> QED BY <2>1, <2>2
<1>6. ASSUME NEW i \in 1 .. Len(q)
      PROVE  q[i] = Head(q) \/ \E j \in 1 .. Len(Tail(q)) : Tail(q)[j] = q[i]
  <2>1. CASE i = 1
    BY <1>2, <2>1
  <2>2. CASE i # 1
    <3>1. i - 1 \in 1 .. Len(Tail(q)) /\ Tail(q)[i - 1] = q[i]
      BY <1>2, <1>3, <2>2
    <3> QED BY <3>1
  <2> QED BY <2>1, <2>2
<1>7. ASSUME NEW j \in 1 .. Len(Tail(q)) PROVE \E i \in 1 .. Len(q) : Tail(q)[j] = q[i]
  <2>1. j \in 1 .. Len(q) - 1
    BY <1>2
  <2> QED BY <1>2, <1>4, <2>1
<1>8. Len(q) =< 1 => \A i \in 1 .. Len(q) : q[i] = Head(q)
  <2>1. Len(q) =< 1 => \A i \in 1 .. Len(q) : i = 1
    BY <1>2
  <2> QED BY <1>2, <2>1
<1> QED BY <1>1, <1>2, <1>5, <1>6, <1>7, <1>8

(* A step of the migration without a publication.                            *)
LEMMA MigrationMoves ==
  ASSUME ObjectInv, NEW m, IsRun(m), migration' = m, UNCHANGED <<exclusive, object, pub, results, origin>>,
         pub["migration"].phase = "idle",
         m.phase # "idle" /\ exclusive => pub["worker"].phase = "idle"
  PROVE  ObjectInv'
<1>1. SourceTypes' /\ Copies'
  BY RunIs DEF ObjectInv, Copies
<1>2. pub' = [w \in Bucket!Writers |-> pub'[w]]
  BY DEF ObjectInv, PubTypes
<1> QED BY <1>1, <1>2, Rests

LEMMA MigrationSteps ==
  /\ \A pinned, seeds \in BOOLEAN : ObjectInv /\ Bucket!Migrate(pinned, seeds) => ObjectInv'
  /\ ObjectInv /\ Bucket!Preflight => ObjectInv'
  /\ ObjectInv /\ Bucket!StillMissing => ObjectInv'
  /\ ObjectInv /\ Bucket!Summarise => ObjectInv'
<1>1. ASSUME ObjectInv, NEW pinned \in BOOLEAN, NEW seeds \in BOOLEAN, Bucket!Migrate(pinned, seeds)
      PROVE  ObjectInv'
  <2>1. PICK left \in IF seeds THEN Bucket!Preflights \ {<<>>} ELSE {Plan} :
          migration' = [phase |-> IF seeds THEN "preflight" ELSE "copy", left |-> left,
                        pinned |-> IF pinned THEN origin ELSE Null, seeds |-> seeds]
    BY <1>1 DEF Bucket!Migrate
  <2>2. left \in Seq(Bucket!Keys)
    BY <2>1, Planned, PreflightIs
  <2>3. origin \in [Bucket!Keys -> Contents \cup {Null}]
    BY <1>1 DEF ObjectInv, SourceTypes
  <2>4. PICK m : m = migration'
    OBVIOUS
  <2>5. IsRun(m)
    BY <2>1, <2>2, <2>3, <2>4 DEF IsRun
  <2>6. /\ UNCHANGED <<exclusive, object, pub, results, origin>> /\ pub["migration"].phase = "idle"
        /\ exclusive => pub["worker"].phase = "idle"
    BY <1>1 DEF Bucket!Migrate, Bucket!In
  <2> QED BY <1>1, <2>4, <2>5, <2>6, MigrationMoves
<1>2. ASSUME ObjectInv, Bucket!Preflight PROVE ObjectInv'
  <2>1. /\ UNCHANGED <<exclusive, object, pub, results, origin>> /\ migration.phase = "preflight"
        /\ migration' = IF Len(migration.left) > 1
                        THEN [migration EXCEPT !.left = Tail(@)]
                        ELSE [migration EXCEPT !.phase = "copy", !.left = Plan]
    BY <1>2 DEF Bucket!Preflight
  <2>2. pub["migration"].phase = "idle" /\ (exclusive => pub["worker"].phase = "idle")
    BY <1>2, <2>1 DEF ObjectInv, Copies, Single
  <2>3. PICK m : m = migration'
    OBVIOUS
  <2>4. IsRun(migration) /\ SourceTypes
    BY <1>2, RunIs DEF ObjectInv
  <2>5. CASE Len(migration.left) > 1
    <3>1. Tail(migration.left) \in Seq(Bucket!Keys)
      BY <2>4, <2>5, Shorter
    <3>2. m = [migration EXCEPT !.left = Tail(migration.left)]
      BY <2>1, <2>3, <2>5
    <3>3. IsRun(m)
      BY <2>4, <3>1, <3>2 DEF IsRun
    <3> QED BY <1>2, <2>1, <2>2, <2>3, <3>3, MigrationMoves
  <2>6. CASE ~(Len(migration.left) > 1)
    <3>1. m = [migration EXCEPT !.phase = "copy", !.left = Plan]
      BY <2>1, <2>3, <2>6
    <3>2. IsRun(m)
      BY <2>4, <3>1, Planned DEF IsRun
    <3> QED BY <1>2, <2>1, <2>2, <2>3, <3>2, MigrationMoves
  <2> QED BY <2>5, <2>6
<1>3. ASSUME ObjectInv, Bucket!StillMissing PROVE ObjectInv'
  <2>1. /\ UNCHANGED <<exclusive, object, pub, results, origin>> /\ migration.phase = "copy"
        /\ migration.left # <<>> /\ pub["migration"].phase = "idle"
        /\ migration' = [migration EXCEPT !.left = Tail(migration.left)]
    BY <1>3 DEF Bucket!StillMissing, Bucket!In
  <2>2. exclusive => pub["worker"].phase = "idle"
    BY <1>3, <2>1 DEF ObjectInv, Single
  <2>3. PICK m : m = migration'
    OBVIOUS
  <2>4. IsRun(migration) /\ SourceTypes
    BY <1>3, RunIs DEF ObjectInv
  <2>5. Tail(migration.left) \in Seq(Bucket!Keys)
    BY <2>1, <2>4, Shorter
  <2>6. IsRun(m)
    BY <2>1, <2>3, <2>4, <2>5 DEF IsRun
  <2> QED BY <1>3, <2>1, <2>2, <2>3, <2>6, MigrationMoves
<1>4. ASSUME ObjectInv, Bucket!Summarise PROVE ObjectInv'
  <2>1. /\ UNCHANGED <<exclusive, object, pub, results, origin>> /\ migration' = Bucket!NoRun
        /\ migration.left = <<>>
    BY <1>4 DEF Bucket!Summarise
  <2>2. pub["migration"].phase = "idle"
    BY <1>4, <2>1 DEF ObjectInv, Copies
  <2> QED BY <1>4, <2>1, <2>2, RunIs, MigrationMoves
<1> QED BY <1>1, <1>2, <1>3, <1>4

LEMMA EndsCopy == ASSUME ObjectInv, Bucket!Copied PROVE ObjectInv'
<1>1. /\ pub["migration"].phase = "published" /\ pub' = [pub EXCEPT !["migration"] = Bucket!NoPub]
      /\ results' = results \union {Bucket!Result("migration")}
      /\ UNCHANGED <<exclusive, object, origin>>
      /\ migration' = [migration EXCEPT !.left = Tail(migration.left)]
  BY DEF Bucket!Copied, Bucket!In
<1>2. IsRun(migration) /\ SourceTypes /\ migration.left # <<>>
  BY <1>1, RunIs DEF ObjectInv, Copies
<1>3. PICK m : m = migration'
  OBVIOUS
<1>4. IsRun(m) /\ m.phase = migration.phase
  BY <1>1, <1>2, <1>3, Shorter DEF IsRun
<1>5. SourceTypes'
  BY <1>1, <1>2, <1>3, <1>4, RunIs
<1> QED BY <1>1, <1>3, <1>4, <1>5, Taken DEF Bucket!Writers

LEMMA BeginsCopy == ASSUME ObjectInv, Bucket!Copy PROVE ObjectInv'
<1>1. PICK k : k = Head(migration.left)
  OBVIOUS
<1>2. /\ migration.phase = "copy" /\ migration.left # <<>> /\ pub["migration"].phase = "idle"
      /\ Bucket!SourceOf(k) # Null
      /\ pub' = [pub EXCEPT !["migration"] = Bucket!Started(k, Bucket!SourceOf(k))]
      /\ UNCHANGED <<exclusive, object, results, migration, origin>>
  BY <1>1 DEF Bucket!Copy, Bucket!In, Bucket!Admissible
<1>3. k \in Bucket!Keys
  BY <1>1, <1>2, Shorter DEF ObjectInv
<1>4. Bucket!SourceOf(k) \in Contents
  BY <1>2, <1>3 DEF ObjectInv, SourceTypes, Bucket!SourceOf
<1> QED BY <1>2, <1>3, <1>4, Begins DEF Bucket!Writers

LEMMA GivesUp == ASSUME ObjectInv, NEW w \in Bucket!Writers, Bucket!Fails(w) PROVE ObjectInv'
<1>1. /\ pub' = [pub EXCEPT ![w] = Bucket!NoPub]
      /\ migration' = IF w = "migration" THEN Bucket!NoRun ELSE migration
      /\ UNCHANGED <<exclusive, object, origin, results>>
  BY DEF Bucket!Fails
<1>2. /\ pub' = [x \in Bucket!Writers |-> pub'[x]]
      /\ pub'[w] = Bucket!NoPub /\ \A x \in Bucket!Writers : x # w => pub'[x] = pub[x]
  BY <1>1 DEF ObjectInv, PubTypes
<1>3. Bucket!NoPub.phase = "idle"
  BY DEF Bucket!NoPub
<1>4. SourceTypes' /\ Copies'
  BY <1>1, <1>2, <1>3, RunIs DEF ObjectInv, Copies, Bucket!Writers, SourceTypes
<1>5. exclusive => pub'["worker"].phase = "idle" \/ migration'.phase = "idle"
  BY <1>1, <1>2, <1>3, RunIs DEF ObjectInv, Single, Bucket!Writers
<1> QED BY <1>1, <1>2, <1>4, <1>5, Rests

LEMMA Changes ==
  ASSUME ObjectInv, NEW k \in Bucket!Keys, NEW c \in Contents, Bucket!Change(k, c) PROVE ObjectInv'
<1>1. UNCHANGED <<exclusive, object, pub, results, migration>> /\ origin' = [origin EXCEPT ![k] = c]
  BY DEF Bucket!Change
<1>2. SourceTypes' /\ Copies' /\ pub' = [x \in Bucket!Writers |-> pub'[x]]
  BY <1>1 DEF ObjectInv, SourceTypes, Copies, PubTypes
<1>3. exclusive => pub'["worker"].phase = "idle" \/ migration'.phase = "idle"
  BY <1>1 DEF ObjectInv, Single
<1> QED BY <1>1, <1>2, <1>3, Rests
LEMMA ObjectSteps == ObjectInv /\ [Bucket!Next]_Bucket!vars => ObjectInv'
<1> SUFFICES ASSUME ObjectInv, [Bucket!Next]_Bucket!vars PROVE ObjectInv'
  OBVIOUS
<1>1. ASSUME NEW w \in Bucket!Writers, Bucket!Publishes(w) PROVE ObjectInv'
  <2>1. ASSUME Bucket!Inspect(w) \/ Bucket!InspectAgain(w) PROVE ObjectInv'
    BY <2>1, Settles
    DEF Bucket!Inspect, Bucket!InspectAgain, Bucket!In, Bucket!Only, Bucket!Quiet
  <2> QED
    BY <1>1, <2>1, HeadsArtifact, HeadsManifest, Verifies, PutsArtifact, PutsManifest, Rereads,
       PutsDescriptor, ReadsBack, Repeats, GivesUp
    DEF Bucket!Publishes
<1>2. ASSUME NEW k \in Chained, NEW c \in Contents, Bucket!WorkerStarts(k, c) PROVE ObjectInv'
  <2>1. k \in Bucket!Keys
    BY Planned
  <2> QED BY <1>2, <2>1, Begins DEF Bucket!WorkerStarts, Bucket!Writers, Bucket!In
<1>3. ASSUME Bucket!WorkerTakes PROVE ObjectInv'
  <2>1. SourceTypes'
    BY <1>3 DEF Bucket!WorkerTakes, ObjectInv, SourceTypes
  <2> QED BY <1>3, <2>1, Taken DEF Bucket!WorkerTakes, Bucket!Writers, Bucket!In
<1>4. CASE UNCHANGED <<exclusive, object, origin, pub, results, migration>>
  <2>1. SourceTypes' /\ Copies' /\ pub' = [x \in Bucket!Writers |-> pub'[x]]
    BY <1>4 DEF ObjectInv, SourceTypes, Copies, PubTypes
  <2>2. exclusive => pub'["worker"].phase = "idle" \/ migration'.phase = "idle"
    BY <1>4 DEF ObjectInv, Single
  <2> QED BY <1>4, <2>1, <2>2, Rests
<1>5. CASE UNCHANGED Bucket!vars
  BY <1>4, <1>5 DEF Bucket!vars
<1>6. ASSUME (\E k \in Chained : Bucket!Look(k)) \/ Bucket!NewGeneration PROVE ObjectInv'
  BY <1>4, <1>6 DEF Bucket!Look, Bucket!Looks, Bucket!NewGeneration
<1> QED
  BY <1>1, <1>2, <1>3, <1>5, <1>6, Deletes, Changes, MigrationSteps, BeginsCopy, EndsCopy DEF Bucket!Next

(* In each step of a bucket.                                                 *)
LEMMA Aging == ObjectInv /\ [Bucket!Next]_Bucket!vars => Ages
<1> SUFFICES ASSUME ObjectInv, [Bucket!Next]_Bucket!vars PROVE Ages
  OBVIOUS
<1>1. CASE UNCHANGED object
  BY <1>1 DEF Ages, ObjectInv, ObjectTypes
<1>2. ASSUME NEW w \in Bucket!Writers, Bucket!PutArtifact(w) PROVE Ages
  <2>1. pub[w].key \in Bucket!Keys /\ pub[w].content \in Values
    BY <1>2 DEF ObjectInv, PubTypes, IsPub, Values, Bucket!PutArtifact, Bucket!PutObject, Bucket!In
  <2>2. UNCHANGED object \/ Bucket!Put(pub[w].key, "artifact", pub[w].content)
    BY <1>2 DEF Bucket!PutArtifact, Bucket!PutObject
  <2> QED BY <1>1, <2>1, <2>2, Put DEF Adds, ObjectInv, Paths
<1>3. ASSUME NEW w \in Bucket!Writers, Bucket!PutManifest(w) PROVE Ages
  <2>1. pub[w].key \in Bucket!Keys /\ pub[w].content \in Values
    BY <1>3 DEF ObjectInv, PubTypes, IsPub, Values, Bucket!PutManifest, Bucket!PutObject, Bucket!In
  <2>2. UNCHANGED object \/ Bucket!Put(pub[w].key, "manifest", pub[w].content)
    BY <1>3 DEF Bucket!PutManifest, Bucket!PutObject
  <2> QED BY <1>1, <2>1, <2>2, Put DEF Adds, ObjectInv, Paths
<1>4. ASSUME NEW w \in Bucket!Writers, Bucket!PutDescriptor(w) \/ Bucket!Repeat(w) PROVE Ages
  <2>1. /\ pub[w].key \in Bucket!Keys /\ pub[w].content \in Values
        /\ Bucket!Publication(w) \in Values
    BY <1>4
    DEF ObjectInv, PubTypes, IsPub, Values, Pairs, Bucket!Publication, Bucket!PutDescriptor,
        Bucket!Repeat, Bucket!In
  <2>2. PICK path \in Paths, value \in Values : Bucket!Put(pub[w].key, path, value)
    <3>1. CASE Bucket!PutDescriptor(w)
      BY <2>1, <3>1 DEF Bucket!PutDescriptor, Paths
    <3>2. CASE Bucket!Repeat(w)
      BY <2>1, <3>2 DEF Bucket!Repeat, Paths
    <3> QED BY <1>4, <3>1, <3>2
  <2> QED BY <2>1, <2>2, Put DEF Adds, ObjectInv
<1>5. ASSUME NEW k \in Bucket!Keys, NEW path \in DOMAIN object[k],
             NEW v \in DOMAIN object[k][path], Bucket!Delete(k, path, v)
      PROVE  Ages
  <2>1. path \in Paths
    BY DEF ObjectInv, ObjectTypes
  <2> QED BY <1>5, <2>1, Deleted DEF Bucket!Delete, ObjectInv
<1>6. ASSUME NEW w \in Bucket!Writers,
             \/ Bucket!Inspect(w) \/ Bucket!HeadArtifact(w) \/ Bucket!HeadManifest(w)
             \/ Bucket!VerifyArtifact(w) \/ Bucket!Reread(w) \/ Bucket!InspectAgain(w)
             \/ Bucket!ReadBack(w) \/ Bucket!Fails(w)
      PROVE  UNCHANGED object
  BY <1>6 DEF Bucket!Inspect, Bucket!HeadArtifact, Bucket!HeadManifest, Bucket!VerifyArtifact,
    Bucket!Reread, Bucket!InspectAgain, Bucket!ReadBack, Bucket!Fails, Bucket!Only
<1>7. ASSUME NEW w \in Bucket!Writers, Bucket!Publishes(w) PROVE Ages
  BY <1>1, <1>2, <1>3, <1>4, <1>6, <1>7 DEF Bucket!Publishes
<1>8. ASSUME \/ \E k \in Chained : Bucket!Look(k) \/ \E c \in Contents : Bucket!WorkerStarts(k, c)
             \/ \E k \in Bucket!Keys : \E c \in Contents : Bucket!Change(k, c)
             \/ Bucket!WorkerTakes \/ Bucket!NewGeneration
             \/ \E pinned, seeds \in BOOLEAN : Bucket!Migrate(pinned, seeds)
             \/ Bucket!Preflight \/ Bucket!StillMissing \/ Bucket!Copy \/ Bucket!Copied
             \/ Bucket!Summarise \/ UNCHANGED Bucket!vars
      PROVE  UNCHANGED object
  BY <1>8 DEF Bucket!Look, Bucket!Looks, Bucket!WorkerStarts, Bucket!Change, Bucket!WorkerTakes,
    Bucket!NewGeneration, Bucket!Migrate, Bucket!Preflight, Bucket!StillMissing, Bucket!Copy,
    Bucket!Copied, Bucket!Summarise, Bucket!vars
<1> QED BY <1>1, <1>5, <1>7, <1>8 DEF Bucket!Next
-----------------------------------------------------------------------------
(* What the worker remembers of a key, and has read of it.                   *)
Remembers ==
  /\ remembered = [k \in Chained |-> remembered[k]] /\ seen = [k \in Chained |-> seen[k]]
  /\ \A k \in Chained :
       \/ remembered[k] = Unknown /\ seen[k] = {}
       \/ remembered[k] = Null /\ seen[k] \subseteq {Null}
       \/ /\ remembered[k] \in References
          /\ \E c \in Contents : Pins(k, remembered[k].publication, c) /\ seen[k] \subseteq {c}

LEMMA RemembersLasts ==
  ASSUME ObjectInv, Ages, Remembers, UNCHANGED <<remembered, seen>> PROVE Remembers'
<1> SUFFICES ASSUME NEW k \in Chained
             PROVE  \/ remembered[k] = Unknown /\ seen[k] = {}
                    \/ remembered[k] = Null /\ seen[k] \subseteq {Null}
                    \/ /\ remembered[k] \in References
                       /\ \E c \in Contents :
                            Pins(k, remembered[k].publication, c)' /\ seen[k] \subseteq {c}
  BY DEF Remembers
<1>1. PICK p : p = remembered[k].publication
  OBVIOUS
<1>2. \A c : Pins(k, p, c) => Pins(k, p, c)'
  BY Lasts, Planned DEF ObjectInv
<1>3. (remembered[k].publication)' = p
  BY <1>1
<1> QED BY <1>1, <1>2, <1>3 DEF Remembers

LEMMA Looked == ASSUME ObjectInv, Remembers, NEW k \in Chained, Bucket!Look(k) PROVE Remembers'
<1>1. PICK r : r = IF remembered[k] = Unknown THEN Bucket!Resolved(k) ELSE remembered[k]
  OBVIOUS
<1>2. /\ remembered' = [remembered EXCEPT ![k] = r] /\ UNCHANGED object
      /\ seen' = [seen EXCEPT ![k] = seen[k] \union Bucket!Found(k, r)]
  BY <1>1 DEF Bucket!Look, Bucket!Looks
<1>3. k \in Bucket!Keys
  BY Planned
<1>4. /\ r = Null => seen[k] \subseteq {Null}
      /\ r # Null => r \in References /\ \E c \in Contents : Pins(k, r.publication, c) /\ seen[k] \subseteq {c}
  <2>1. CASE remembered[k] = Unknown
    <3>1. seen[k] = {} /\ r = Bucket!Resolved(k)
      BY <1>1, <2>1, BucketAssumption DEF Remembers, References, Pairs
    <3>2. r # Null => r \in References /\ \E c \in Contents : Returns(k, r, c)
      BY <1>3, <3>1, ResolvedIs DEF ObjectInv
    <3> QED BY <3>1, <3>2 DEF Returns
  <2>2. CASE remembered[k] # Unknown
    <3>1. Null \notin References
      BY BucketAssumption DEF References, Pairs
    <3> QED BY <1>1, <2>2, <3>1 DEF Remembers
  <2> QED BY <2>1, <2>2
<1>5. /\ r = Null => Bucket!Found(k, r) = {Null}
      /\ r # Null => \A c : Pins(k, r.publication, c) => Bucket!Found(k, r) \subseteq {c}
  BY Readable DEF Bucket!Found
<1>6. /\ remembered'[k] = r /\ seen'[k] = seen[k] \union Bucket!Found(k, r)
      /\ \A j \in Chained : j # k => remembered'[j] = remembered[j] /\ seen'[j] = seen[j]
      /\ remembered' = [j \in Chained |-> remembered'[j]] /\ seen' = [j \in Chained |-> seen'[j]]
  BY <1>2 DEF Remembers
<1>7. \A j, p, c : Pins(j, p, c) => Pins(j, p, c)'
  BY <1>2 DEF Pins, Is
<1>8. ASSUME NEW j \in Chained
      PROVE  \/ remembered'[j] = Unknown /\ seen'[j] = {}
             \/ remembered'[j] = Null /\ seen'[j] \subseteq {Null}
             \/ /\ remembered'[j] \in References
                /\ \E c \in Contents : Pins(j, remembered[j].publication, c)' /\ seen'[j] \subseteq {c}
  <2>1. PICK p : p = remembered'[j].publication
    OBVIOUS
  <2>2. CASE j = k /\ r = Null
    BY <1>4, <1>5, <1>6, <2>2
  <2>3. CASE j = k /\ r # Null
    <3>1. PICK c \in Contents : Pins(k, r.publication, c) /\ seen[k] \subseteq {c}
      BY <1>4, <2>3
    <3>2. seen'[k] \subseteq {c}
      BY <1>5, <1>6, <2>3, <3>1
    <3>3. Pins(j, p, c)' /\ (remembered[j].publication)' = p
      BY <1>6, <1>7, <2>1, <2>3, <3>1
    <3> QED BY <1>4, <1>6, <2>3, <3>2, <3>3
  <2>4. CASE j # k
    <3>1. remembered'[j] = remembered[j] /\ seen'[j] = seen[j] /\ (remembered[j].publication)' = p
      BY <1>6, <2>1, <2>4
    <3> QED BY <1>7, <2>1, <3>1 DEF Remembers
  <2> QED BY <2>2, <2>3, <2>4
<1> QED BY <1>6, <1>8 DEF Remembers

LEMMA TakenRemembered ==
  ASSUME ObjectInv, Ages, Remembers, Bucket!WorkerTakes PROVE Remembers'
<1>1. PICK k, r, c : k = pub["worker"].key /\ r = pub["worker"].reference /\ c = pub["worker"].content
  OBVIOUS
<1>2. /\ remembered' = [remembered EXCEPT ![k] = r] /\ seen' = [seen EXCEPT ![k] = {}]
      /\ pub["worker"].phase = "published"
  BY <1>1 DEF Bucket!WorkerTakes, Bucket!In
<1>3. Secured(pub["worker"]) /\ IsPub(pub["worker"])
  BY DEF ObjectInv, PubTypes, Bucket!Writers
<1>4. k \in Bucket!Keys /\ c \in Contents /\ r \in References /\ Returns(k, r, c)
  BY <1>1, <1>2, <1>3 DEF IsPub, Secured
<1>5. \A j \in Chained : \A p, d : Pins(j, p, d) => Pins(j, p, d)'
  BY Lasts, Planned DEF ObjectInv
<1>6. /\ k \in Chained => remembered'[k] = r /\ seen'[k] = {}
      /\ \A j \in Chained : j # k => remembered'[j] = remembered[j] /\ seen'[j] = seen[j]
      /\ remembered' = [j \in Chained |-> remembered'[j]] /\ seen' = [j \in Chained |-> seen'[j]]
  BY <1>2 DEF Remembers
<1>7. ASSUME NEW j \in Chained
      PROVE  \/ remembered'[j] = Unknown /\ seen'[j] = {}
             \/ remembered'[j] = Null /\ seen'[j] \subseteq {Null}
             \/ /\ remembered'[j] \in References
                /\ \E d \in Contents : Pins(j, remembered[j].publication, d)' /\ seen'[j] \subseteq {d}
  <2>1. PICK p : p = remembered'[j].publication /\ (remembered[j].publication)' = p
    OBVIOUS
  <2>2. CASE j = k
    <3>1. Pins(j, p, c)'
      BY <1>4, <1>5, <1>6, <2>1, <2>2 DEF Returns
    <3> QED BY <1>4, <1>6, <2>1, <2>2, <3>1
  <2>3. CASE j # k
    <3>1. remembered'[j] = remembered[j] /\ seen'[j] = seen[j]
      BY <1>6, <2>3
    <3> QED BY <1>5, <2>1, <3>1 DEF Remembers
  <2> QED BY <2>2, <2>3
<1> QED BY <1>6, <1>7 DEF Remembers

LEMMA GenerationSteps == ObjectInv /\ Remembers /\ [Bucket!Next]_Bucket!vars => Remembers'
<1> SUFFICES ASSUME ObjectInv, Remembers, [Bucket!Next]_Bucket!vars PROVE Remembers'
  OBVIOUS
<1>1. Ages
  BY Aging
<1>2. ASSUME Bucket!NewGeneration PROVE Remembers'
  BY <1>2 DEF Bucket!NewGeneration, Remembers
<1>3. ASSUME NEW w \in Bucket!Writers, Bucket!Publishes(w) PROVE UNCHANGED <<remembered, seen>>
  BY <1>3 DEF Bucket!Publishes, Bucket!Inspect, Bucket!HeadArtifact, Bucket!HeadManifest,
    Bucket!VerifyArtifact, Bucket!PutArtifact, Bucket!PutManifest, Bucket!PutObject, Bucket!Reread,
    Bucket!InspectAgain, Bucket!PutDescriptor, Bucket!ReadBack, Bucket!Repeat, Bucket!Fails,
    Bucket!Only, Bucket!Quiet
<1>4. ASSUME \/ \E k \in Chained : \E c \in Contents : Bucket!WorkerStarts(k, c)
             \/ \E k \in Bucket!Keys : \/ \E c \in Contents : Bucket!Change(k, c)
                                       \/ \E path \in DOMAIN object[k] :
                                            \E v \in DOMAIN object[k][path] : Bucket!Delete(k, path, v)
             \/ \E pinned, seeds \in BOOLEAN : Bucket!Migrate(pinned, seeds)
             \/ Bucket!Preflight \/ Bucket!StillMissing \/ Bucket!Copy \/ Bucket!Copied
             \/ Bucket!Summarise \/ UNCHANGED Bucket!vars
      PROVE  UNCHANGED <<remembered, seen>>
  BY <1>4 DEF Bucket!WorkerStarts, Bucket!Change, Bucket!Delete, Bucket!Migrate, Bucket!Preflight,
    Bucket!StillMissing, Bucket!Copy, Bucket!Copied, Bucket!Summarise, Bucket!vars
<1> QED BY <1>1, <1>2, <1>3, <1>4, RemembersLasts, Looked, TakenRemembered DEF Bucket!Next
-----------------------------------------------------------------------------
(* What journals hold.                                                       *)
Events == {"terminal_verified", "missing", "copied", "complete"}
Entries ==
  [event : Events, key : Bucket!Keys \cup {Null}, content : Contents \cup {Null},
   reference : References \cup {Null}, created : BOOLEAN]
Journals == [seeds : BOOLEAN, receipts : Seq(Entries)]

Has(j, event, k) ==
  \E i \in 1 .. Len(j.receipts) : j.receipts[i].event = event /\ j.receipts[i].key = k

IsTrue(j) ==
  /\ \A k : Has(j, "copied", k) => k \in Bucket!Keys
  /\ \A k : Has(j, "terminal_verified", k) => k \in Bucket!Keys /\ Bucket!Terminal(k)
  /\ \A q : Has(j, "complete", q) => \A k \in Bucket!Keys : Has(j, "copied", k)
  /\ j.seeds => /\ \A q : Has(j, "copied", q) =>
                     \A k \in Bucket!Keys : Bucket!Terminal(k) => Has(j, "terminal_verified", k)
                /\ \A i \in 1 .. Len(j.receipts) :
                     j.receipts[i].event = "copied" /\ Bucket!Terminal(j.receipts[i].key) =>
                       j.receipts[i].content.checkpoint

Last == journals[Len(journals)]

(* The last journal is that of the migration under way.                      *)
Left(k) == \E i \in 1 .. Len(migration.left) : migration.left[i] = k

Follows ==
  /\ migration.phase # "idle" => journals # <<>> /\ Last.seeds = migration.seeds
  /\ migration.phase = "preflight" =>
       /\ migration.seeds /\ migration.left # <<>> /\ \A k : Left(k) => Bucket!Terminal(k)
       /\ \A k \in Bucket!Keys : Bucket!Terminal(k) => Left(k) \/ Has(Last, "terminal_verified", k)
       /\ \A k : ~Has(Last, "copied", k)
  /\ migration.phase = "copy" =>
       /\ migration.seeds =>
            \A k \in Bucket!Keys : Bucket!Terminal(k) => Has(Last, "terminal_verified", k)
       /\ \A k \in Bucket!Keys :
            Left(k) \/ Has(Last, "copied", k) \/ \E q : Has(Last, "missing", q)

(* What is copied is at the head of what is left, and a seed has to be one.   *)
CopiesHead ==
  pub["migration"].phase # "idle" =>
    /\ pub["migration"].key = Head(migration.left)
    /\ migration.seeds /\ Bucket!Terminal(pub["migration"].key) => pub["migration"].content.checkpoint

JournalInv ==
  /\ journals \in Seq(Journals) /\ \A i \in 1 .. Len(journals) : IsTrue(journals[i])
  /\ migration.phase \in {"idle", "preflight", "copy"} /\ Follows /\ CopiesHead

LEMMA JournalsStart == Bucket!Init => JournalInv
<1> SUFFICES ASSUME Bucket!Init PROVE JournalInv
  OBVIOUS
<1>1. migration.phase = "idle" /\ pub["migration"].phase = "idle" /\ journals = <<>>
  BY DEF Bucket!Init, Bucket!NoRun, Bucket!NoPub, Bucket!Writers
<1> QED BY <1>1 DEF JournalInv, Follows, CopiesHead

(* A receipt is written.                                                     *)
LEMMA Recorded ==
  ASSUME journals \in Seq(Journals), journals # <<>>, NEW r \in Entries, Bucket!Records(r)
  PROVE  /\ journals' \in Seq(Journals) /\ Len(journals') = Len(journals) /\ journals' # <<>>
         /\ \A i \in 1 .. Len(journals) : i # Len(journals) => journals'[i] = journals[i]
         /\ Last'.seeds = Last.seeds /\ Last \in Journals /\ Last' \in Journals
         /\ Len(Last'.receipts) = Len(Last.receipts) + 1
         /\ \A i \in 1 .. Len(Last.receipts) : Last'.receipts[i] = Last.receipts[i]
         /\ Last'.receipts[Len(Last.receipts) + 1] = r
<1>1. PICK n, j : n = Len(journals) /\ j = journals[n]
  OBVIOUS
<1>2. n \in Nat /\ n \in 1 .. n /\ j \in Journals /\ DOMAIN journals = 1 .. n
  BY <1>1
<1>3. PICK q, s : q = j.receipts /\ s = Append(q, r)
  OBVIOUS
<1>4. /\ q \in Seq(Entries) /\ s \in Seq(Entries) /\ Len(s) = Len(q) + 1
      /\ \A i \in 1 .. Len(q) : s[i] = q[i]
      /\ s[Len(q) + 1] = r
  BY <1>2, <1>3 DEF Journals
<1>5. PICK x : x = [j EXCEPT !.receipts = s]
  OBVIOUS
<1>6. x \in Journals /\ x.receipts = s /\ x.seeds = j.seeds
  BY <1>2, <1>4, <1>5 DEF Journals
<1>7. journals' = [journals EXCEPT ![n] = x]
  BY <1>1, <1>3, <1>5 DEF Bucket!Records
<1>8. /\ journals' \in Seq(Journals) /\ Len(journals') = n /\ journals'[n] = x
      /\ \A i \in 1 .. n : i # n => journals'[i] = journals[i]
  BY <1>1, <1>2, <1>6, <1>7
<1>9. journals' # <<>>
  BY <1>2, <1>8
<1>10. Last = j /\ Last' = x
  BY <1>1, <1>8 DEF Last
<1> QED BY <1>1, <1>2, <1>3, <1>4, <1>6, <1>8, <1>9, <1>10

LEMMA RecordedHas ==
  ASSUME journals \in Seq(Journals), journals # <<>>, NEW r \in Entries, Bucket!Records(r)
  PROVE  \A event, k : Has(Last, event, k)' <=> Has(Last, event, k) \/ (r.event = event /\ r.key = k)
<1>1. PICK j, x, n : j = Last /\ x = Last' /\ n = Len(j.receipts)
  OBVIOUS
<1>2. /\ n \in Nat /\ Len(x.receipts) = n + 1 /\ x.receipts[n + 1] = r
      /\ \A i \in 1 .. n : x.receipts[i] = j.receipts[i]
  BY <1>1, Recorded DEF Journals
<1>3. \A i \in 1 .. n + 1 : i \in 1 .. n \/ i = n + 1
  BY <1>2
<1>4. ASSUME NEW event, NEW k
      PROVE  Has(x, event, k) <=> Has(j, event, k) \/ (r.event = event /\ r.key = k)
  <2>1. ASSUME Has(x, event, k) PROVE Has(j, event, k) \/ (r.event = event /\ r.key = k)
    <3>1. PICK i \in 1 .. n + 1 : x.receipts[i].event = event /\ x.receipts[i].key = k
      BY <1>2, <2>1 DEF Has
    <3>2. CASE i = n + 1
      BY <1>2, <3>1, <3>2
    <3>3. CASE i # n + 1
      BY <1>1, <1>2, <1>3, <3>1, <3>3 DEF Has
    <3> QED BY <3>2, <3>3
  <2>2. Has(j, event, k) => Has(x, event, k)
    BY <1>1, <1>2 DEF Has
  <2>3. r.event = event /\ r.key = k => Has(x, event, k)
    BY <1>2 DEF Has
  <2> QED BY <2>1, <2>2, <2>3
<1> QED BY <1>1, <1>4

LEMMA RecordedTrue ==
  ASSUME JournalInv, journals # <<>>, NEW r \in Entries, Bucket!Records(r),
         r.event = "copied" => r.key \in Bucket!Keys,
         r.event = "terminal_verified" => r.key \in Bucket!Keys /\ Bucket!Terminal(r.key),
         r.event = "complete" => \A k \in Bucket!Keys : Has(Last, "copied", k),
         r.event = "copied" /\ Last.seeds =>
           /\ \A k \in Bucket!Keys : Bucket!Terminal(k) => Has(Last, "terminal_verified", k)
           /\ Bucket!Terminal(r.key) => r.content.checkpoint
  PROVE  \A i \in 1 .. Len(journals)' : IsTrue(journals'[i])
<1>1. PICK j, x, n : j = Last /\ x = Last' /\ n = Len(j.receipts)
  OBVIOUS
<1>2. /\ n \in Nat /\ Len(x.receipts) = n + 1 /\ x.receipts[n + 1] = r /\ x.seeds = j.seeds
      /\ \A i \in 1 .. n : x.receipts[i] = j.receipts[i]
  BY <1>1, Recorded DEF Journals, JournalInv
<1>3. \A i \in 1 .. n + 1 : i \in 1 .. n \/ i = n + 1
  BY <1>2
<1>4. \A event, k : Has(x, event, k) <=> Has(j, event, k) \/ (r.event = event /\ r.key = k)
  BY <1>1, RecordedHas DEF JournalInv
<1>5. IsTrue(j)
  <2>1. Len(journals) \in 1 .. Len(journals)
    BY DEF JournalInv
  <2> QED BY <1>1, <2>1 DEF JournalInv, Last
<1>6. IsTrue(x)
  <2>1. /\ \A k : Has(x, "copied", k) => k \in Bucket!Keys
        /\ \A k : Has(x, "terminal_verified", k) => k \in Bucket!Keys /\ Bucket!Terminal(k)
    BY <1>4, <1>5 DEF IsTrue
  <2>2. \A q : Has(x, "complete", q) => \A k \in Bucket!Keys : Has(x, "copied", k)
    <3> SUFFICES ASSUME NEW q, Has(x, "complete", q), NEW k \in Bucket!Keys PROVE Has(x, "copied", k)
      OBVIOUS
    <3>1. Has(j, "complete", q) \/ r.event = "complete"
      BY <1>4
    <3>2. Has(j, "copied", k)
      BY <1>1, <1>5, <3>1 DEF IsTrue
    <3> QED BY <1>4, <3>2
  <2>3. ASSUME x.seeds, NEW q, Has(x, "copied", q), NEW k \in Bucket!Keys, Bucket!Terminal(k)
        PROVE  Has(x, "terminal_verified", k)
    <3>1. Has(j, "copied", q) \/ r.event = "copied"
      BY <1>4, <2>3
    <3>2. Has(j, "terminal_verified", k)
      BY <1>1, <1>2, <1>5, <2>3, <3>1 DEF IsTrue
    <3> QED BY <1>4, <3>2
  <2>4. ASSUME x.seeds, NEW i \in 1 .. Len(x.receipts),
               x.receipts[i].event = "copied", Bucket!Terminal(x.receipts[i].key)
        PROVE  x.receipts[i].content.checkpoint
    <3>1. CASE i = n + 1
      BY <1>1, <1>2, <2>4, <3>1
    <3>2. CASE i # n + 1
      BY <1>1, <1>2, <1>3, <1>5, <2>4, <3>2 DEF IsTrue
    <3> QED BY <3>1, <3>2
  <2> QED BY <2>1, <2>2, <2>3, <2>4 DEF IsTrue
<1> QED
  BY <1>1, <1>6, Recorded DEF JournalInv, Last

(* The migration is left alone, or its copy ended.                           *)
LEMMA JournalRests ==
  ASSUME JournalInv, UNCHANGED <<journals, migration>>,
         pub'["migration"].phase # "idle" =>
           /\ pub["migration"].phase # "idle" /\ pub'["migration"].key = pub["migration"].key
           /\ pub'["migration"].content = pub["migration"].content
  PROVE  JournalInv'
<1>1. Follows'
  BY DEF JournalInv, Follows, Last, Left
<1>2. CopiesHead'
  BY DEF JournalInv, CopiesHead
<1> QED BY <1>1, <1>2 DEF JournalInv

(* A writer keeps to its key and its content.                                *)
LEMMA Keeps ==
  ASSUME ObjectInv, NEW w \in Bucket!Writers, Bucket!Publishes(w), ~Bucket!Fails(w)
  PROVE  /\ UNCHANGED <<journals, migration>>
         /\ pub'["migration"].phase # "idle" =>
              /\ pub["migration"].phase # "idle" /\ pub'["migration"].key = pub["migration"].key
              /\ pub'["migration"].content = pub["migration"].content
<1>1. UNCHANGED <<journals, migration>>
  BY DEF Bucket!Publishes, Bucket!Inspect, Bucket!HeadArtifact, Bucket!HeadManifest,
    Bucket!VerifyArtifact, Bucket!PutArtifact, Bucket!PutManifest, Bucket!PutObject, Bucket!Reread,
    Bucket!InspectAgain, Bucket!PutDescriptor, Bucket!ReadBack, Bucket!Repeat, Bucket!Only, Bucket!Quiet
<1>2. pub[w].phase # "idle"
  BY DEF Bucket!Publishes, Bucket!Inspect, Bucket!HeadArtifact, Bucket!HeadManifest,
    Bucket!VerifyArtifact, Bucket!PutArtifact, Bucket!PutManifest, Bucket!PutObject, Bucket!Reread,
    Bucket!InspectAgain, Bucket!PutDescriptor, Bucket!ReadBack, Bucket!Repeat, Bucket!In
<1>3. PICK r : r = pub[w] /\ IsPub(r)
  BY DEF ObjectInv, PubTypes
<1>4. \E q : pub' = [pub EXCEPT ![w] = q] /\ q.key = r.key /\ q.content = r.content
  <2>1. ASSUME NEW phase, Bucket!Goes(w, phase)
        PROVE  \E q : pub' = [pub EXCEPT ![w] = q] /\ q.key = r.key /\ q.content = r.content
    <3>1. PICK q : q = [r EXCEPT !.phase = phase]
      OBVIOUS
    <3>2. q.key = r.key /\ q.content = r.content
      BY <1>3, <3>1 DEF IsPub
    <3> QED BY <1>3, <2>1, <3>1, <3>2 DEF Bucket!Goes
  <2>2. ASSUME NEW phase, NEW path \in {"artifact", "manifest", "reference"}, NEW value,
               pub' = [pub EXCEPT ![w].phase = phase, ![w][path] = value]
        PROVE  \E q : pub' = [pub EXCEPT ![w] = q] /\ q.key = r.key /\ q.content = r.content
    <3>1. PICK q : q = [r EXCEPT !.phase = phase, ![path] = value]
      OBVIOUS
    <3>2. q.key = r.key /\ q.content = r.content
      BY <1>3, <3>1 DEF IsPub
    <3> QED BY <1>3, <2>2, <3>1, <3>2
  <2>3. ASSUME NEW phase, NEW path \in {"artifact", "manifest", "reference"}, NEW value,
               pub' = [pub EXCEPT ![w].phase = phase, ![w].attempts = 1, ![w][path] = value]
        PROVE  \E q : pub' = [pub EXCEPT ![w] = q] /\ q.key = r.key /\ q.content = r.content
    <3>1. PICK q : q = [r EXCEPT !.phase = phase, !.attempts = 1, ![path] = value]
      OBVIOUS
    <3>2. q.key = r.key /\ q.content = r.content
      BY <1>3, <3>1 DEF IsPub
    <3> QED BY <1>3, <2>3, <3>1, <3>2
  <2>4. ASSUME Bucket!ReadBack(w) \/ Bucket!Repeat(w)
        PROVE  \E q : pub' = [pub EXCEPT ![w] = q] /\ q.key = r.key /\ q.content = r.content
    <3>1. PICK q : \/ Bucket!ReadBack(w) /\ q = [r EXCEPT !.phase = "published", !.created = TRUE]
                   \/ Bucket!Repeat(w) /\ q = [r EXCEPT !.attempts = r.attempts + 1]
      BY <2>4
    <3>2. q.key = r.key /\ q.content = r.content
      BY <1>3, <3>1 DEF IsPub
    <3>3. pub' = [pub EXCEPT ![w] = q]
      BY <1>3, <3>1 DEF Bucket!ReadBack, Bucket!Repeat
    <3> QED BY <3>2, <3>3
  <2>5. ASSUME NEW phase, Bucket!Settle(w, phase)
        PROVE  \E q : pub' = [pub EXCEPT ![w] = q] /\ q.key = r.key /\ q.content = r.content
    <3>1. PICK value : \/ Bucket!Goes(w, phase)
                       \/ pub' = [pub EXCEPT ![w].phase = "published", ![w]["reference"] = value]
      BY <2>5 DEF Bucket!Settle
    <3> QED BY <2>1, <2>2, <3>1
  <2>6. ASSUME NEW path \in {"artifact", "manifest"}, NEW a, NEW b, NEW c,
               Bucket!PutObject(w, path, a, b, c)
        PROVE  \E q : pub' = [pub EXCEPT ![w] = q] /\ q.key = r.key /\ q.content = r.content
    BY <2>1, <2>3, <2>6 DEF Bucket!PutObject
  <2>7. ASSUME Bucket!HeadArtifact(w) \/ Bucket!HeadManifest(w)
        PROVE  \E q : pub' = [pub EXCEPT ![w] = q] /\ q.key = r.key /\ q.content = r.content
    BY <2>2, <2>7 DEF Bucket!HeadArtifact, Bucket!HeadManifest
  <2>8. ASSUME Bucket!PutDescriptor(w)
        PROVE  \E q : pub' = [pub EXCEPT ![w] = q] /\ q.key = r.key /\ q.content = r.content
    BY <2>3, <2>8 DEF Bucket!PutDescriptor
  <2>9. ASSUME Bucket!VerifyArtifact(w) \/ Bucket!Reread(w)
        PROVE  \E q : pub' = [pub EXCEPT ![w] = q] /\ q.key = r.key /\ q.content = r.content
    BY <2>1, <2>9 DEF Bucket!VerifyArtifact, Bucket!Reread
  <2> QED
    BY <2>4, <2>5, <2>6, <2>7, <2>8, <2>9
    DEF Bucket!Publishes, Bucket!Inspect, Bucket!InspectAgain, Bucket!PutArtifact, Bucket!PutManifest
<1>5. PICK q : pub' = [pub EXCEPT ![w] = q] /\ q.key = r.key /\ q.content = r.content
  BY <1>4
<1>6. pub'[w] = q /\ \A x \in Bucket!Writers : x # w => pub'[x] = pub[x]
  BY <1>5 DEF ObjectInv, PubTypes
<1> QED BY <1>1, <1>2, <1>3, <1>5, <1>6 DEF Bucket!Writers

-----------------------------------------------------------------------------
(* A migration starts: its journal is new.                                   *)
LEMMA JournalBegins ==
  ASSUME ObjectInv, JournalInv, NEW pinned \in BOOLEAN, NEW seeds \in BOOLEAN,
         Bucket!Migrate(pinned, seeds)
  PROVE  JournalInv'
<1>1. PICK left \in IF seeds THEN Bucket!Preflights \ {<<>>} ELSE {Plan} :
        migration' = [phase |-> IF seeds THEN "preflight" ELSE "copy", left |-> left,
                      pinned |-> IF pinned THEN origin ELSE Null, seeds |-> seeds]
  BY DEF Bucket!Migrate
<1>2. PICK j : j = [seeds |-> seeds, receipts |-> <<>>]
  OBVIOUS
<1>3. j \in Journals /\ j.receipts = <<>> /\ j.seeds = seeds
  BY <1>2 DEF Journals
<1>4. journals' = Append(journals, j) /\ UNCHANGED pub /\ pub["migration"].phase = "idle"
  BY <1>2 DEF Bucket!Migrate, Bucket!In
<1>5. /\ journals' \in Seq(Journals) /\ journals' # <<>> /\ Last' = j
      /\ \A i \in 1 .. Len(journals') : journals'[i] = j \/ (i \in 1 .. Len(journals) /\ journals'[i] = journals[i])
  <2>1. /\ journals' \in Seq(Journals) /\ Len(journals') = Len(journals) + 1 /\ Len(journals) \in Nat
        /\ journals'[Len(journals) + 1] = j
        /\ \A i \in 1 .. Len(journals) : journals'[i] = journals[i]
    BY <1>3, <1>4 DEF JournalInv
  <2>2. Len(<<>>) = 0
    OBVIOUS
  <2> QED BY <2>1, <2>2 DEF Last
<1>6. \A event, k : ~Has(j, event, k)
  BY <1>3 DEF Has
<1>7. IsTrue(j)
  BY <1>3, <1>6 DEF IsTrue
<1>8. \A i \in 1 .. Len(journals') : IsTrue(journals'[i])
  BY <1>5, <1>7 DEF JournalInv
<1>9. /\ migration'.phase = IF seeds THEN "preflight" ELSE "copy"
      /\ migration'.left = left /\ migration'.seeds = seeds
  BY <1>1
<1>10. CASE seeds
  <2>1. /\ left # <<>> /\ \A i \in 1 .. Len(left) : Bucket!Terminal(left[i])
        /\ \A k \in Bucket!Keys : Bucket!Terminal(k) => \E i \in 1 .. Len(left) : left[i] = k
    BY <1>1, <1>10, PreflightIs
  <2>2. Follows'
    BY <1>3, <1>5, <1>6, <1>9, <1>10, <2>1 DEF Follows, Left
  <2> QED BY <1>4, <1>5, <1>8, <1>9, <1>10, <2>2 DEF JournalInv, CopiesHead
<1>11. CASE ~seeds
  <2>1. \A k \in Bucket!Keys : \E i \in 1 .. Len(left) : left[i] = k
    BY <1>1, <1>11, Planned
  <2>2. Follows'
    BY <1>3, <1>5, <1>6, <1>9, <1>11, <2>1 DEF Follows, Left
  <2> QED BY <1>4, <1>5, <1>8, <1>9, <1>11, <2>2 DEF JournalInv, CopiesHead
<1> QED BY <1>10, <1>11

-----------------------------------------------------------------------------
(* A receipt, and what is left to do.                                        *)
LEMMA EntryIs ==
  ASSUME NEW r, r = [event |-> r.event, key |-> r.key, content |-> r.content,
                     reference |-> r.reference, created |-> r.created],
         r.event \in Events, r.key \in Bucket!Keys \cup {Null}, r.content \in Contents \cup {Null},
         r.reference \in References \cup {Null}, r.created \in BOOLEAN
  PROVE  r \in Entries
BY DEF Entries

(* The head of what is left is done.                                         *)
LEMMA LeftIs ==
  ASSUME SourceTypes, migration.left # <<>>, NEW m, migration' = m, m.left = Tail(migration.left)
  PROVE  /\ Left(Head(migration.left))
         /\ \A q : Left(q) => q = Head(migration.left) \/ Left(q)'
         /\ \A q : Left(q)' => Left(q)
<1>1. PICK s, t, k : s = migration.left /\ t = Tail(migration.left) /\ k = Head(migration.left)
  OBVIOUS
<1>2. s \in Seq(Bucket!Keys) /\ s # <<>> /\ k = s[1] /\ 1 \in 1 .. Len(s)
  BY <1>1 DEF SourceTypes
<1>3. /\ \A i \in 1 .. Len(s) : s[i] = k \/ \E j \in 1 .. Len(t) : t[j] = s[i]
      /\ \A j \in 1 .. Len(t) : \E i \in 1 .. Len(s) : t[j] = s[i]
  BY <1>1, Shorter
<1>4. migration'.left = t
  BY <1>1
<1>5. \A q : Left(q) <=> \E i \in 1 .. Len(s) : s[i] = q
  BY <1>1 DEF Left
<1>6. \A q : Left(q)' <=> \E i \in 1 .. Len(t) : t[i] = q
  BY <1>4 DEF Left
<1>7. Left(k)
  BY <1>2, <1>5
<1>8. ASSUME NEW q, Left(q) PROVE q = k \/ Left(q)'
  BY <1>3, <1>5, <1>6, <1>8
<1>9. ASSUME NEW q, Left(q)' PROVE Left(q)
  BY <1>3, <1>5, <1>6, <1>9
<1> QED BY <1>1, <1>7, <1>8, <1>9

(* The seed of a chain is there.                                             *)
LEMMA SeedSeen == ASSUME ObjectInv, JournalInv, Bucket!Preflight PROVE JournalInv'
<1>1. PICK k, c, r : /\ k = Head(migration.left) /\ c = Bucket!SourceOf(k)
                     /\ r = Bucket!Receipt("terminal_verified", k, c)
  OBVIOUS
<1>2. /\ migration.phase = "preflight" /\ migration.seeds /\ migration.left # <<>>
      /\ journals # <<>> /\ Last.seeds /\ journals \in Seq(Journals)
  BY DEF Bucket!Preflight, JournalInv, Follows
<1>3. k \in Bucket!Keys /\ Bucket!Terminal(k)
  <2>1. 1 \in 1 .. Len(migration.left) /\ migration.left[1] = k
    BY <1>1, <1>2 DEF ObjectInv, SourceTypes
  <2>2. Left(k)
    BY <2>1 DEF Left
  <2> QED BY <1>1, <1>2, <2>2, Shorter DEF ObjectInv, JournalInv, Follows
<1>4. c \in Contents \cup {Null}
  BY <1>1, <1>3 DEF Bucket!SourceOf, ObjectInv, SourceTypes
<1>5. r \in Entries /\ r.event = "terminal_verified" /\ r.key = k
  <2>1. r = [event |-> "terminal_verified", key |-> k, content |-> c, reference |-> Null, created |-> FALSE]
    BY <1>1 DEF Bucket!Receipt
  <2>2. /\ r = [event |-> r.event, key |-> r.key, content |-> r.content,
                reference |-> r.reference, created |-> r.created]
        /\ r.event = "terminal_verified" /\ r.key = k /\ r.content = c
        /\ r.reference = Null
    BY <2>1
  <2>3. r.created \in BOOLEAN
    BY <2>1
  <2>4. r.event \in Events
    BY <2>2 DEF Events
  <2> QED BY <1>3, <1>4, <2>2, <2>3, <2>4, EntryIs
<1>6. Bucket!Records(r)
  BY <1>1 DEF Bucket!Preflight
<1>7. \A i \in 1 .. Len(journals)' : IsTrue(journals'[i])
  BY <1>2, <1>3, <1>5, <1>6, RecordedTrue
<1>8. \A event, q : Has(Last, event, q)' <=> Has(Last, event, q) \/ (r.event = event /\ r.key = q)
  BY <1>2, <1>5, <1>6, RecordedHas
<1>9. journals' \in Seq(Journals) /\ journals' # <<>> /\ Last'.seeds
  BY <1>2, <1>5, <1>6, Recorded
<1>10. UNCHANGED pub /\ pub["migration"].phase = "idle"
  BY <1>2 DEF Bucket!Preflight, ObjectInv, Copies
<1>11. PICK m : /\ m = migration' /\ m = IF Len(migration.left) > 1
                                         THEN [migration EXCEPT !.left = Tail(migration.left)]
                                         ELSE [migration EXCEPT !.phase = "copy", !.left = Plan]
  BY DEF Bucket!Preflight
<1>12. /\ m.seeds = migration.seeds
       /\ Len(migration.left) > 1 => m.phase = "preflight" /\ m.left = Tail(migration.left)
       /\ ~(Len(migration.left) > 1) => m.phase = "copy" /\ m.left = Plan
  BY <1>2, <1>11 DEF ObjectInv, SourceTypes
<1>13. /\ \A q \in Bucket!Keys : Bucket!Terminal(q) => Left(q) \/ Has(Last, "terminal_verified", q)
       /\ \A q : Left(q) => Bucket!Terminal(q)
       /\ \A q : ~Has(Last, "copied", q)
  BY <1>2 DEF JournalInv, Follows
<1>14. Follows'
  <2>1. CASE Len(migration.left) > 1
    <3>1. Tail(migration.left) # <<>>
      BY <1>2, <2>1, Shorter DEF ObjectInv
    <3>2. \A q : (Left(q) => q = k \/ Left(q)') /\ (Left(q)' => Left(q))
      BY <1>1, <1>2, <1>11, <1>12, <2>1, LeftIs DEF ObjectInv
    <3> QED
      BY <1>2, <1>5, <1>8, <1>9, <1>11, <1>12, <1>13, <2>1, <3>1, <3>2 DEF Follows
  <2>2. CASE ~(Len(migration.left) > 1)
    <3>1. Len(migration.left) =< 1
      BY <2>2 DEF ObjectInv, SourceTypes
    <3>2. \A q : Left(q) => q = k
      BY <1>1, <1>2, <3>1, Shorter DEF ObjectInv, Left
    <3>3. \A q \in Bucket!Keys : Left(q)'
      BY <1>11, <1>12, <2>2, Planned DEF Left
    <3> QED
      BY <1>2, <1>5, <1>8, <1>9, <1>11, <1>12, <1>13, <2>2, <3>2, <3>3 DEF Follows
  <2> QED BY <2>1, <2>2
<1> QED
  BY <1>7, <1>9, <1>10, <1>11, <1>12, <1>14 DEF JournalInv, CopiesHead

(* A key of the plan is missing, or copied.                                  *)
LEMMA KeyDone ==
  ASSUME ObjectInv, JournalInv, migration.phase = "copy", migration.left # <<>>,
         NEW r \in Entries, r.key = Head(migration.left), r.event \in {"missing", "copied"},
         Bucket!Records(r), migration' = [migration EXCEPT !.left = Tail(migration.left)],
         r.event = "copied" /\ migration.seeds /\ Bucket!Terminal(r.key) => r.content.checkpoint,
         pub'["migration"].phase = "idle"
  PROVE  JournalInv'
<1>1. journals # <<>> /\ journals \in Seq(Journals) /\ Last.seeds = migration.seeds
  BY DEF JournalInv, Follows
<1>2. r.key \in Bucket!Keys
  BY Shorter DEF ObjectInv
<1>3. \A i \in 1 .. Len(journals)' : IsTrue(journals'[i])
  <2>1. migration.seeds => \A k \in Bucket!Keys : Bucket!Terminal(k) => Has(Last, "terminal_verified", k)
    BY DEF JournalInv, Follows
  <2>2. r.event # "terminal_verified" /\ r.event # "complete"
    OBVIOUS
  <2> QED BY <1>1, <1>2, <2>1, <2>2, RecordedTrue
<1>4. \A event, q : Has(Last, event, q)' <=> Has(Last, event, q) \/ (r.event = event /\ r.key = q)
  BY <1>1, RecordedHas
<1>5. journals' \in Seq(Journals) /\ journals' # <<>> /\ Last'.seeds = Last.seeds
  BY <1>1, Recorded
<1>6. PICK m : m = migration'
  OBVIOUS
<1>7. m.seeds = migration.seeds /\ m.phase = "copy" /\ m.left = Tail(migration.left)
  BY <1>6 DEF ObjectInv, SourceTypes
<1>8. \A q : Left(q) => q = r.key \/ Left(q)'
  BY <1>6, <1>7, LeftIs DEF ObjectInv
<1>9. Follows'
  <2>1. /\ migration.seeds =>
             \A k \in Bucket!Keys : Bucket!Terminal(k) => Has(Last, "terminal_verified", k)
        /\ \A k \in Bucket!Keys : Left(k) \/ Has(Last, "copied", k) \/ \E q : Has(Last, "missing", q)
    BY DEF JournalInv, Follows
  <2>2. ASSUME NEW k \in Bucket!Keys
        PROVE  Left(k)' \/ Has(Last, "copied", k)' \/ \E q : Has(Last, "missing", q)'
    BY <1>4, <1>8, <2>1
  <2> QED BY <1>1, <1>4, <1>5, <1>6, <1>7, <2>1, <2>2 DEF Follows
<1> QED BY <1>3, <1>5, <1>6, <1>7, <1>9 DEF JournalInv, CopiesHead

LEMMA KeyMissing == ASSUME ObjectInv, JournalInv, Bucket!StillMissing PROVE JournalInv'
<1>1. PICK k, r : k = Head(migration.left) /\ r = Bucket!Receipt("missing", k, Null)
  OBVIOUS
<1>2. /\ migration.phase = "copy" /\ migration.left # <<>> /\ Bucket!Records(r)
      /\ migration' = [migration EXCEPT !.left = Tail(migration.left)]
      /\ pub'["migration"].phase = "idle"
  BY <1>1 DEF Bucket!StillMissing, Bucket!In
<1>3. k \in Bucket!Keys
  BY <1>1, <1>2, Shorter DEF ObjectInv
<1>4. r \in Entries /\ r.event = "missing" /\ r.key = Head(migration.left)
  <2>1. r = [event |-> "missing", key |-> k, content |-> Null, reference |-> Null, created |-> FALSE]
    BY <1>1 DEF Bucket!Receipt
  <2>2. /\ r = [event |-> r.event, key |-> r.key, content |-> r.content,
                reference |-> r.reference, created |-> r.created]
        /\ r.event = "missing" /\ r.key = k /\ r.content = Null
        /\ r.reference = Null
    BY <2>1
  <2>3. r.created \in BOOLEAN
    BY <2>1
  <2>4. r.event \in Events
    BY <2>2 DEF Events
  <2> QED BY <1>1, <1>3, <2>2, <2>3, <2>4, EntryIs
<1> QED BY <1>2, <1>4, KeyDone

LEMMA KeyCopied == ASSUME ObjectInv, JournalInv, Bucket!Copied PROVE JournalInv'
<1>1. PICK p, b, r : /\ p = pub["migration"] /\ b = Bucket!Receipt("copied", p.key, p.content)
                     /\ r = [b EXCEPT !.reference = p.reference, !.created = p.created]
  OBVIOUS
<1>2. /\ p.phase = "published" /\ Bucket!Records(r) /\ pub' = [pub EXCEPT !["migration"] = Bucket!NoPub]
      /\ migration' = [migration EXCEPT !.left = Tail(migration.left)]
  BY <1>1 DEF Bucket!Copied, Bucket!In
<1>3. IsPub(p)
  BY <1>1 DEF ObjectInv, PubTypes, Bucket!Writers
<1>4. p.key \in Bucket!Keys /\ p.content \in Contents /\ p.reference \in References /\ p.created \in BOOLEAN
  BY <1>2, <1>3 DEF IsPub
<1>5. /\ migration.phase = "copy" /\ migration.left # <<>> /\ p.key = Head(migration.left)
      /\ migration.seeds /\ Bucket!Terminal(p.key) => p.content.checkpoint
  BY <1>1, <1>2 DEF ObjectInv, Copies, JournalInv, CopiesHead
<1>6. r = [event |-> "copied", key |-> p.key, content |-> p.content, reference |-> p.reference,
           created |-> p.created]
  BY <1>1 DEF Bucket!Receipt
<1>7. r \in Entries /\ r.event = "copied" /\ r.key = p.key /\ r.content = p.content
  <2>1. /\ r = [event |-> r.event, key |-> r.key, content |-> r.content,
                reference |-> r.reference, created |-> r.created]
        /\ r.event = "copied" /\ r.key = p.key /\ r.content = p.content
        /\ r.reference = p.reference
    BY <1>6
  <2>2. r.created \in BOOLEAN
    BY <1>4, <1>6
  <2>3. r.event \in Events
    BY <2>1 DEF Events
  <2> QED BY <1>4, <2>1, <2>2, <2>3, EntryIs
<1>8. pub'["migration"].phase = "idle"
  BY <1>2 DEF ObjectInv, PubTypes, Bucket!Writers, Bucket!NoPub
<1> QED BY <1>2, <1>5, <1>7, <1>8, KeyDone

LEMMA RunDone == ASSUME ObjectInv, JournalInv, Bucket!Summarise PROVE JournalInv'
<1>1. migration.phase = "copy" /\ migration.left = <<>> /\ migration' = Bucket!NoRun /\ UNCHANGED pub
  BY DEF Bucket!Summarise
<1>2. migration'.phase = "idle" /\ pub'["migration"].phase = "idle"
  BY <1>1 DEF Bucket!NoRun, ObjectInv, Copies
<1>3. journals # <<>> /\ journals \in Seq(Journals)
  BY <1>1 DEF JournalInv, Follows
<1>4. CASE Bucket!Complete
  <2>1. PICK r : r = Bucket!Receipt("complete", Null, Null)
    OBVIOUS
  <2>2. r \in Entries /\ r.event = "complete" /\ Bucket!Records(r)
    <3>1. r = [event |-> "complete", key |-> Null, content |-> Null, reference |-> Null, created |-> FALSE]
      BY <2>1 DEF Bucket!Receipt
    <3>2. /\ r = [event |-> r.event, key |-> r.key, content |-> r.content,
                  reference |-> r.reference, created |-> r.created]
          /\ r.event = "complete" /\ r.key = Null /\ r.content = Null
          /\ r.reference = Null
      BY <3>1
    <3>3. r.created \in BOOLEAN
      BY <3>1
    <3>4. r.event \in Events
      BY <3>2 DEF Events
    <3>5. r \in Entries
      BY <3>2, <3>3, <3>4, EntryIs
    <3> QED BY <1>4, <2>1, <3>2, <3>5 DEF Bucket!Summarise
  <2>3. \A q : ~Has(Last, "missing", q)
    <3>1. PICK s : s = Last.receipts
      OBVIOUS
    <3>2. s \in Seq(Entries)
      <4>1. Len(journals) \in 1 .. Len(journals)
        BY <1>3
      <4>2. Last \in Journals
        BY <1>3, <4>1 DEF Last
      <4> QED BY <3>1, <4>2 DEF Journals
    <3>3. {x \in Bucket!Range(s) : x.event = "missing"} = {}
      BY <1>4, <3>1 DEF Bucket!Complete, Bucket!Receipts, Bucket!Journal, Last
    <3>4. \A i \in 1 .. Len(s) : s[i] \in Bucket!Range(s)
      BY <3>2 DEF Bucket!Range
    <3> QED BY <3>1, <3>3, <3>4 DEF Has
  <2>4. \A k \in Bucket!Keys : Has(Last, "copied", k)
    BY <1>1, <2>3 DEF JournalInv, Follows, Left
  <2>5. \A i \in 1 .. Len(journals)' : IsTrue(journals'[i])
    BY <1>3, <2>2, <2>4, RecordedTrue
  <2>6. journals' \in Seq(Journals)
    BY <1>3, <2>2, Recorded
  <2> QED BY <1>2, <2>5, <2>6 DEF JournalInv, Follows, CopiesHead
<1>5. CASE ~Bucket!Complete
  <2>1. UNCHANGED journals
    BY <1>5 DEF Bucket!Summarise
  <2> QED BY <1>2, <2>1 DEF JournalInv, Follows, CopiesHead
<1> QED BY <1>4, <1>5

(* A copy starts at the head of what is left.                                *)
LEMMA CopyBegins == ASSUME ObjectInv, JournalInv, Bucket!Copy PROVE JournalInv'
<1>1. PICK k, c, p : k = Head(migration.left) /\ c = Bucket!SourceOf(k) /\ p = Bucket!Started(k, c)
  OBVIOUS
<1>2. /\ UNCHANGED <<journals, migration>> /\ pub' = [pub EXCEPT !["migration"] = p]
      /\ migration.seeds /\ Bucket!Terminal(k) => c.checkpoint
  BY <1>1 DEF Bucket!Copy, Bucket!Admissible
<1>3. p.key = k /\ p.content = c
  BY <1>1 DEF Bucket!Started, Bucket!NoPub
<1>4. pub'["migration"] = p
  BY <1>2 DEF ObjectInv, PubTypes, Bucket!Writers
<1>5. Follows'
  BY <1>2 DEF JournalInv, Follows, Last, Left
<1>6. CopiesHead'
  BY <1>1, <1>2, <1>3, <1>4 DEF CopiesHead
<1> QED BY <1>2, <1>5, <1>6 DEF JournalInv

LEMMA JournalGivesUp ==
  ASSUME ObjectInv, JournalInv, NEW w \in Bucket!Writers, Bucket!Fails(w) PROVE JournalInv'
<1>1. pub' = [pub EXCEPT ![w] = Bucket!NoPub] /\ UNCHANGED journals
  BY DEF Bucket!Fails
<1>2. pub'[w].phase = "idle" /\ \A x \in Bucket!Writers : x # w => pub'[x] = pub[x]
  BY <1>1 DEF Bucket!NoPub, ObjectInv, PubTypes
<1>3. CASE w = "migration"
  <2>1. migration'.phase = "idle"
    BY <1>3 DEF Bucket!Fails, Bucket!NoRun
  <2> QED BY <1>1, <1>2, <1>3, <2>1 DEF JournalInv, Follows, CopiesHead
<1>4. CASE w = "worker"
  <2>1. UNCHANGED migration /\ pub'["migration"] = pub["migration"]
    BY <1>2, <1>4 DEF Bucket!Fails, Bucket!Writers
  <2> QED BY <1>1, <2>1, JournalRests
<1> QED BY <1>3, <1>4 DEF Bucket!Writers

(* The worker, and whoever else changes the bucket or its source, leave the   *)
(* migration alone.                                                          *)
LEMMA Apart ==
  ASSUME ObjectInv,
         \/ \E k \in Chained : Bucket!Look(k) \/ \E c \in Contents : Bucket!WorkerStarts(k, c)
         \/ \E k \in Bucket!Keys : \/ \E c \in Contents : Bucket!Change(k, c)
                                   \/ \E path \in DOMAIN object[k] :
                                        \E v \in DOMAIN object[k][path] : Bucket!Delete(k, path, v)
         \/ Bucket!WorkerTakes \/ Bucket!NewGeneration \/ UNCHANGED Bucket!vars
  PROVE  UNCHANGED <<journals, migration>> /\ pub'["migration"] = pub["migration"]
<1>1. ASSUME NEW p, pub' = [pub EXCEPT !["worker"] = p] PROVE pub'["migration"] = pub["migration"]
  BY <1>1 DEF ObjectInv, PubTypes, Bucket!Writers
<1>2. ASSUME NEW k, Bucket!Look(k)
      PROVE  UNCHANGED <<journals, migration>> /\ pub'["migration"] = pub["migration"]
  BY <1>2 DEF Bucket!Look, Bucket!Looks
<1>3. ASSUME NEW k, NEW c, Bucket!WorkerStarts(k, c)
      PROVE  UNCHANGED <<journals, migration>> /\ pub'["migration"] = pub["migration"]
  BY <1>1, <1>3 DEF Bucket!WorkerStarts
<1>4. ASSUME NEW k, NEW c, Bucket!Change(k, c)
      PROVE  UNCHANGED <<journals, migration>> /\ pub'["migration"] = pub["migration"]
  BY <1>4 DEF Bucket!Change
<1>5. ASSUME NEW k, NEW path, NEW v, Bucket!Delete(k, path, v)
      PROVE  UNCHANGED <<journals, migration>> /\ pub'["migration"] = pub["migration"]
  BY <1>5 DEF Bucket!Delete
<1>6. ASSUME Bucket!WorkerTakes
      PROVE  UNCHANGED <<journals, migration>> /\ pub'["migration"] = pub["migration"]
  BY <1>1, <1>6 DEF Bucket!WorkerTakes
<1>7. ASSUME Bucket!NewGeneration \/ UNCHANGED Bucket!vars
      PROVE  UNCHANGED <<journals, migration>> /\ pub'["migration"] = pub["migration"]
  BY <1>7 DEF Bucket!NewGeneration, Bucket!vars
<1> QED BY <1>2, <1>3, <1>4, <1>5, <1>6, <1>7

LEMMA JournalSteps == ObjectInv /\ JournalInv /\ [Bucket!Next]_Bucket!vars => JournalInv'
<1> SUFFICES ASSUME ObjectInv, JournalInv, [Bucket!Next]_Bucket!vars PROVE JournalInv'
  OBVIOUS
<1>1. ASSUME NEW w \in Bucket!Writers, Bucket!Publishes(w) PROVE JournalInv'
  <2>1. CASE Bucket!Fails(w)
    BY <2>1, JournalGivesUp
  <2>2. CASE ~Bucket!Fails(w)
    <3>1. /\ UNCHANGED <<journals, migration>>
          /\ pub'["migration"].phase # "idle" =>
               /\ pub["migration"].phase # "idle" /\ pub'["migration"].key = pub["migration"].key
               /\ pub'["migration"].content = pub["migration"].content
      BY <1>1, <2>2, Keeps
    <3> QED BY <3>1, JournalRests
  <2> QED BY <2>1, <2>2
<1>2. ASSUME UNCHANGED <<journals, migration>> /\ pub'["migration"] = pub["migration"] PROVE JournalInv'
  BY <1>2, JournalRests
<1>3. ASSUME NEW pinned \in BOOLEAN, NEW seeds \in BOOLEAN, Bucket!Migrate(pinned, seeds)
      PROVE  JournalInv'
  BY <1>3, JournalBegins
<1> QED
  BY <1>1, <1>2, <1>3, Apart, SeedSeen, KeyMissing, KeyCopied, RunDone, CopyBegins DEF Bucket!Next

-----------------------------------------------------------------------------
LEMMA NothingRemembered == Bucket!Init => Remembers
BY DEF Bucket!Init, Remembers

(* What the invariants say.                                                  *)
LEMMA AtMostOne ==
  ASSUME NEW S, NEW x, S \subseteq {x} PROVE Bucket!Cardinality(S) =< 1
<1>1. S = {} \/ S = {x}
  OBVIOUS
<1>2. Cardinality(S) =< 1
  <2>1. CASE S = {}
    BY <2>1, FS_EmptySet
  <2>2. CASE S = {x}
    BY <2>2, FS_Singleton
  <2> QED BY <1>1, <2>1, <2>2
<1>3. Bucket!Cardinality(S) = Cardinality(S)
  BY CountedKeys
<1> QED BY <1>2, <1>3

LEMMA SaysPinned == ASSUME ObjectInv PROVE Bucket!PinnedIsPublished
<1>1. ASSUME NEW k \in Bucket!Keys, NEW d \in DOMAIN object[k].descriptor,
             NEW p, p = Bucket!At(k, "descriptor", d), p # Lost
      PROVE  /\ p.artifact \in DOMAIN object[k].artifact /\ p.manifest \in DOMAIN object[k].manifest
             /\ Lost \in {Bucket!At(k, "artifact", p.artifact), Bucket!At(k, "manifest", p.manifest)}
                  \/ Bucket!Reads(k, p) # {}
  <2>1. d \in 1 .. Len(object[k]["descriptor"]) /\ p = object[k]["descriptor"][d]
    BY <1>1 DEF ObjectInv, ObjectTypes, Paths, Bucket!At
  <2>2. PICK c \in Contents : Pins(k, p, c)
    BY <1>1, <2>1 DEF ObjectInv, Pinned
  <2>3. p.artifact \in DOMAIN object[k].artifact /\ p.manifest \in DOMAIN object[k].manifest
    BY <2>2 DEF Pins, Is, ObjectInv, ObjectTypes, Paths
  <2>4. /\ Bucket!At(k, "artifact", p.artifact) \in {c, Lost}
        /\ Bucket!At(k, "manifest", p.manifest) \in {c, Lost}
    BY <2>2 DEF Pins, Is, Bucket!At
  <2>5. c # Lost
    BY BucketAssumption
  <2> QED BY <2>3, <2>4, <2>5 DEF Bucket!Reads
<1>2. ASSUME NEW r \in results
      PROVE  {Bucket!At(r.key, "artifact", r.reference.publication.artifact),
              Bucket!At(r.key, "manifest", r.reference.publication.manifest)} \subseteq {r.content, Lost}
  BY DEF ObjectInv, Known, Returns, Pins, Is, Bucket!At
<1> QED BY <1>1, <1>2 DEF Bucket!PinnedIsPublished

LEMMA SaysOneContent == ASSUME ObjectInv PROVE Bucket!OneContentPerKey
<1> SUFFICES ASSUME exclusive, NEW k \in Bucket!Keys
             PROVE  Bucket!Cardinality((Bucket!Range(object[k].artifact)
                                          \union Bucket!Range(object[k].manifest)) \ {Lost}) =< 1
  BY DEF Bucket!OneContentPerKey, ObjectInv, Single
<1>1. PICK c \in Contents \cup {Null} : Only(k, "artifact", {c}) /\ Only(k, "manifest", {c})
  BY DEF ObjectInv, Single, OneContent
<1>2. ASSUME NEW path \in {"artifact", "manifest"}, NEW x \in Bucket!Range(object[k][path])
      PROVE  x \in {c, Lost}
  <2>1. DOMAIN object[k][path] = 1 .. Len(object[k][path])
    BY DEF ObjectInv, ObjectTypes, Paths
  <2>2. PICK v \in DOMAIN object[k][path] : x = object[k][path][v]
    BY <1>2 DEF Bucket!Range
  <2> QED BY <1>1, <2>1, <2>2 DEF Only
<1>3. (Bucket!Range(object[k].artifact) \union Bucket!Range(object[k].manifest)) \ {Lost} \subseteq {c}
  BY <1>2
<1> QED BY <1>3, AtMostOne

LEMMA SaysAgrees == ASSUME Remembers PROVE Bucket!GenerationAgrees
<1>1. \A k \in Chained : \E x : seen[k] \subseteq {x}
  BY DEF Remembers
<1> QED BY <1>1, AtMostOne DEF Bucket!GenerationAgrees

LEMMA SaysJournal == ASSUME JournalInv PROVE Bucket!JournalIsTrue
<1>1. SUFFICES ASSUME NEW j \in Bucket!Range(journals), NEW copied, NEW verified,
                      copied = Bucket!Receipts(j, "copied"),
                      verified = Bucket!Receipts(j, "terminal_verified")
               PROVE  /\ Bucket!Receipts(j, "complete") # {} => {r.key : r \in copied} = Bucket!Keys
                      /\ j.seeds /\ copied # {} =>
                           /\ {k \in Bucket!Keys : Bucket!Terminal(k)} = {r.key : r \in verified}
                           /\ \A r \in copied : Bucket!Terminal(r.key) => r.content.checkpoint
  BY DEF Bucket!JournalIsTrue
<1>2. PICK i \in 1 .. Len(journals) : j = journals[i]
  BY <1>1 DEF Bucket!Range, JournalInv
<1>3. IsTrue(j) /\ j.receipts \in Seq(Entries)
  <2>1. j \in Journals /\ IsTrue(j)
    BY <1>2 DEF JournalInv
  <2> QED BY <2>1 DEF Journals
<1>4. PICK s : s = j.receipts
  OBVIOUS
<1>5. \A x : x \in Bucket!Range(s) <=> \E n \in 1 .. Len(s) : x = s[n]
  BY <1>3, <1>4 DEF Bucket!Range
<1>6. \A event, x : x \in Bucket!Receipts(j, event) <=> x.event = event /\ \E n \in 1 .. Len(s) : x = s[n]
  BY <1>4, <1>5 DEF Bucket!Receipts
<1>7. \A event, k : Has(j, event, k) <=> \E x \in Bucket!Receipts(j, event) : x.key = k
  BY <1>4, <1>6 DEF Has
<1>8. Bucket!Receipts(j, "complete") # {} => {r.key : r \in copied} = Bucket!Keys
  <2>1. {r.key : r \in copied} \subseteq Bucket!Keys
    BY <1>1, <1>3, <1>7 DEF IsTrue
  <2>2. ASSUME Bucket!Receipts(j, "complete") # {}, NEW k \in Bucket!Keys
        PROVE  \E x \in copied : x.key = k
    BY <1>1, <1>3, <1>7, <2>2 DEF IsTrue
  <2> QED BY <2>1, <2>2
<1>9. ASSUME j.seeds, copied # {}
      PROVE  {k \in Bucket!Keys : Bucket!Terminal(k)} = {r.key : r \in verified}
  <2>1. \A k \in Bucket!Keys : Bucket!Terminal(k) => \E x \in verified : x.key = k
    BY <1>1, <1>3, <1>7, <1>9, ZenonT(60) DEF IsTrue
  <2>2. \A x \in verified : x.key \in Bucket!Keys /\ Bucket!Terminal(x.key)
    BY <1>1, <1>3, <1>7 DEF IsTrue
  <2> QED BY <2>1, <2>2
<1>10. ASSUME j.seeds, NEW r \in copied, Bucket!Terminal(r.key)
       PROVE  r.content.checkpoint
  BY <1>1, <1>3, <1>4, <1>6, <1>10 DEF IsTrue
<1> QED BY <1>8, <1>9, <1>10

-----------------------------------------------------------------------------
LEMMA BucketHolds == DataSpec => [](ObjectInv /\ Remembers /\ JournalInv)
<1>1. DataInit => ObjectInv /\ Remembers /\ JournalInv
  BY BucketInside, ObjectsStart, NothingRemembered, JournalsStart
<1>2. (ObjectInv /\ Remembers /\ JournalInv) /\ [DataNext]_<<stage, dataVars>> =>
        (ObjectInv /\ Remembers /\ JournalInv)'
  BY BucketInside, ObjectSteps, GenerationSteps, JournalSteps
<1> QED BY <1>1, <1>2, PTL DEF DataSpec

(* What a page may read from the bucket: a reference that a publication of    *)
(* b2_repository returned reads as its content or not at all, whoever else    *)
(* writes and deletes; a single writer leaves one content of a key, also      *)
(* after interrupted publications; the worker reads one and the same content  *)
(* of a key in a generation; and the receipts of b2_migration are true.       *)
THEOREM BucketTellsTheTruth == DataSpec => []BucketIsTruthful
<1>1. ObjectInv /\ Remembers /\ JournalInv => BucketIsTruthful
  BY SaysPinned, SaysOneContent, SaysAgrees, SaysJournal DEF BucketIsTruthful
<1> QED BY <1>1, BucketHolds, PTL
=============================================================================
