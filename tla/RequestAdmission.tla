--------------------------- MODULE RequestAdmission ---------------------------
(***************************************************************************)
(* The requests for archives: downloads of one event loop share a limiter    *)
(* that admits at most `limit` requests in any window of time, and each      *)
(* download tries again after a delay, until it has an answer, no attempts    *)
(* left, or is cancelled.                                                    *)
(*                                                                         *)
(* Whoever has the limiter's lock sleeps with it until the oldest admission   *)
(* expires, and the others wait for the lock in order. A sleep ends at its    *)
(* time or later; the clock does not stop meanwhile.                          *)
(***************************************************************************)
EXTENDS Naturals, Sequences, SequencesExt, FiniteSets

CONSTANTS
    Downloads,
    Limits,       \* what a downloader may be configured for
    Window,       \* the length of the rolling window
    MaxAttempts,  \* of one download
    Backoff,      \* before the second attempt; twice as long before the next
    MaxBackoff,   \* longest delay between two attempts
    Delays,       \* what a server may ask for by Retry-After
    MaxTime,      \* bound: the clock
    None

VARIABLES
    now,
    limit,        \* of the shared limiter
    admissions,   \* the times it remembers
    queue,        \* downloads before its lock; the first of them has it
    sleep,        \* when the holder of the lock wakes, a set of at most one time
    download,     \* each download
    granted       \* all admissions: when, and the limit then

vars == <<now, limit, admissions, queue, sleep, download, granted>>
limiter == <<limit, admissions, queue, sleep>>

Fresh == [phase |-> "new", attempt |-> 1, after |-> 0]

Init ==
    /\ now = 0
    /\ limit = None
    /\ admissions = <<>> /\ queue = <<>> /\ sleep = {}
    /\ download = [d \in Downloads |-> Fresh]
    /\ granted = <<>>

Tick ==
    /\ now < MaxTime
    /\ now' = now + 1
    /\ UNCHANGED <<limiter, download, granted>>

-----------------------------------------------------------------------------
(* The limiter.                                                            *)

LowerOf(a, b) == IF a < b THEN a ELSE b

(* A downloader finds the limiter of the loop, or makes it, at its first       *)
(* attempt; the limit is never raised.                                       *)
Limited(d, l) ==
    CASE limit = None -> l
      [] limit # None /\ download[d].attempt = 1 -> LowerOf(limit, l)
      [] OTHER -> limit

(* Slip: a new downloader configures the limiter anew.                       *)
EnqueueAnew(d, l) ==
    /\ download[d].phase = "new" /\ download[d].after =< now
    /\ limit' = l
    /\ admissions' = IF limit = l THEN admissions ELSE <<>>
    /\ queue' = Append(queue, d)
    /\ download' = [download EXCEPT ![d].phase = "queued"]
    /\ UNCHANGED <<now, sleep, granted>>

(* The delay before an attempt is over.                                     *)
Enqueue(d, l) ==
    /\ download[d].phase = "new" /\ download[d].after =< now
    /\ limit' = Limited(d, l)
    /\ queue' = Append(queue, d)
    /\ download' = [download EXCEPT ![d].phase = "queued"]
    /\ UNCHANGED <<now, admissions, sleep, granted>>

(* An admission leaves the window exactly when it is as old as the window.   *)
Expired(t) == t + Window =< now

(* What is left of the times when the expired ones before the first that is   *)
(* not are dropped.                                                         *)
IsDropped(n, times) ==
    /\ \A i \in 1 .. n : Expired(times[i])
    /\ n < Len(times) => ~Expired(times[n + 1])

Kept(times) ==
    LET n == CHOOSE n \in 0 .. Len(times) : IsDropped(n, times)
    IN  SubSeq(times, n + 1, Len(times))

(* Slip: a sleep that ends is an admission.                                  *)
DecideOnce ==
    LET kept == Kept(admissions)
        d == Head(queue)
    IN  /\ queue # <<>>
        /\ \A t \in sleep : t =< now
        /\ IF sleep # {} \/ Len(kept) < limit
           THEN /\ admissions' = Append(kept, now)
                /\ granted' = Append(granted, [at |-> now, limit |-> limit, to |-> d])
                /\ queue' = Tail(queue) /\ sleep' = {}
                /\ download' = [download EXCEPT ![d].phase = "requesting"]
           ELSE /\ admissions' = kept
                /\ sleep' = {Head(kept) + Window}
                /\ UNCHANGED <<queue, download, granted>>
        /\ UNCHANGED <<now, limit>>

(* The holder looks at the window, when it gets the lock and whenever it     *)
(* wakes.                                                                   *)
Decide ==
    LET kept == Kept(admissions)
        d == Head(queue)
    IN  /\ queue # <<>>
        /\ \A t \in sleep : t =< now
        /\ IF Len(kept) < limit
           THEN /\ admissions' = Append(kept, now)
                /\ granted' = Append(granted, [at |-> now, limit |-> limit, to |-> d])
                /\ queue' = Tail(queue) /\ sleep' = {}
                /\ download' = [download EXCEPT ![d].phase = "requesting"]
           ELSE /\ admissions' = kept
                /\ sleep' = {Head(kept) + Window}
                /\ UNCHANGED <<queue, download, granted>>
        /\ UNCHANGED <<now, limit>>

-----------------------------------------------------------------------------
(* A download.                                                             *)

BackoffOf(attempt) == LowerOf(Backoff * 2^(attempt - 1), MaxBackoff)

(* The delay the server asks for replaces the backoff.                       *)
DelayOf(d, asked) ==
    LowerOf(IF asked = None THEN BackoffOf(download[d].attempt) ELSE asked, MaxBackoff)

Close(d, phase) ==
    /\ download' = [download EXCEPT ![d].phase = phase]
    /\ UNCHANGED <<now, limiter, granted>>

(* An archive, its absence, or an error that is not tried again.             *)
Answered(d) == download[d].phase = "requesting" /\ Close(d, "ended")

Failed(d, asked) ==
    /\ download[d].phase = "requesting"
    /\ IF download[d].attempt = MaxAttempts THEN Close(d, "ended")
       ELSE /\ download' = [download EXCEPT ![d] =
                  [phase |-> "new", attempt |-> @.attempt + 1, after |-> now + DelayOf(d, asked)]]
            /\ UNCHANGED <<now, limiter, granted>>

(* A cancelled download leaves the lock's queue, or the lock; the sleep of    *)
(* the holder is its own. A cancelled request is like an answered one.        *)
Cancel(d) ==
    /\ download' = [download EXCEPT ![d].phase = "ended"]
    /\ \/ download[d].phase = "new" /\ UNCHANGED <<queue, sleep>>
       \/ /\ download[d].phase = "queued"
          /\ \E i \in DOMAIN queue :
                /\ queue[i] = d
                /\ queue' = RemoveAt(queue, i)
                /\ sleep' = IF i = 1 THEN {} ELSE sleep
    /\ UNCHANGED <<now, limit, admissions, granted>>

Next ==
    \/ Tick \/ Decide
    \/ \E d \in Downloads :
        \/ \E l \in Limits : Enqueue(d, l)
        \/ Answered(d) \/ Cancel(d)
        \/ \E asked \in Delays \cup {None} : Failed(d, asked)

-----------------------------------------------------------------------------
(* No window that ends in an admission has more of them than the limit in     *)
(* force then, whenever it was lowered and whoever was cancelled while it     *)
(* slept with the lock.                                                      *)
WindowIsKept ==
    \A i \in DOMAIN granted :
        Cardinality({j \in 1 .. i : granted[j].at + Window > granted[i].at}) =< granted[i].limit

(* What the limiter remembers is what it admitted in the window, however      *)
(* seldom it forgets.                                                       *)
MemoryIsExact ==
    LET kept == Kept(admissions)
        forgotten == Len(granted) - Len(kept)
    IN  /\ forgotten >= 0
        /\ \A i \in DOMAIN granted :
             IF i =< forgotten THEN Expired(granted[i].at)
             ELSE ~Expired(granted[i].at) /\ granted[i].at = kept[i - forgotten]

(* Nobody sleeps with the lock longer than the window, and nobody sleeps when *)
(* a request could be admitted, but for the limit that was lowered.           *)
SleepIsNeeded ==
    \A t \in sleep : queue # <<>> /\ t =< now + Window /\ (t > now => Len(Kept(admissions)) >= limit)

(* Every attempt is one admission, and no download has more than it may.      *)
AttemptsAreAdmitted ==
    \A d \in Downloads :
        LET mine == Cardinality({i \in DOMAIN granted : granted[i].to = d})
        IN  /\ mine =< MaxAttempts
            /\ download[d].phase = "requesting" => mine = download[d].attempt
            /\ download[d].phase \in {"new", "queued"} => mine = download[d].attempt - 1
=============================================================================
