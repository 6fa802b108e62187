---------------------------- MODULE ProcessingRun ----------------------------
(***************************************************************************)
(* A manual processing run: which rows it plans, the order it takes them    *)
(* in, and the transaction of each trade hour, while fetches, pruning,      *)
(* quarantine and the imports of another process change the same rows.      *)
(*                                                                         *)
(* A trade hour is built from its own archive. A request may ask for those  *)
(* of the adjacent hours as well (include_adjacent_sources); the runtime    *)
(* and the remote worker never do, and both kinds of run are modelled.      *)
(*                                                                         *)
(* The transaction of an order-book hour is one step here; its checkpoints  *)
(* are in CheckpointOwnership.  A source-hour lock is tried, never waited   *)
(* for.  The status "processing" lives inside a transaction only.           *)
(***************************************************************************)
EXTENDS Integers, Sequences, FiniteSets, SequencesExt

CONSTANTS
    Hours,      \* the hours of the run's range, integers
    Digests,    \* contents a trade archive may have
    Presets,    \* depth presets a run may ask for
    None,
    MaxRuns,    \* bound: runs
    MaxEvents   \* bound: what other operations do to the rows

Kinds == {"orderbook", "trades"}
Sources == Kinds \X Hours

VARIABLES
    row,        \* source -> [status, local, digest]
    book,       \* hour -> the presets its liquidity rows exist for
    price,      \* hour -> None, or the archives its price row was built from
    run,        \* the run: [phase, preset, adjacent, queue, items, chosen, locked, stop]
    runs, events

vars == <<row, book, price, run, runs, events>>

Idle == [phase |-> "idle", preset |-> None, adjacent |-> FALSE, queue |-> <<>>,
         items |-> <<>>, chosen |-> <<>>, locked |-> {}, stop |-> FALSE]

Init ==
    /\ row = [s \in Sources |-> [status |-> "planned", local |-> FALSE, digest |-> None]]
    /\ book = [h \in Hours |-> {}]
    /\ price = [h \in Hours |-> None]
    /\ run = Idle
    /\ runs = 0 /\ events = 0

Replayable(s) == row[s].status \in {"downloaded", "processed"} /\ row[s].local

-----------------------------------------------------------------------------
(* Planning.                                                               *)

Materialized(s, preset) ==
    IF s[1] = "orderbook" THEN preset \in book[s[2]] ELSE price[s[2]] # None

(* Slip: a downloaded row is planned only for a product it lacks, and a       *)
(* processed one always.                                                     *)
ShouldProcessAll(s, preset) ==
    Replayable(s) /\ (row[s].status = "downloaded" => ~Materialized(s, preset))

(* A downloaded row is always processed, a processed one only for a product  *)
(* which does not exist yet.                                                 *)
ShouldProcess(s, preset) ==
    /\ Replayable(s)
    /\ row[s].status = "processed" => ~Materialized(s, preset)

(* Slip: the newest hour first.                                              *)
NewestFirst(s, t) ==
    \/ s[1] = t[1] /\ s[2] > t[2]
    \/ s[1] = "orderbook" /\ t[1] = "trades"

(* Order books first, then trades, each by hour.                             *)
ProcessedBefore(s, t) ==
    \/ s[1] = t[1] /\ s[2] < t[2]
    \/ s[1] = "orderbook" /\ t[1] = "trades"

(* The plan of a run: all that should be processed, in that order.           *)
Plans(preset) ==
    LET targets == {s \in Sources : ShouldProcess(s, preset)}
    IN  {q \in [1 .. Cardinality(targets) -> targets] :
            \A i, j \in DOMAIN q : i < j => ProcessedBefore(q[i], q[j])}

Start(preset, adjacent) ==
    /\ run.phase \in {"idle", "ok", "partial_ok", "error", "stopped", "no_work"}
    /\ runs < MaxRuns
    /\ runs' = runs + 1
    /\ \E q \in Plans(preset) :
         run' = [Idle EXCEPT !.phase = "next", !.preset = preset, !.adjacent = adjacent,
                             !.queue = q]
    /\ UNCHANGED <<row, book, price, events>>

RequestStop ==
    /\ run.phase \in {"next", "choosing", "locking", "building"}
    /\ ~run.stop
    /\ run' = [run EXCEPT !.stop = TRUE]
    /\ UNCHANGED <<row, book, price, runs, events>>

-----------------------------------------------------------------------------
(* The loop over the targets.                                              *)

Target == Head(run.queue)

Report(result) ==
    run' = [run EXCEPT !.phase = "next", !.queue = Tail(@), !.chosen = <<>>, !.locked = {},
                       !.items = Append(@, [source |-> Target, result |-> result])]

(* A cancelled target reports nothing and stops the run.                     *)
Cancelled == run' = [run EXCEPT !.phase = "stopped", !.chosen = <<>>, !.locked = {}]

Failures == {i \in 1 .. Len(run.items) : run.items[i].result = "error"}

StoppedBefore ==
    /\ run.phase = "next" /\ run.queue # <<>> /\ run.stop
    /\ Cancelled
    /\ UNCHANGED <<row, book, price, runs, events>>

(* A checkpoint-dependent hour after a failed one of its chain.              *)
Blocked(s) ==
    s[1] = "orderbook" /\ \E i \in Failures :
        run.items[i].source[1] = "orderbook" /\ run.items[i].source[2] < s[2]

Block ==
    /\ run.phase = "next" /\ run.queue # <<>> /\ ~run.stop
    /\ Blocked(Target)
    /\ Report("error")
    /\ UNCHANGED <<row, book, price, runs, events>>

Enter(kind) ==
    /\ run.phase = "next" /\ run.queue # <<>> /\ ~run.stop
    /\ Target[1] = kind
    /\ ~Blocked(Target)

BookBuilt ==
    /\ Enter("orderbook")
    /\ Replayable(Target)
    /\ row' = [row EXCEPT ![Target].status = "processed"]
    /\ book' = [book EXCEPT ![Target[2]] = @ \cup {run.preset}]
    /\ Report("completed")
    /\ UNCHANGED <<price, runs, events>>

(* Its plan, its replay or its transaction failed.                           *)
BookFails ==
    /\ Enter("orderbook")
    /\ Report("error")
    /\ UNCHANGED <<row, book, price, runs, events>>

BookCancelled ==
    /\ run.phase = "next" /\ run.queue # <<>> /\ run.stop
    /\ Target[1] = "orderbook"
    /\ Cancelled
    /\ UNCHANGED <<row, book, price, runs, events>>

-----------------------------------------------------------------------------
(* The transaction of a trade hour.                                        *)

(* Slip: the archives of the adjacent hours are read unasked.                *)
AroundAlways(h) == {g \in Hours : g \in h - 1 .. h + 1 /\ Replayable(<<"trades", g>>)}

(* The hours whose archives are selected.                                    *)
Around(h) ==
    {g \in Hours : /\ g = h \/ (run.adjacent /\ g \in h - 1 .. h + 1)
                   /\ Replayable(<<"trades", g>>)}

(* The archives a trade hour reads, and the content of each.                 *)
Selection(h) == [g \in Around(h) |-> row[<<"trades", g>>].digest]

Choose ==
    /\ Enter("trades")
    /\ IF Target[2] \in Around(Target[2])
       THEN run' = [run EXCEPT !.phase = "locking", !.chosen = Selection(Target[2])]
       ELSE Report("error")
    /\ UNCHANGED <<row, book, price, runs, events>>

(* The locks are tried in the order of the hours.                            *)
Lock ==
    /\ run.phase = "locking"
    /\ LET Left == DOMAIN run.chosen \ run.locked
       IN  \E g \in Left : /\ \A k \in Left : g =< k
                           /\ run' = [run EXCEPT !.locked = @ \cup {g}]
    /\ UNCHANGED <<row, book, price, runs, events>>

(* Under all its locks the selection is repeated, and must be the same.      *)
Reselect ==
    /\ run.phase = "locking" /\ run.locked = DOMAIN run.chosen
    /\ IF Selection(Target[2]) = run.chosen
       THEN run' = [run EXCEPT !.phase = "building"]
       ELSE Report("error")
    /\ UNCHANGED <<row, book, price, runs, events>>

(* A lock is taken by another process, an archive does not verify, a trade   *)
(* conflicts.                                                                *)
TradesFail ==
    /\ run.phase \in {"locking", "building"}
    /\ Report("error")
    /\ UNCHANGED <<row, book, price, runs, events>>

(* At a cancellation point; the row is as it was before the transaction.     *)
TradesCancelled ==
    /\ run.phase \in {"locking", "building"} /\ run.stop
    /\ Cancelled
    /\ UNCHANGED <<row, book, price, runs, events>>

(* INSERT .. ON CONFLICT DO NOTHING, then the row must be the requested one. *)
Write(h, used) ==
    /\ price[h] \in {None, used}
    /\ price' = [price EXCEPT ![h] = used]

(* Slip: the source row is not finalized.                                    *)
OwnDigest(h, digest) ==
    row' = [row EXCEPT ![<<"trades", h>>].digest = digest]

Own(h, digest) ==
    row' = [row EXCEPT ![<<"trades", h>>].status = "processed",
                       ![<<"trades", h>>].digest = digest]

Build ==
    /\ run.phase = "building"
    /\ LET h == Target[2]
       IN  Write(h, run.chosen) /\ Own(h, run.chosen[h]) /\ Report("completed")
    /\ UNCHANGED <<book, runs, events>>

(* Another row of this hour exists already.                                  *)
BuildConflicts ==
    /\ run.phase = "building"
    /\ price[Target[2]] \notin {None, run.chosen}
    /\ Report("error")
    /\ UNCHANGED <<row, book, price, runs, events>>

Completed == {i \in 1 .. Len(run.items) : run.items[i].result = "completed"}

Finish ==
    /\ run.phase = "next" /\ run.queue = <<>>
    /\ run' = [run EXCEPT !.phase =
                 IF run.items = <<>> THEN "no_work"
                 ELSE IF Failures = {} THEN "ok"
                 ELSE IF Completed # {} THEN "partial_ok"
                 ELSE "error"]
    /\ UNCHANGED <<row, book, price, runs, events>>

-----------------------------------------------------------------------------
(* The other operations, each one transaction on one source hour.          *)

Unlocked(s) == ~(s[1] = "trades" /\ s[2] \in run.locked)

Fetch(s, digest) ==
    /\ Unlocked(s)
    /\ row[s].digest \in {None, digest}
    /\ row' = [row EXCEPT ![s] = [status |-> IF @.status = "processed" THEN @.status
                                              ELSE "downloaded",
                                  local |-> TRUE, digest |-> digest]]
    /\ UNCHANGED <<book, price>>

Prune(s) ==
    /\ Unlocked(s)
    /\ row[s].status = "processed" /\ row[s].local
    /\ row' = [row EXCEPT ![s].local = FALSE]
    /\ UNCHANGED <<book, price>>

Quarantine(s) ==
    /\ Unlocked(s)
    /\ Replayable(s)
    /\ row' = [row EXCEPT ![s].local = FALSE,
                          ![s].status = IF @ = "processed" THEN @ ELSE "error"]
    /\ UNCHANGED <<book, price>>

(* A verified remote price hour with any provenance the importer accepts:    *)
(* of the hour's own archive, as the worker's are, or of adjacent ones too.  *)
(* Only the content of the hour itself is compared with the local row.       *)
Import(h, used) ==
    /\ Unlocked(<<"trades", h>>)
    /\ h \in DOMAIN used
    /\ row[<<"trades", h>>].digest \in {None, used[h]}
    /\ Write(h, used)
    /\ Own(h, used[h])
    /\ UNCHANGED book

Provenances(h) == UNION {[G -> Digests] : G \in {G \in SUBSET Hours : h \in G /\ G \subseteq h - 1 .. h + 1}}

Work ==
    \/ StoppedBefore \/ Block \/ BookBuilt \/ BookFails \/ BookCancelled
    \/ Choose \/ Lock \/ Reselect \/ TradesFail \/ TradesCancelled
    \/ Build \/ BuildConflicts \/ Finish

Others ==
    /\ events < MaxEvents /\ events' = events + 1
    /\ UNCHANGED <<run, runs>>
    /\ \/ \E s \in Sources :
            \/ \E digest \in Digests : Fetch(s, digest)
            \/ Prune(s) \/ Quarantine(s)
       \/ \E h \in Hours : \E used \in Provenances(h) : Import(h, used)

Next ==
    \/ \E preset \in Presets, adjacent \in BOOLEAN : Start(preset, adjacent)
    \/ RequestStop
    \/ Work
    \/ Others

Spec == Init /\ [][Next]_vars

-----------------------------------------------------------------------------
(* While a trade hour is built, every archive it reads is the one it chose,   *)
(* attached and with the content its provenance will name.                   *)
SelectionHolds ==
    run.phase = "building" =>
        \A g \in DOMAIN run.chosen :
            /\ Replayable(<<"trades", g>>)
            /\ row[<<"trades", g>>].digest = run.chosen[g]

(* A row built from an hour's own archive never stands in the way of a default *)
(* run over it, whatever archives came or went around it meanwhile.           *)
DefaultRunsAgree ==
    run.phase = "building" /\ ~run.adjacent =>
        LET h == Target[2]
        IN  /\ DOMAIN run.chosen = {h}
            /\ price[h] # None /\ DOMAIN price[h] = {h} => price[h] = run.chosen

(* A trade hour is processed exactly when its price row exists, and the row's *)
(* provenance names the content the source row owns for the hour itself,      *)
(* whether the hour was built here or imported, before or after a re-fetch.   *)
PriceRowsAgree ==
    \A h \in Hours :
        LET r == row[<<"trades", h>>]
        IN  /\ r.status = "processed" <=> price[h] # None
            /\ price[h] # None => price[h][h] = r.digest

(* Within a run, no order-book hour completes after an earlier one failed.    *)
ChainsStopAtFailure ==
    \A i, j \in 1 .. Len(run.items) :
        LET a == run.items[i]
            b == run.items[j]
        IN  a.source[1] = "orderbook" /\ b.source[1] = "orderbook"
            /\ a.source[2] < b.source[2] /\ a.result = "error" => b.result = "error"

(* A run called "ok" has left each of its targets processed and built, and    *)
(* planning again at once would find none of them.                           *)
OkLeavesNothing ==
    run.phase = "ok" => \A i \in 1 .. Len(run.items) :
        /\ row[run.items[i].source].status = "processed"
        /\ Materialized(run.items[i].source, run.preset)
        /\ ~ShouldProcess(run.items[i].source, run.preset)
=============================================================================
