------------------------- MODULE CheckpointOwnership -------------------------
(***************************************************************************)
(* Checkpoint continuation of one market: who may start from a checkpoint   *)
(* file, who owns it and when it may be deleted.                            *)
(*   - local L2 processing (processing/l2_coordinator.py), which plans a    *)
(*     replay chain, locks it, plans again, publishes the target's          *)
(*     checkpoint and commits its ownership (processing/checkpoint_store.py);*)
(*   - import of a verified remote L2 artifact (remote/importer.py);        *)
(*   - deletion of orphan checkpoints (maintenance_actions.py).             *)
(* Files are published and unlinked outside the database; a transaction     *)
(* excludes others by fail-fast advisory locks on source hours and on       *)
(* checkpoint digests (acquisition/locks.py,                                *)
(* db/checkpoint_reference_locks.py).                                       *)
(*                                                                         *)
(* Replays of the same bytes freeze the same state (ReplayAgreement), so    *)
(* an hour has one possible checkpoint, named here by the hour.             *)
(***************************************************************************)
EXTENDS Naturals

CONSTANTS
  LastHour,   \* consecutive source hours 1..LastHour; nothing precedes them
  Lookback,   \* max_checkpoint_search_hours
  Presets,    \* data presets an hour may be materialized for
  Apps,       \* database works of one or several processes
  Nothing     \* no analytical row; no work of an idle work

Hours == 1 .. LastHour
None  == 0                          \* no checkpoint
Plan  == [first : Hours, input : Hours \union {None}]
Work  == [hour : Hours, preset : Presets, plan : Plan]

ASSUME BoundAssumption == LastHour \in Nat /\ Lookback \in Nat \ {0}
ASSUME NothingAssumption == Nothing \notin Plan \union Work

VARIABLES
  turn,                     \* how each hour's archive leaves a book: set by a
                            \* snapshot, kept by its updates, lost in a gap
  crossed,                  \* hours whose book is unusable at every second
  raw, processed,           \* source_hours: archive attached, PROCESSED
  output, remoteOutput,     \* rows naming their own output checkpoint
  input, remoteInput,       \* the input checkpoint each row names
  series,                   \* l2_hourly_series: provenance per hour, preset
  files,                    \* hours whose checkpoint file exists
  stage, work, hourLocks, digestLocks,    \* each work
  everOwned, begunFrom      \* history: owned by a committed row; started a
                            \* committed local run

archive == <<turn, crossed>>
row     == <<raw, processed>>
refs    == <<output, remoteOutput, input, remoteInput, series>>
locks   == <<hourLocks, digestLocks>>
history == <<everOwned, begunFrom>>
vars    == <<archive, row, refs, files, stage, work, locks, history>>

Stage == {"idle", "planned", "locked", "replanned", "running", "published",
          "importing", "imported", "deleting"}

TypeOK ==
  /\ turn \in [Hours -> {"set", "kept", "lost"}]
  /\ crossed \in SUBSET Hours
  /\ raw \in [Hours -> BOOLEAN]
  /\ processed \in [Hours -> BOOLEAN]
  /\ output \in SUBSET Hours
  /\ remoteOutput \in SUBSET Hours
  /\ input \in [Hours -> Hours \union {None}]
  /\ remoteInput \in [Hours -> Hours \union {None}]
  /\ series \in [Hours -> [Presets -> Plan \union {Nothing}]]
  /\ files \in SUBSET Hours
  /\ stage \in [Apps -> Stage]
  /\ work \in [Apps -> Work \union {Nothing}]
  /\ hourLocks \in [Apps -> SUBSET Hours]
  /\ digestLocks \in [Apps -> SUBSET Hours]
  /\ everOwned \in SUBSET Hours
  /\ begunFrom \in SUBSET Hours

Init ==
  /\ turn \in [Hours -> {"set", "kept", "lost"}]
  /\ crossed \in SUBSET Hours
  /\ raw = [h \in Hours |-> FALSE]
  /\ processed = [h \in Hours |-> FALSE]
  /\ output = {}
  /\ remoteOutput = {}
  /\ input = [h \in Hours |-> None]
  /\ remoteInput = [h \in Hours |-> None]
  /\ series = [h \in Hours |-> [p \in Presets |-> Nothing]]
  /\ files = {}
  /\ stage = [a \in Apps |-> "idle"]
  /\ work = [a \in Apps |-> Nothing]
  /\ hourLocks = [a \in Apps |-> {}]
  /\ digestLocks = [a \in Apps |-> {}]
  /\ everOwned = {}
  /\ begunFrom = {}

-----------------------------------------------------------------------------
(* Locks are released together, at commit, rollback or death.              *)

FreeHours(a, hs)   == \A b \in Apps \ {a} : hourLocks[b] \intersect hs = {}
FreeDigests(a, ds) == \A b \in Apps \ {a} : digestLocks[b] \intersect ds = {}

LocksHours(a, hs)   == /\ FreeHours(a, hs)
                       /\ hourLocks' = [hourLocks EXCEPT ![a] = @ \union hs]
LocksDigests(a, ds) == /\ FreeDigests(a, ds)
                       /\ digestLocks' = [digestLocks EXCEPT ![a] = @ \union ds]

Becomes(a, s) == stage' = [stage EXCEPT ![a] = s]
Ends(a) == /\ Becomes(a, "idle")
           /\ work' = [work EXCEPT ![a] = Nothing]
           /\ hourLocks' = [hourLocks EXCEPT ![a] = {}]
           /\ digestLocks' = [digestLocks EXCEPT ![a] = {}]

-----------------------------------------------------------------------------
(* Discovery: back from the target to the nearest checkpoint a committed    *)
(* row owns, over hours whose archive is attached.                          *)

Owned == output \union remoteOutput

\* Slip: a checkpoint file is enough.
UsableUnowned(k) == k \in files

Usable(k) == k \in files /\ k \in Owned

Attached(k) == k \in Hours /\ raw[k]

\* build_search_plan's answer: no checkpoint was found for any replayed
\* predecessor, and the search ended at its bound, at a checkpoint or at a gap.
IsPlan(pl, h) ==
  /\ pl.first =< h
  /\ h - pl.first =< Lookback
  /\ \A k \in pl.first .. h - 1 : Attached(k) /\ ~Usable(k)
  /\ \/ h - pl.first = Lookback /\ pl.input = None
     \/ /\ h - pl.first < Lookback
        /\ IF Usable(pl.first - 1)
           THEN pl.input = pl.first - 1
           ELSE pl.input = None /\ ~Attached(pl.first - 1)

\* Replaying pl up to h ends with a book to go on from.
EndsWithBook(pl, h) ==
  \/ pl.input # None /\ \A k \in pl.first .. h : turn[k] = "kept"
  \/ \E k \in pl.first .. h :
        turn[k] = "set" /\ \A j \in k + 1 .. h : turn[j] = "kept"

\* A checkpoint is published for a book with at least one usable second.
Publishes(pl, h) == EndsWithBook(pl, h) /\ h \notin crossed

-----------------------------------------------------------------------------
(* Local processing.                                                        *)

\* Lock the target and discover.
Begin(a, h, p, pl) ==
  /\ stage[a] = "idle"
  /\ raw[h]
  /\ IsPlan(pl, h)
  /\ LocksHours(a, {h})
  /\ Becomes(a, "planned")
  /\ work' = [work EXCEPT ![a] = [hour |-> h, preset |-> p, plan |-> pl]]
  /\ UNCHANGED <<archive, row, refs, files, digestLocks, history>>

\* Slip: an hour too many.
LockSourcesAndOneMore(a) ==
  /\ stage[a] = "planned"
  /\ LocksHours(a, work[a].plan.first - 1 .. work[a].hour)
  /\ Becomes(a, "locked")
  /\ UNCHANGED <<archive, row, refs, files, work, digestLocks, history>>

LockSources(a) ==
  /\ stage[a] = "planned"
  /\ LocksHours(a, work[a].plan.first .. work[a].hour)
  /\ Becomes(a, "locked")
  /\ UNCHANGED <<archive, row, refs, files, work, digestLocks, history>>

\* Discovery again, under the locks: it must not have changed.
Replan(a) ==
  /\ stage[a] = "locked"
  /\ IsPlan(work[a].plan, work[a].hour)
  /\ Becomes(a, "replanned")
  /\ UNCHANGED <<archive, row, refs, files, work, locks, history>>

LockInput(a) ==
  /\ stage[a] = "replanned"
  /\ LocksDigests(a, {work[a].plan.input} \ {None})
  /\ Becomes(a, "running")
  /\ UNCHANGED <<archive, row, refs, files, work, hourLocks, history>>

\* The one file operation of processing and of import; an existing file of
\* the hour is the same and is returned.
Publish(a) ==
  /\ stage[a] \in {"running", "importing"}
  /\ Becomes(a, IF stage[a] = "running" THEN "published" ELSE "imported")
  /\ files' = IF Publishes(work[a].plan, work[a].hour)
              THEN files \union {work[a].hour} ELSE files
  /\ UNCHANGED <<archive, row, refs, work, locks, history>>

\* The analytical row of an hour and preset is immutable.
Writes(h, p, pl) ==
  /\ series[h][p] \in {Nothing, pl}
  /\ series' = [series EXCEPT ![h][p] = pl]

\* The output lock, the row and the commit; the standard key always takes
\* what this run published, nothing if it published nothing.
Commit(a) ==
  LET h == work[a].hour
      pl == work[a].plan
  IN  /\ stage[a] = "published"
      /\ Publishes(pl, h) => FreeDigests(a, {h})
      /\ Writes(h, work[a].preset, pl)
      /\ output' = IF Publishes(pl, h) THEN output \union {h} ELSE output \ {h}
      /\ input' = [input EXCEPT ![h] = pl.input]
      /\ processed' = [processed EXCEPT ![h] = TRUE]
      /\ everOwned' = everOwned \union (IF Publishes(pl, h) THEN {h} ELSE {})
      /\ begunFrom' = begunFrom \union ({pl.input} \ {None})
      /\ Ends(a)
      /\ UNCHANGED <<archive, raw, remoteOutput, remoteInput, files>>

\* A lock not available, a changed plan, a conflict, a cancellation, an error
\* or the death of the process: the transaction leaves nothing, its files stay.
Abort(a) ==
  /\ stage[a] # "idle"
  /\ Ends(a)
  /\ UNCHANGED <<archive, row, refs, files, history>>

-----------------------------------------------------------------------------
(* Import of an artifact a remote worker made of this hour's archive alone, *)
(* cold or from the checkpoint of the hour before.                          *)

Manifest(h) ==
  {pl \in Plan :
     /\ pl.first = h
     /\ pl.input # None => /\ pl.input = h - 1
                           /\ turn[h - 1] # "lost" /\ h - 1 \notin crossed}

\* Slip: only the digest the import creates is locked.
ImportBeginInputFree(a, h, p, pl) ==
  /\ stage[a] = "idle"
  /\ pl \in Manifest(h)
  /\ LocksHours(a, {h})
  /\ LocksDigests(a, IF Publishes(pl, h) THEN {h} ELSE {})
  /\ Becomes(a, "importing")
  /\ work' = [work EXCEPT ![a] = [hour |-> h, preset |-> p, plan |-> pl]]
  /\ UNCHANGED <<archive, row, refs, files, history>>

ImportBegin(a, h, p, pl) ==
  /\ stage[a] = "idle"
  /\ pl \in Manifest(h)
  /\ LocksHours(a, {h})
  /\ LocksDigests(a, ({pl.input} \ {None}) \union
                     (IF Publishes(pl, h) THEN {h} ELSE {}))
  /\ Becomes(a, "importing")
  /\ work' = [work EXCEPT ![a] = [hour |-> h, preset |-> p, plan |-> pl]]
  /\ UNCHANGED <<archive, row, refs, files, history>>

\* _reconciled_output_checkpoint_references: prior ownership is preserved, and
\* what the artifact owns is owned under both keys.
ImportCommit(a) ==
  LET h == work[a].hour
      pl == work[a].plan
      owns == IF Publishes(pl, h) THEN {h} ELSE {}
  IN  /\ stage[a] = "imported"
      /\ Writes(h, work[a].preset, pl)
      /\ output' = output \union owns \union (remoteOutput \intersect {h})
      /\ remoteOutput' = remoteOutput \union owns
      /\ input' = [input EXCEPT ![h] = pl.input]
      /\ remoteInput' = [remoteInput EXCEPT ![h] = pl.input]
      /\ processed' = [processed EXCEPT ![h] = TRUE]
      /\ everOwned' = everOwned \union owns
      /\ Ends(a)
      /\ UNCHANGED <<archive, raw, files, begunFrom>>

-----------------------------------------------------------------------------
(* Deletion of an orphan checkpoint: both locks, the reference query, the   *)
(* unlink.                                                                  *)

References ==
  UNION {Owned, {input[h] : h \in Hours}, {remoteInput[h] : h \in Hours},
         {pl.input : pl \in {series[h][p] : h \in Hours, p \in Presets} \ {Nothing}}}

\* Slip: the checkpoint's source hour is not locked.
DeleteBeginHourFree(a, k) ==
  /\ stage[a] = "idle"
  /\ k \in files
  /\ hourLocks' = [hourLocks EXCEPT ![a] = {k}]
  /\ LocksDigests(a, {k})
  /\ k \notin References
  /\ Becomes(a, "deleting")
  /\ UNCHANGED <<archive, row, refs, files, work, history>>

DeleteBegin(a, k) ==
  /\ stage[a] = "idle"
  /\ k \in files
  /\ LocksHours(a, {k})
  /\ LocksDigests(a, {k})
  /\ k \notin References
  /\ Becomes(a, "deleting")
  /\ UNCHANGED <<archive, row, refs, files, work, history>>

\* The one digest a deleting transaction has locked is the file's.
DeleteUnlink(a) ==
  /\ stage[a] = "deleting"
  /\ files' = files \ digestLocks[a]
  /\ Ends(a)
  /\ UNCHANGED <<archive, row, refs, history>>

-----------------------------------------------------------------------------
(* Acquisition and raw pruning, as far as processing sees them: one step    *)
(* each under the source-hour lock.                                         *)

Acquire(h) ==
  /\ ~raw[h]
  /\ \A b \in Apps : h \notin hourLocks[b]
  /\ raw' = [raw EXCEPT ![h] = TRUE]
  /\ UNCHANGED <<archive, processed, refs, files, stage, work, locks, history>>

PruneRaw(h) ==
  /\ raw[h] /\ processed[h]
  /\ \A b \in Apps : h \notin hourLocks[b]
  /\ raw' = [raw EXCEPT ![h] = FALSE]
  /\ UNCHANGED <<archive, processed, refs, files, stage, work, locks, history>>

-----------------------------------------------------------------------------
Process(a) ==
  \/ stage[a] = "idle" /\ \E h \in Hours, p \in Presets, pl \in Plan : Begin(a, h, p, pl)
  \/ LockSources(a) \/ Replan(a) \/ LockInput(a)
  \/ Publish(a) \/ Commit(a) \/ Abort(a)

ImportRemote(a) ==
  \/ stage[a] = "idle" /\ \E h \in Hours, p \in Presets :
       \E pl \in Manifest(h) : ImportBegin(a, h, p, pl)
  \/ ImportCommit(a)

Delete(a) == DeleteUnlink(a) \/ \E k \in Hours : DeleteBegin(a, k)

Next == \/ \E a \in Apps : Process(a) \/ ImportRemote(a) \/ Delete(a)
        \/ \E h \in Hours : Acquire(h) \/ PruneRaw(h)

Spec == Init /\ [][Next]_vars

-----------------------------------------------------------------------------
\* A row which names its output checkpoint can be continued from: the file is
\* there, whichever of processing, import and deletion ran at the same time
\* and wherever one of them died.
OwnedCheckpointExists == Owned \subseteq files

\* "It is not authoritative until committed source metadata owns its exact
\* digest" (checkpoint_store.py): a file which a failed run left behind never
\* starts a run that commits, unless its hour has been committed since.
OrphansNeverBegin == begunFrom \subseteq everOwned

\* No deletion takes a checkpoint which any committed row or provenance names
\* at that moment, not even one a run has just been given as its input.
DeletionSparesReferences ==
  [][(files \ files') \intersect References' = {}]_vars

\* "A checkpoint referenced by committed source quality metadata is durable
\* continuation state" (README.md): no transaction takes it from its row.
OwnershipIsDurable == [][Owned \subseteq Owned']_vars
=============================================================================
