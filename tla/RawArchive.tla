------------------------------ MODULE RawArchive ------------------------------
(***************************************************************************)
(* The raw-archive lifecycle of l2shock: one `source_hours` row, one       *)
(* canonical Parquet file and any number of hidden `.pruning` files per    *)
(* source hour, and the operations which move them:                        *)
(*   - acquisition (acquisition/coordinator.py, repository.py,             *)
(*     downloader.py): admit, reuse or download, publish, record;          *)
(*   - the part of processing and of remote import which changes the row;  *)
(*   - stale-source recovery and raw pruning (maintenance_actions.py);     *)
(*   - quarantine of corrupt archives (ui/automatic_fetch_runtime.py);     *)
(*   - restart reconciliation (acquisition/pruning_recovery.py).           *)
(* The database and the file system are changed by separate steps and a    *)
(* process may die between any two of them.  Inside one process            *)
(* `state.operation_lock` admits one operation at a time; between          *)
(* processes only the source-hour advisory lock of a transaction excludes. *)
(***************************************************************************)
EXTENDS Naturals

CONSTANTS
  Hours,         \* source hours (provider, venue, kind, instrument, UTC hour)
  Bytes,         \* contents of structurally valid archives, by their SHA-256
  Garbled,       \* a file content which fails structural validation
  Absent,        \* no file, no digest, nothing served
  Tags,          \* the uuid4 part of a hidden pruning file name
  Apps,          \* application processes
  Perishable,    \* hours whose canonical file may rot on disk (each once)
  MaxRepublish,  \* how often the provider may change what it serves
  MaxCrashes     \* how often a process may die

ASSUME ContentAssumption ==
  /\ Garbled \notin Bytes
  /\ Absent \notin Bytes
  /\ Garbled # Absent

VARIABLES
  status, attached, digest,                \* the source_hours row
  file,                                    \* content of the canonical path
  hidden,                                  \* hidden pruning files
  served,                                  \* what the provider serves
  republished, crashes, rotted,            \* bounds of the environment
  kind, hour, bytes, kept,                 \* each process: its operation
  batch, held, moved                       \* each process: its transaction

row    == <<status, attached, digest>>
disk   == <<file, hidden>>
world  == <<served, republished, rotted>>
op     == <<hour, bytes, kept>>
txn    == <<batch, held, moved>>
vars   == <<row, disk, world, crashes, kind, op, txn>>

Status  == {"discovered", "downloading", "downloaded", "processed",
            "missing", "error"}
Kind    == {"down", "booting", "idle",
            "fetching", "publishing", "recording", "missing", "failing",
            "pruning", "unlinking", "restoring", "repairing", "unrepairing"}
Content == Bytes \union {Garbled, Absent}
Token   == [hour : Hours, bytes : Bytes, tag : Tags]

TypeOK ==
  /\ status \in [Hours -> Status]
  /\ attached \in [Hours -> BOOLEAN]
  /\ digest \in [Hours -> Bytes \union {Absent}]
  /\ file \in [Hours -> Content]
  /\ hidden \in SUBSET Token
  /\ served \in [Hours -> Bytes \union {Absent}]
  /\ republished \in Nat
  /\ crashes \in Nat
  /\ rotted \in SUBSET Hours
  /\ kind \in [Apps -> Kind]
  /\ hour \in [Apps -> Hours]
  /\ bytes \in [Apps -> Content]
  /\ \A a \in Apps : kind[a] \in {"publishing", "recording"} => bytes[a] \in Bytes
  /\ kept \in [Apps -> BOOLEAN]
  /\ batch \in [Apps -> SUBSET Hours]
  /\ held \in [Apps -> SUBSET Hours]
  /\ moved \in [Apps -> SUBSET Token]

Init ==
  /\ status = [h \in Hours |-> "discovered"]
  /\ attached = [h \in Hours |-> FALSE]
  /\ digest = [h \in Hours |-> Absent]
  /\ file = [h \in Hours |-> Absent]
  /\ hidden = {}
  /\ served \in [Hours -> Bytes]
  /\ republished = 0
  /\ crashes = 0
  /\ rotted = {}
  /\ kind = [a \in Apps |-> "down"]
  /\ hour \in [Apps -> Hours]
  /\ bytes = [a \in Apps |-> Absent]
  /\ kept = [a \in Apps |-> FALSE]
  /\ batch = [a \in Apps |-> {}]
  /\ held = [a \in Apps |-> {}]
  /\ moved = [a \in Apps |-> {}]

\* A transaction which spans several steps holds the advisory locks of held[a];
\* acquisition is fail-fast, and commit, rollback and death release them.
Locked(h) == \E a \in Apps : h \in held[a]

Becomes(a, k) == kind' = [kind EXCEPT ![a] = k]
Ends(a) == /\ batch' = [batch EXCEPT ![a] = {}]
           /\ held' = [held EXCEPT ![a] = {}]

-----------------------------------------------------------------------------
(* Start-up: every hidden file found by one directory walk is reconciled   *)
(* in a transaction of its own before background services are restored.    *)

Boot(a) ==
  /\ kind[a] = "down"
  /\ Becomes(a, "booting")
  /\ moved' = [moved EXCEPT ![a] = hidden]
  /\ UNCHANGED <<row, disk, world, crashes, op, batch, held>>

\* The row owns the hidden bytes and what is at the canonical path, if
\* anything is, agrees with them.
Reconcilable(t) ==
  /\ t \in hidden
  /\ ~Locked(t.hour)
  /\ status[t.hour] = "processed"
  /\ digest[t.hour] = t.bytes
  /\ file[t.hour] \in {Absent, t.bytes}

\* Slip: the stored attachment is ignored and the hidden file always unlinked.
ReconcileDeletesAlways(a, t) ==
  /\ kind[a] = "booting"
  /\ t \in moved[a]
  /\ Reconcilable(t)
  /\ hidden' = hidden \ {t}
  /\ moved' = [moved EXCEPT ![a] = @ \ {t}]
  /\ UNCHANGED <<row, file, world, crashes, kind, op, batch, held>>

Reconcile(a, t) ==
  /\ kind[a] = "booting"
  /\ t \in moved[a]
  /\ Reconcilable(t)
  /\ hidden' = hidden \ {t}
  /\ file' = IF attached[t.hour] /\ file[t.hour] = Absent
             THEN [file EXCEPT ![t.hour] = t.bytes]
             ELSE file
  /\ moved' = [moved EXCEPT ![a] = @ \ {t}]
  /\ UNCHANGED <<row, world, crashes, kind, op, batch, held>>

ReconcileFails(a, t) ==
  /\ kind[a] = "booting"
  /\ t \in moved[a]
  /\ ~Reconcilable(t)
  /\ moved' = [moved EXCEPT ![a] = @ \ {t}]
  /\ UNCHANGED <<row, disk, world, crashes, kind, op, batch, held>>

BootDone(a) ==
  /\ kind[a] = "booting"
  /\ moved[a] = {}
  /\ Becomes(a, "idle")
  /\ UNCHANGED <<row, disk, world, crashes, op, txn>>

-----------------------------------------------------------------------------
(* Acquisition of one source of a fetch plan.                              *)

\* Slip: a processed row is admitted like any other.
AdmitWithdraws(a, h) ==
  /\ kind[a] = "idle"
  /\ ~Locked(h)
  /\ kept' = [kept EXCEPT ![a] = FALSE]
  /\ status' = [status EXCEPT ![h] = "downloading"]
  /\ hour' = [hour EXCEPT ![a] = h]
  /\ Becomes(a, "fetching")
  /\ UNCHANGED <<attached, digest, disk, world, crashes, bytes, txn>>

\* mark_downloading: a processed row keeps its status.
Admit(a, h) ==
  /\ kind[a] = "idle"
  /\ ~Locked(h)
  /\ kept' = [kept EXCEPT ![a] = (status[h] = "processed")]
  /\ status' = IF status[h] = "processed" THEN status
               ELSE [status EXCEPT ![h] = "downloading"]
  /\ hour' = [hour EXCEPT ![a] = h]
  /\ Becomes(a, "fetching")
  /\ UNCHANGED <<attached, digest, disk, world, crashes, bytes, txn>>

\* Slip: whatever is at the canonical path is reused.
ReuseUnvalidated(a) ==
  /\ kind[a] = "fetching"
  /\ file[hour[a]] # Absent
  /\ bytes' = [bytes EXCEPT ![a] = file[hour[a]]]
  /\ Becomes(a, "recording")
  /\ UNCHANGED <<row, disk, world, crashes, hour, kept, txn>>

\* An existing archive which validates is hashed and reused, whoever wrote it.
Reuse(a) ==
  /\ kind[a] = "fetching"
  /\ file[hour[a]] \in Bytes
  /\ bytes' = [bytes EXCEPT ![a] = file[hour[a]]]
  /\ Becomes(a, "recording")
  /\ UNCHANGED <<row, disk, world, crashes, hour, kept, txn>>

\* An existing file which does not validate is moved to quarantine.
DiscardInvalid(a) ==
  /\ kind[a] = "fetching"
  /\ file[hour[a]] = Garbled
  /\ file' = [file EXCEPT ![hour[a]] = Absent]
  /\ UNCHANGED <<row, hidden, world, crashes, kind, op, txn>>

Download(a) ==
  /\ kind[a] = "fetching"
  /\ file[hour[a]] = Absent
  /\ served[hour[a]] # Absent
  /\ bytes' = [bytes EXCEPT ![a] = served[hour[a]]]
  /\ Becomes(a, "publishing")
  /\ UNCHANGED <<row, disk, world, crashes, hour, kept, txn>>

\* os.link creates the canonical name or fails; it never replaces a file.
Publish(a) ==
  /\ kind[a] = "publishing"
  /\ file[hour[a]] \in {Absent, bytes[a]}
  /\ file' = [file EXCEPT ![hour[a]] = bytes[a]]
  /\ Becomes(a, "recording")
  /\ UNCHANGED <<row, hidden, world, crashes, op, txn>>

\* A competing file stays when it validates and is quarantined when it does
\* not; either way this download is given up.
PublishConflict(a) ==
  /\ kind[a] = "publishing"
  /\ file[hour[a]] \notin {Absent, bytes[a]}
  /\ file' = [file EXCEPT ![hour[a]] = IF @ = Garbled THEN Absent ELSE @]
  /\ Becomes(a, IF kept[a] THEN "idle" ELSE "failing")
  /\ UNCHANGED <<row, hidden, world, crashes, op, txn>>

FetchMissing(a) ==
  /\ kind[a] = "fetching"
  /\ file[hour[a]] = Absent
  /\ served[hour[a]] = Absent
  /\ Becomes(a, IF kept[a] THEN "idle" ELSE "missing")
  /\ UNCHANGED <<row, disk, world, crashes, op, txn>>

\* Transport, disk-space and validation errors, cancellation, and a failed or
\* refused artifact transaction.
FetchFails(a) ==
  /\ kind[a] \in {"fetching", "publishing", "recording"}
  /\ Becomes(a, IF kept[a] THEN "idle" ELSE "failing")
  /\ UNCHANGED <<row, disk, world, crashes, op, txn>>

\* Slip: a row which owns a digest is never recorded again.
AcceptsOnce(h, d) == IF status[h] = "processed"
                     THEN digest[h] = d
                     ELSE digest[h] = Absent

\* record_artifact: the content digest of a source hour is immutable.
Accepts(h, d) == IF status[h] = "processed"
                 THEN digest[h] = d
                 ELSE digest[h] \in {Absent, d}

Record(a) ==
  LET h == hour[a] IN
  /\ kind[a] = "recording"
  /\ ~Locked(h)
  /\ Accepts(h, bytes[a])
  /\ status' = IF status[h] = "processed" THEN status
               ELSE [status EXCEPT ![h] = "downloaded"]
  /\ attached' = [attached EXCEPT ![h] = TRUE]
  /\ digest' = [digest EXCEPT ![h] = bytes[a]]
  /\ Becomes(a, "idle")
  /\ UNCHANGED <<disk, world, crashes, op, txn>>

\* Slip: the failure is written whatever the row has become.
RecordFailureBlindly(a) ==
  /\ kind[a] \in {"missing", "failing"}
  /\ ~Locked(hour[a])
  /\ status' = [status EXCEPT ![hour[a]] =
                  IF kind[a] = "missing" THEN "missing" ELSE "error"]
  /\ Becomes(a, "idle")
  /\ UNCHANGED <<attached, digest, disk, world, crashes, op, txn>>

\* record_fetch_failure: only a row still in acquisition is closed.
RecordFailure(a) ==
  /\ kind[a] \in {"missing", "failing"}
  /\ ~Locked(hour[a])
  /\ status' = [status EXCEPT ![hour[a]] =
                  IF @ # "downloading" THEN @
                  ELSE IF kind[a] = "missing" THEN "missing" ELSE "error"]
  /\ Becomes(a, "idle")
  /\ UNCHANGED <<attached, digest, disk, world, crashes, op, txn>>

\* The failure transaction itself fails; the row stays "downloading".
FailureLost(a) ==
  /\ kind[a] \in {"missing", "failing"}
  /\ Becomes(a, "idle")
  /\ UNCHANGED <<row, disk, world, crashes, op, txn>>

-----------------------------------------------------------------------------
(* Operations which change the row in one transaction.                     *)

\* Stale-source recovery; the age threshold is not modelled.
RecoverStale(a, h) ==
  /\ kind[a] = "idle"
  /\ ~Locked(h)
  /\ status[h] = "downloading"
  /\ status' = [status EXCEPT ![h] = "error"]
  /\ UNCHANGED <<attached, digest, disk, world, crashes, kind, op, txn>>

\* Local processing verifies the archive and finalizes the row under its lock.
Process(a, h) ==
  /\ kind[a] = "idle"
  /\ ~Locked(h)
  /\ status[h] = "downloaded"
  /\ attached[h]
  /\ file[h] = digest[h]
  /\ status' = [status EXCEPT ![h] = "processed"]
  /\ UNCHANGED <<attached, digest, disk, world, crashes, kind, op, txn>>

\* Slip: an import records its hour as a download.
ImportOffersArchive(a, h, d) ==
  /\ kind[a] = "idle"
  /\ ~Locked(h)
  /\ status[h] # "downloading"
  /\ digest[h] \in {Absent, d}
  /\ attached[h] => file[h] = d
  /\ status' = [status EXCEPT ![h] = "downloaded"]
  /\ digest' = [digest EXCEPT ![h] = d]
  /\ UNCHANGED <<attached, disk, world, crashes, kind, op, txn>>

\* A verified remote artifact owns the row without claiming local bytes.
Import(a, h, d) ==
  /\ kind[a] = "idle"
  /\ ~Locked(h)
  /\ status[h] # "downloading"
  /\ digest[h] \in {Absent, d}
  /\ attached[h] => file[h] = d
  /\ status' = [status EXCEPT ![h] = "processed"]
  /\ digest' = [digest EXCEPT ![h] = d]
  /\ UNCHANGED <<attached, disk, world, crashes, kind, op, txn>>

-----------------------------------------------------------------------------
(* Raw pruning: one transaction for the confirmed batch.                   *)

PruneStart(a, hs) ==
  /\ kind[a] = "idle"
  /\ hs # {}
  /\ \A h \in hs : status[h] = "processed" /\ attached[h]
  /\ Becomes(a, "pruning")
  /\ batch' = [batch EXCEPT ![a] = hs]
  /\ UNCHANGED <<row, disk, world, crashes, op, held, moved>>

\* Lock, revalidate, hash, rename to a hidden name; the cleared local_path is
\* flushed but visible only after commit.
PruneItem(a, h, g) ==
  LET t == [hour |-> h, bytes |-> file[h], tag |-> g] IN
  /\ kind[a] = "pruning"
  /\ h \in batch[a]
  /\ ~Locked(h)
  /\ status[h] = "processed"
  /\ attached[h]
  /\ file[h] \in Bytes
  /\ file[h] = digest[h]
  /\ \A u \in hidden : u.tag # g
  /\ file' = [file EXCEPT ![h] = Absent]
  /\ hidden' = hidden \union {t}
  /\ moved' = [moved EXCEPT ![a] = @ \union {t}]
  /\ batch' = [batch EXCEPT ![a] = @ \ {h}]
  /\ held' = [held EXCEPT ![a] = @ \union {h}]
  /\ UNCHANGED <<row, world, crashes, kind, op>>

\* An item which is locked, fails revalidation or cannot be renamed is
\* reported; a lock it took stays with the transaction.
PruneSkip(a, h) ==
  /\ kind[a] = "pruning"
  /\ h \in batch[a]
  /\ batch' = [batch EXCEPT ![a] = @ \ {h}]
  /\ held' = IF Locked(h) THEN held ELSE [held EXCEPT ![a] = @ \union {h}]
  /\ UNCHANGED <<row, disk, world, crashes, kind, op, moved>>

Detach(a) == [h \in Hours |-> attached[h] /\ \A t \in moved[a] : t.hour # h]

PruneCommit(a) ==
  /\ kind[a] = "pruning"
  /\ batch[a] = {}
  /\ attached' = Detach(a)
  /\ Becomes(a, "unlinking")
  /\ Ends(a)
  /\ UNCHANGED <<status, digest, disk, world, crashes, op, moved>>

\* A database error, an interruption, or a commit which raised: the renames
\* are undone after the session has ended.  A commit whose acknowledgement was
\* lost has been applied all the same.
PruneAbort(a) ==
  /\ kind[a] = "pruning"
  /\ \/ UNCHANGED attached
     \/ batch[a] = {} /\ attached' = Detach(a)
  /\ Becomes(a, "restoring")
  /\ Ends(a)
  /\ UNCHANGED <<status, digest, disk, world, crashes, op, moved>>

Restore(a, t) ==
  /\ kind[a] = "restoring"
  /\ t \in moved[a]
  /\ t \in hidden
  /\ file[t.hour] = Absent
  /\ file' = [file EXCEPT ![t.hour] = t.bytes]
  /\ hidden' = hidden \ {t}
  /\ moved' = [moved EXCEPT ![a] = @ \ {t}]
  /\ UNCHANGED <<row, world, crashes, kind, op, batch, held>>

Unlink(a, t) ==
  /\ kind[a] = "unlinking"
  /\ t \in moved[a]
  /\ hidden' = hidden \ {t}
  /\ moved' = [moved EXCEPT ![a] = @ \ {t}]
  /\ UNCHANGED <<row, file, world, crashes, kind, op, batch, held>>

\* A swallowed OSError, or a file another process has already dealt with.
LeaveHidden(a, t) ==
  /\ kind[a] \in {"restoring", "unlinking"}
  /\ t \in moved[a]
  /\ moved' = [moved EXCEPT ![a] = @ \ {t}]
  /\ UNCHANGED <<row, disk, world, crashes, kind, op, batch, held>>

PruneDone(a) ==
  /\ kind[a] \in {"restoring", "unlinking"}
  /\ moved[a] = {}
  /\ Becomes(a, "idle")
  /\ UNCHANGED <<row, disk, world, crashes, op, txn>>

-----------------------------------------------------------------------------
(* Quarantine of a canonical archive proven corrupt before a re-fetch.     *)

RepairMove(a, h) ==
  /\ kind[a] = "idle"
  /\ ~Locked(h)
  /\ status[h] \in {"downloaded", "processed"}
  /\ attached[h]
  /\ file[h] \notin {Absent, digest[h]}
  /\ file' = [file EXCEPT ![h] = Absent]
  /\ bytes' = [bytes EXCEPT ![a] = file[h]]
  /\ hour' = [hour EXCEPT ![a] = h]
  /\ held' = [held EXCEPT ![a] = {h}]
  /\ Becomes(a, "repairing")
  /\ UNCHANGED <<row, hidden, world, crashes, kept, batch, moved>>

\* A processed row only loses its attachment; any other becomes "error".
Withdraw(h) ==
  IF status[h] = "processed"
  THEN attached' = [attached EXCEPT ![h] = FALSE] /\ UNCHANGED status
  ELSE status' = [status EXCEPT ![h] = "error"] /\ UNCHANGED attached

RepairCommit(a) ==
  /\ kind[a] = "repairing"
  /\ Withdraw(hour[a])
  /\ Becomes(a, "idle")
  /\ Ends(a)
  /\ UNCHANGED <<digest, disk, world, crashes, op, moved>>

\* The commit raised, whether or not the server applied it.
RepairAbort(a) ==
  /\ kind[a] = "repairing"
  /\ \/ UNCHANGED <<status, attached>>
     \/ Withdraw(hour[a])
  /\ Becomes(a, "unrepairing")
  /\ Ends(a)
  /\ UNCHANGED <<digest, disk, world, crashes, op, moved>>

\* _restore_quarantined_archive never overwrites a newer publication, and
\* reports a failed move without raising.
RepairRestore(a) ==
  /\ kind[a] = "unrepairing"
  /\ file' = [file EXCEPT ![hour[a]] = IF @ = Absent THEN bytes[a] ELSE @]
  /\ Becomes(a, "idle")
  /\ UNCHANGED <<row, hidden, world, crashes, op, txn>>

RepairRestoreFails(a) ==
  /\ kind[a] = "unrepairing"
  /\ Becomes(a, "idle")
  /\ UNCHANGED <<row, disk, world, crashes, op, txn>>

-----------------------------------------------------------------------------
(* The environment.                                                        *)

Crash(a) ==
  /\ kind[a] # "down"
  /\ crashes < MaxCrashes
  /\ crashes' = crashes + 1
  /\ Becomes(a, "down")
  /\ Ends(a)
  /\ moved' = [moved EXCEPT ![a] = {}]
  /\ UNCHANGED <<row, disk, world, op>>

Republish(h) ==
  /\ republished < MaxRepublish
  /\ republished' = republished + 1
  /\ \E d \in Bytes \union {Absent} : served' = [served EXCEPT ![h] = d]
  /\ UNCHANGED <<row, disk, rotted, crashes, kind, op, txn>>

Rot(h) ==
  /\ h \in Perishable \ rotted
  /\ file[h] \in Bytes
  /\ file' = [file EXCEPT ![h] = Garbled]
  /\ rotted' = rotted \union {h}
  /\ UNCHANGED <<row, hidden, served, republished, crashes, kind, op, txn>>

-----------------------------------------------------------------------------

Startup(a) == \/ Boot(a) \/ BootDone(a)
              \/ \E t \in moved[a] : Reconcile(a, t) \/ ReconcileFails(a, t)

FetchStep(a) == \/ Reuse(a) \/ DiscardInvalid(a) \/ Download(a)
                \/ Publish(a) \/ PublishConflict(a) \/ FetchMissing(a)
                \/ FetchFails(a) \/ Record(a)
                \/ RecordFailure(a) \/ FailureLost(a)

RowStep(a) == \E h \in Hours : \/ RecoverStale(a, h)
                               \/ Process(a, h)
                               \/ \E d \in Bytes : Import(a, h, d)

Prune(a) == \/ \E hs \in SUBSET Hours : PruneStart(a, hs)
            \/ \E h \in Hours, g \in Tags : PruneItem(a, h, g)
            \/ \E h \in Hours : PruneSkip(a, h)
            \/ PruneCommit(a) \/ PruneAbort(a) \/ PruneDone(a)
            \/ \E t \in moved[a] : Restore(a, t) \/ Unlink(a, t) \/ LeaveHidden(a, t)

Repair(a) == \/ \E h \in Hours : RepairMove(a, h)
             \/ RepairCommit(a) \/ RepairAbort(a)
             \/ RepairRestore(a) \/ RepairRestoreFails(a)

Environment == \/ \E a \in Apps : Crash(a)
               \/ \E h \in Hours : Republish(h) \/ Rot(h)

Next == \/ \E a \in Apps : \/ Startup(a)
                           \/ \E h \in Hours : Admit(a, h)
                           \/ FetchStep(a)
                           \/ RowStep(a)
                           \/ Prune(a)
                           \/ Repair(a)
        \/ Environment

Spec == Init /\ [][Next]_vars

-----------------------------------------------------------------------------
(* Safety.                                                                 *)

\* A row which offers its archive for processing, or still claims it after.
Claimed(h) == attached[h] /\ status[h] \in {"downloaded", "processed"}

\* The bytes a row claims are never lost: whatever pruning, quarantine,
\* re-fetch, abort or death came between, they are at the canonical path or in
\* a hidden pruning file from which the next start-up restores them.  Only a
\* file which rotted on disk is exempt.  (One application process.)
ClaimedBytesSurvive ==
  \A h \in Hours : Claimed(h) /\ h \notin rotted =>
    \/ file[h] = digest[h]
    \/ /\ status[h] = "processed"
       /\ \E t \in hidden : t.hour = h /\ t.bytes = digest[h]

\* Bytes not yet processed stay in place even when two processes share the
\* database and the raw directory: no interleaving of their fetches, pruning,
\* repair and restart reconciliation takes the archive of a downloaded row.
UnprocessedBytesKept ==
  \A h \in Hours : status[h] = "downloaded" /\ h \notin rotted =>
    attached[h] /\ file[h] = digest[h]

\* A source hour which owns a content digest keeps it for ever, through
\* conflicting downloads, quarantine, import and recovery, and no operation
\* withdraws a row from "processed" once another has put it there.
DurableIdentity ==
  [][\A h \in Hours :
       /\ digest[h] # Absent => digest'[h] = digest[h]
       /\ status[h] = "processed" => status'[h] = "processed"]_vars

-----------------------------------------------------------------------------
(* What the repository says of quarantine.                                 *)

\* The filesystem and the database agree on a claimed archive when the
\* quarantine of a corrupt file is over, however it ended.
RepairLeavesAgreement ==
  [][\A a \in Apps :
       (/\ kind[a] \in {"repairing", "unrepairing"}
        /\ kind'[a] \notin {"repairing", "unrepairing"}
        /\ Claimed(hour[a])') => file'[hour[a]] # Absent]_vars

-----------------------------------------------------------------------------
(* Progress: automatic fetch returns to an incomplete hour, and finally    *)
(* each of its steps succeeds.                                             *)

\* _source_row_counts_as_complete for a locally processed or downloaded row.
Complete(h) ==
  /\ status[h] \in {"downloaded", "processed"}
  /\ attached[h] => file[h] = digest[h]
  /\ ~attached[h] => status[h] = "processed"

PruneFinish(a) == \/ PruneCommit(a) \/ PruneAbort(a) \/ PruneDone(a)
                  \/ \E t \in moved[a] : Restore(a, t) \/ Unlink(a, t)
                                        \/ LeaveHidden(a, t)

RepairFinish(a) == RepairCommit(a) \/ RepairRestore(a)
Obtain(a) == Download(a) \/ Reuse(a) \/ DiscardInvalid(a)
QuarantineIncomplete(a, h) == ~Complete(h) /\ RepairMove(a, h)
Refetch(a, h) == ~Complete(h) /\ Admit(a, h)

Fairness ==
  \A a \in Apps :
    /\ WF_vars(Startup(a))
    /\ WF_vars(FetchStep(a))
    /\ WF_vars(PruneFinish(a))
    /\ WF_vars(RepairFinish(a))
    /\ SF_vars(Obtain(a))
    /\ SF_vars(Publish(a))
    /\ SF_vars(Record(a))
    /\ \A h \in Hours : SF_vars(QuarantineIncomplete(a, h)) /\ SF_vars(Refetch(a, h))

FairSpec == Spec /\ Fairness

\* An hour whose archive is missing, corrupt or withdrawn is acquired again
\* with its durable content, provided the provider serves that content from
\* some point on: "so the ordinary coordinator reacquires the exact archive"
\* (ui/automatic_fetch_runtime.py).
Reacquired ==
  \A h \in Hours, d \in Bytes :
    <>[](served[h] = d /\ digest[h] = d) => []<>Complete(h)
=============================================================================
