--------------------------- MODULE MaintenanceAction ---------------------------
(***************************************************************************)
(* Maintenance that a user previews and then confirms on the settings page:  *)
(* the recovery of source rows stuck in a download, and the deletion of     *)
(* checkpoint files nothing refers to. Meanwhile other processes download,   *)
(* publish checkpoints, commit references to them and delete them.           *)
(*                                                                         *)
(* A preview is what a worker thread reads; its execution, in another        *)
(* thread, reads the same again, compares, and then acts item by item under  *)
(* the locks of each. The pruning of raw files runs through the same preview *)
(* and confirmation; its batch is in RawArchive. A token is the content it   *)
(* is the digest of. PROCESSING is never committed (RawArchive), so a stale  *)
(* row is one of a download.                                                *)
(***************************************************************************)
EXTENDS Naturals, FiniteSets

CONSTANTS
    Rows, Files, Pages,
    Discovered(_),  \* row -> the time it was discovered, which is its age's anchor
    StaleAfter, OrphanAge, Validity,
    MaxTime,        \* bound
    MaxEvents,      \* bound: previews, cancellations and steps of other processes
    Null

VARIABLES
    now,
    row,         \* row -> its committed status
    file,        \* checkpoint -> the time its file was written, or Null
    referenced,  \* checkpoints a committed row or provenance names
    open,        \* checkpoints that transactions of other processes have locked
    page,        \* settings page -> its state
    lock,        \* the page that owns the operation lock, or Null
    worker,      \* the executing thread, or Null
    effects,     \* history: what executions did, each [id, item]
    audits,      \* history: the reports of executions
    events

vars == <<now, row, file, referenced, open, page, lock, worker, effects, audits, events>>
world == <<now, row, file, referenced, open>>
history == <<effects, audits>>

Init ==
    /\ now = 1
    /\ row = [s \in Rows |-> "downloading"]
    /\ file = [k \in Files |-> 0]
    /\ referenced \in SUBSET Files
    /\ open = {}
    /\ page = [p \in Pages |-> [reads |-> Null, pending |-> Null, dialog |-> FALSE,
                                clicks |-> 0, meant |-> Null]]
    /\ lock = Null /\ worker = Null
    /\ effects = {} /\ audits = {}
    /\ events = 0

Event == events < MaxEvents /\ events' = events + 1

-----------------------------------------------------------------------------
(* What there is to do.                                                    *)

StaleItems(at) == {s \in Rows : row[s] = "downloading" /\ at - Discovered(s) > StaleAfter}

(* Files that no reference of those read names, in their canonical place.    *)
Unreferenced(refs) == {k \in Files : file[k] # Null /\ k \notin refs}

Old(k, at) == file[k] + OrphanAge =< at

(* An item names the file as it was listed, its age included.                *)
OrphanItems(refs, at) ==
    {[file |-> k, written |-> file[k]] : k \in {j \in Unreferenced(refs) : Old(j, at)}}

Blocked(refs, at) == {k \in Unreferenced(refs) : ~Old(k, at)}

(* The plan of a kind at a time, from the references read before the files.  *)
Plan(kind, refs, at) ==
    IF kind = "stale" THEN [items |-> StaleItems(at), blocked |-> 0]
    ELSE [items |-> OrphanItems(refs, at), blocked |-> Cardinality(Blocked(refs, at))]

-----------------------------------------------------------------------------
(* The preview.                                                            *)

(* The browser's events come in the order they were made: a click on a        *)
(* preview is handled after the confirmations before it.                     *)
Preview(p, kind) ==
    /\ lock = Null /\ page[p].reads = Null /\ page[p].clicks = 0 /\ ~page[p].dialog
    /\ Event
    /\ page' = [page EXCEPT ![p].reads =
                   [id |-> events', kind |-> kind, at |-> now, refs |-> referenced]]
    /\ UNCHANGED <<world, lock, worker, history>>

Shown(p) ==
    LET r == page[p].reads
        plan == Plan(r.kind, r.refs, r.at)
    IN  /\ r # Null
        /\ page' = [page EXCEPT ![p].reads = Null,
                      ![p].pending = [id |-> r.id, kind |-> r.kind, at |-> r.at,
                                      items |-> plan.items, blocked |-> plan.blocked],
                      ![p].dialog = @ \/ plan.items # {}]
        /\ UNCHANGED <<world, lock, worker, history, events>>

PreviewFails(p) ==
    /\ page[p].reads # Null
    /\ page' = [page EXCEPT ![p].reads = Null, ![p].pending = Null]
    /\ UNCHANGED <<world, lock, worker, history, events>>

(* A double click confirms twice what the dialog shows.                      *)
Click(p, n) ==
    /\ page[p].dialog /\ page[p].clicks = 0
    /\ page' = [page EXCEPT ![p].clicks = n, ![p].meant = page[p].pending]
    /\ UNCHANGED <<world, lock, worker, history, events>>

Dismiss(p) ==
    /\ page[p].dialog /\ page[p].clicks = 0
    /\ page' = [page EXCEPT ![p].dialog = FALSE]
    /\ UNCHANGED <<world, lock, worker, history, events>>

(* One execution at a time, of what is pending when the click is handled.    *)
Confirm(p) ==
    LET starts == page[p].pending # Null /\ lock = Null
    IN  /\ page[p].clicks > 0
        /\ page' = [page EXCEPT ![p].dialog = FALSE, ![p].clicks = @ - 1]
        /\ lock' = IF starts THEN p ELSE lock
        /\ worker' = IF ~starts THEN worker
                     ELSE [page |-> p, preview |-> page[p].pending, step |-> "verify",
                           started |-> now, refs |-> {}, todo |-> {}, did |-> {}, failed |-> {},
                           current |-> Null, cancelled |-> FALSE]
        /\ UNCHANGED <<world, history, events>>

(* Slip: the lock goes with the handler.                                     *)
CancelReleases ==
    /\ worker # Null /\ ~worker.cancelled
    /\ Event
    /\ worker' = [worker EXCEPT !.cancelled = TRUE]
    /\ lock' = Null
    /\ UNCHANGED <<world, page, history>>

(* A cancelled handler waits for its worker, and keeps the lock until then.  *)
Cancel ==
    /\ worker # Null /\ ~worker.cancelled
    /\ Event
    /\ worker' = [worker EXCEPT !.cancelled = TRUE]
    /\ UNCHANGED <<world, page, lock, history>>

-----------------------------------------------------------------------------
(* The end of an execution.                                                *)

Ends(pending) ==
    /\ page' = [page EXCEPT ![worker.page].pending = pending]
    /\ lock' = Null /\ worker' = Null

(* Slip: the preview stays.                                                  *)
ReportedAgain(did) ==
    /\ audits' = audits \cup {[preview |-> worker.preview, succeeded |-> did,
                               failed |-> worker.failed]}
    /\ Ends(page[worker.page].pending)

(* A completed action is never offered again.                                *)
Reported(did) ==
    /\ audits' = audits \cup {[preview |-> worker.preview, succeeded |-> did,
                               failed |-> worker.failed]}
    /\ Ends(Null)

(* One that raised has done nothing, and may be confirmed again.             *)
Raises == Ends(IF worker.cancelled THEN Null ELSE page[worker.page].pending)

-----------------------------------------------------------------------------
(* The verification.                                                       *)

At(step) == worker # Null /\ worker.step = step

Expired == worker.started > worker.preview.at + Validity

VerifyReads ==
    /\ At("verify")
    /\ IF Expired THEN Raises
       ELSE /\ worker' = [worker EXCEPT !.step = "compare", !.refs = referenced]
            /\ UNCHANGED <<page, lock>>
    /\ UNCHANGED <<world, history, events>>

(* The same rows, or the same files as they were listed, and as many blocked. *)
IsUnchanged ==
    LET plan == Plan(worker.preview.kind, worker.refs, worker.preview.at)
    IN  plan.items = worker.preview.items /\ plan.blocked = worker.preview.blocked

VerifyCompares ==
    /\ At("compare")
    /\ IF ~IsUnchanged THEN Raises
       ELSE /\ worker' = [worker EXCEPT !.step = "act", !.todo = worker.preview.items]
            /\ UNCHANGED <<page, lock>>
    /\ UNCHANGED <<world, history, events>>

-----------------------------------------------------------------------------
(* The items.                                                              *)

Acting(kind) == At("act") /\ worker.preview.kind = kind /\ worker.current = Null

FailsItem(i) == worker' = [worker EXCEPT !.todo = @ \ {i}, !.failed = @ \cup {i}, !.current = Null]

(* A lock another process holds, an unreadable file or any other failure.    *)
ItemFails ==
    /\ At("act")
    /\ \E i \in worker.todo : worker.current \in {Null, i} /\ FailsItem(i)
    /\ UNCHANGED <<world, page, lock, history, events>>

(* Slip: the row is recovered from whatever it has become.                   *)
RecoverAny ==
    /\ Acting("stale")
    /\ \E s \in worker.todo : worker' = [worker EXCEPT !.todo = @ \ {s}, !.did = @ \cup {s}]
    /\ UNCHANGED <<world, page, lock, history, events>>

(* Under the row's lock it must still be as it was previewed; all recoveries  *)
(* commit together.                                                         *)
Recover ==
    /\ Acting("stale")
    /\ \E s \in worker.todo :
         /\ row[s] = "downloading"
         /\ worker' = [worker EXCEPT !.todo = @ \ {s}, !.did = @ \cup {s}]
    /\ UNCHANGED <<world, page, lock, history, events>>

(* Rows whose recovery is not committed yet; their locks are held.           *)
Recovering == IF At("act") /\ worker.preview.kind = "stale" THEN worker.did ELSE {}

CommitRecoveries ==
    /\ Acting("stale") /\ worker.todo = {}
    /\ row' = [s \in Rows |-> IF s \in worker.did THEN "error" ELSE row[s]]
    /\ effects' = effects \cup {[id |-> worker.preview.id, item |-> s, was |-> row[s]] :
                                s \in worker.did}
    /\ Reported(worker.did)
    /\ UNCHANGED <<now, file, referenced, open, events>>

(* Slip: the report of what was prepared is returned all the same.           *)
CommitFailsUnnoticed ==
    /\ Acting("stale") /\ worker.todo = {}
    /\ Reported(worker.did)
    /\ UNCHANGED <<world, effects, events>>

CommitFails ==
    /\ Acting("stale") /\ worker.todo = {}
    /\ Raises
    /\ UNCHANGED <<world, history, events>>

(* Slip: the references read for the comparison are enough.                  *)
TakeOrphanCompared ==
    /\ Acting("orphans")
    /\ \E i \in worker.todo :
         /\ file[i.file] # Null
         /\ i.file \notin open /\ i.file \notin worker.refs
         /\ worker' = [worker EXCEPT !.current = i]
    /\ UNCHANGED <<world, page, lock, history, events>>

(* Under the locks of the checkpoint and of its hour.                        *)
TakeOrphan ==
    /\ Acting("orphans")
    /\ \E i \in worker.todo :
         /\ file[i.file] # Null
         /\ i.file \notin open /\ i.file \notin referenced
         /\ worker' = [worker EXCEPT !.current = i]
    /\ UNCHANGED <<world, page, lock, history, events>>

(* The file is removed before its transaction ends, which may still fail.    *)
Unlink(ok) ==
    LET i == worker.current
    IN  /\ At("act") /\ worker.current # Null
        /\ file' = [file EXCEPT ![i.file] = Null]
        /\ effects' = effects \cup {[id |-> worker.preview.id, item |-> i,
                                     was |-> IF i.file \in referenced THEN "used" ELSE "orphan"]}
        /\ IF ok THEN worker' = [worker EXCEPT !.todo = @ \ {i}, !.did = @ \cup {i}, !.current = Null]
           ELSE FailsItem(i)
        /\ UNCHANGED <<now, row, referenced, open, page, lock, audits, events>>

FinishDeletion ==
    /\ Acting("orphans") /\ worker.todo = {}
    /\ Reported(worker.did)
    /\ UNCHANGED <<world, effects, events>>

Execute ==
    /\ worker # Null
    /\ \/ VerifyReads \/ VerifyCompares \/ ItemFails \/ Recover \/ CommitRecoveries \/ CommitFails
       \/ TakeOrphan \/ (\E ok \in BOOLEAN : Unlink(ok)) \/ FinishDeletion

-----------------------------------------------------------------------------
(* The others.                                                             *)

Tick == now < MaxTime /\ now' = now + 1
        /\ UNCHANGED <<row, file, referenced, open, page, lock, worker, history, events>>

Elsewhere == Event /\ UNCHANGED <<now, page, lock, worker, history>>

(* A download ends, or one begins again.                                     *)
Downloads(s) ==
    /\ Elsewhere
    /\ s \notin Recovering
    /\ row' = [row EXCEPT ![s] = IF @ = "downloading" THEN "downloaded" ELSE "downloading"]
    /\ UNCHANGED <<file, referenced, open>>

LockedHere(k) == worker # Null /\ worker.current # Null /\ worker.current.file = k

(* A run publishes a checkpoint, or finds it there, and then owns it or not.  *)
Publish(k) ==
    /\ Elsewhere
    /\ k \notin open /\ ~LockedHere(k)
    /\ open' = open \cup {k}
    /\ file' = [file EXCEPT ![k] = IF @ = Null THEN now ELSE @]
    /\ UNCHANGED <<row, referenced>>

Settle(k, owned) ==
    /\ k \in open
    /\ open' = open \ {k}
    /\ referenced' = IF owned THEN referenced \cup {k} ELSE referenced \ {k}
    /\ UNCHANGED <<now, row, file, page, lock, worker, history, events>>

OtherDeletes(k) ==
    /\ Elsewhere
    /\ k \notin open /\ k \notin referenced /\ ~LockedHere(k)
    /\ file[k] # Null
    /\ file' = [file EXCEPT ![k] = Null]
    /\ UNCHANGED <<row, referenced, open>>

Next ==
    \/ \E p \in Pages :
        \/ \E kind \in {"stale", "orphans"} : Preview(p, kind)
        \/ Shown(p) \/ PreviewFails(p) \/ Dismiss(p) \/ Confirm(p)
        \/ \E n \in {1, 2} : Click(p, n)
    \/ Cancel \/ Execute \/ Tick
    \/ \E s \in Rows : Downloads(s)
    \/ \E k \in Files : Publish(k) \/ OtherDeletes(k) \/ \E owned \in BOOLEAN : Settle(k, owned)

Spec == Init /\ [][Next]_vars

-----------------------------------------------------------------------------
(* Nothing is done that was not confirmed: what is executed is what the page  *)
(* showed when it was clicked on, each of its items is still what made it one *)
(* when it is acted upon, and a preview that was executed is never pending    *)
(* again, so that no click of a double click executes it a second time.      *)
OnlyConfirmed ==
    /\ worker # Null => /\ lock = worker.page
                        /\ page[worker.page].meant = worker.preview
                        /\ \A a \in audits : a.preview # worker.preview
    /\ \A e \in effects : e.was \in {"downloading", "orphan"}

(* A report accounts for every item of its preview; what it calls done was    *)
(* done, and a recovery it calls failed was not.                             *)
AuditIsTrue ==
    \A a \in audits :
        LET done == {e.item : e \in {f \in effects : f.id = a.preview.id}}
        IN  /\ a.succeeded \cup a.failed = a.preview.items
            /\ a.succeeded \cap a.failed = {}
            /\ a.succeeded \subseteq done
            /\ a.preview.kind = "stale" => done = a.succeeded

MaintenanceIsConfirmed == OnlyConfirmed /\ AuditIsTrue
=============================================================================
