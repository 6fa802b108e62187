---------------------------- MODULE PresetLifecycle ----------------------------
(***************************************************************************)
(* The rows of data presets: settings pages create, edit, enable, disable    *)
(* and delete them, while processing runs of other processes write hours of  *)
(* them and create the ones that are not there.                             *)
(*                                                                         *)
(* Each operation is one transaction of the database, at READ COMMITTED, and *)
(* one action is one of its statements: a statement sees what is committed   *)
(* when it begins, and waits for the rows it needs. Within a process the     *)
(* operation lock leaves one transaction at a time. A preset stands for its  *)
(* canonical content, which is its key and never changes.                   *)
(***************************************************************************)
EXTENDS Naturals

CONSTANTS
    Apps,       \* processes
    Presets,
    Editable    \* presets the editor can reproduce in full

VARIABLES
    rows,       \* preset -> "absent", "enabled" or "disabled", as committed
    series,     \* committed hours, each of a preset and written by a process
    tx,         \* process -> its transaction
    chosen      \* preset -> what the user last chose for the row, or "none"

vars == <<rows, series, tx, chosen>>

Flags == {"enabled", "disabled"}
Idle == [kind |-> "none", step |-> "idle", preset |-> CHOOSE p \in Presets : TRUE,
         flag |-> "enabled", inserts |-> FALSE]

Init ==
    /\ rows = [p \in Presets |-> "absent"]
    /\ series = {}
    /\ tx = [a \in Apps |-> Idle]
    /\ chosen = [p \in Presets |-> "none"]

-----------------------------------------------------------------------------
(* The locks that statements wait for.                                     *)

(* An inserted row nobody else sees yet; a second insertion waits for it.    *)
Inserting(b, p) == tx[b].preset = p /\ tx[b].inserts

(* Slip: a row is locked by the statement that changes it, not by the one     *)
(* that reads it.                                                           *)
HoldsLate(b, p) ==
    /\ tx[b].preset = p
    /\ tx[b].step = "deleted" \/ (tx[b].kind = "set" /\ tx[b].step = "locked")

(* SELECT ... FOR UPDATE, kept to the end of the transaction.                *)
Holds(b, p) == tx[b].preset = p /\ tx[b].step \in {"locked", "deleted"}

Deleting(b, p) == tx[b].preset = p /\ tx[b].step = "deleted"

(* The foreign key of an inserted hour keeps its preset.                     *)
Shares(b, p) == tx[b].preset = p /\ tx[b].step = "written"

Others(a) == Apps \ {a}

Move(a, step) ==
    /\ tx' = [tx EXCEPT ![a].step = step]
    /\ UNCHANGED <<rows, series, chosen>>

Rollback(a) ==
    /\ tx' = [tx EXCEPT ![a] = Idle]
    /\ UNCHANGED <<rows, series, chosen>>

(* What statements of a process see of a preset.                             *)
Sees(a, p) == rows[p] # "absent" \/ Inserting(a, p)

-----------------------------------------------------------------------------
(* The operations.                                                         *)

Start(a, kind, p, flag, step) ==
    /\ tx[a].kind = "none"
    /\ tx' = [tx EXCEPT ![a] = [Idle EXCEPT !.kind = kind, !.preset = p, !.flag = flag,
                                            !.step = step]]
    /\ UNCHANGED <<rows, series, chosen>>

Create(a, p, flag) == Start(a, "create", p, flag, "ensure")

(* Canonical content that the editor's builders give back exactly.           *)
EditorSupports(p) == p \in Editable

(* An edited preset is another preset; the one it was edited from is read.   *)
Edit(a, old, p, flag) ==
    /\ rows[old] # "absent" /\ EditorSupports(old)
    /\ Start(a, "create", p, flag, "ensure")

SetEnabled(a, p, flag) == Start(a, "set", p, flag, "lock")

Delete(a, p) == Start(a, "delete", p, "disabled", "lock")

(* The transaction of a processed hour, after its replay.                    *)
WriteHour(a, p) == Start(a, "write", p, "enabled", "ensure")

-----------------------------------------------------------------------------
(* The statements.                                                         *)

(* Slip: an existing row takes the flag that was asked for.                  *)
EnsureOverwrites(a) ==
    LET p == tx[a].preset
    IN  /\ tx[a].step = "ensure"
        /\ \A b \in Others(a) : ~Inserting(b, p) /\ ~Deleting(b, p)
        /\ tx' = [tx EXCEPT ![a].step = "reread", ![a].inserts = TRUE]
        /\ UNCHANGED <<rows, series, chosen>>

(* INSERT ... ON CONFLICT DO NOTHING: an existing row stays as it is, and is *)
(* not locked.                                                              *)
Ensure(a) ==
    LET p == tx[a].preset
    IN  /\ tx[a].step = "ensure"
        /\ \A b \in Others(a) : ~Inserting(b, p) /\ ~Deleting(b, p)
        /\ tx' = [tx EXCEPT ![a].step = "reread", ![a].inserts = rows[p] = "absent"]
        /\ UNCHANGED <<rows, series, chosen>>

Reread(a) ==
    /\ tx[a].step = "reread"
    /\ IF ~Sees(a, tx[a].preset) THEN Rollback(a)
       ELSE Move(a, IF tx[a].kind = "write" THEN "look" ELSE "ensured")

(* The hour looks for its preset once more before it is inserted.            *)
Look(a) ==
    /\ tx[a].step = "look"
    /\ IF Sees(a, tx[a].preset) THEN Move(a, "insert") ELSE Rollback(a)

InsertHour(a) ==
    LET p == tx[a].preset
    IN  /\ tx[a].step = "insert"
        /\ \A b \in Others(a) : ~Holds(b, p)
        /\ IF Sees(a, p) THEN Move(a, "written") ELSE Rollback(a)

(* A deletion is of a disabled preset.                                      *)
LockRow(a) ==
    LET p == tx[a].preset
    IN  /\ tx[a].step = "lock"
        /\ \A b \in Others(a) : ~Holds(b, p) /\ ~Shares(b, p)
        /\ IF rows[p] = "absent" \/ (tx[a].kind = "delete" /\ rows[p] = "enabled")
           THEN Rollback(a) ELSE Move(a, "locked")

(* It is of a preset without hours.                                         *)
Remove(a) ==
    /\ tx[a].kind = "delete" /\ tx[a].step = "locked"
    /\ IF \E h \in series : h[1] = tx[a].preset THEN Rollback(a) ELSE Move(a, "deleted")

Committed(a, flag, hours, choice) ==
    LET p == tx[a].preset
    IN  /\ rows' = [rows EXCEPT ![p] = flag]
        /\ series' = series \cup hours
        /\ chosen' = [chosen EXCEPT ![p] = choice]
        /\ tx' = [tx EXCEPT ![a] = Idle]

Commit(a) ==
    LET p == tx[a].preset
        t == tx[a]
    IN  \/ t.step = "ensured"
             /\ Committed(a, IF t.inserts THEN t.flag ELSE rows[p], {},
                          IF t.inserts THEN t.flag ELSE chosen[p])
        \/ t.step = "written"
             /\ Committed(a, IF t.inserts THEN t.flag ELSE rows[p], {<<p, a>>}, chosen[p])
        \/ t.kind = "set" /\ t.step = "locked" /\ Committed(a, t.flag, {}, t.flag)
        \/ t.step = "deleted" /\ Committed(a, "absent", {}, "none")

(* A failure or a crash at any point leaves nothing.                         *)
Abort(a) == tx[a].kind # "none" /\ Rollback(a)

Next ==
    \E a \in Apps :
        \/ \E p \in Presets :
            \/ \E flag \in Flags :
                \/ Create(a, p, flag) \/ SetEnabled(a, p, flag)
                \/ \E old \in Presets : Edit(a, old, p, flag)
            \/ Delete(a, p) \/ WriteHour(a, p)
        \/ Ensure(a) \/ Reread(a) \/ Look(a) \/ InsertHour(a) \/ LockRow(a) \/ Remove(a)
        \/ Commit(a) \/ Abort(a)

Spec == Init /\ [][Next]_vars

-----------------------------------------------------------------------------
(* When a deletion is about to commit, the preset it removes is still         *)
(* disabled, and neither a committed hour nor one that a concurrent run has   *)
(* inserted is of it.                                                       *)
DeletionIsSafe ==
    \A a \in Apps :
        tx[a].step = "deleted" =>
            /\ rows[tx[a].preset] = "disabled"
            /\ \A h \in series : h[1] # tx[a].preset
            /\ \A b \in Apps : ~Shares(b, tx[a].preset)

(* A committed hour has its preset, whatever was deleted while the run that    *)
(* wrote it replayed; and the row of a preset is as the user last chose it:   *)
(* a run that finds a disabled preset writes its hour and leaves it disabled. *)
ChoiceIsKept ==
    /\ \A h \in series : rows[h[1]] # "absent"
    /\ \A p \in Presets : chosen[p] # "none" => rows[p] = chosen[p]

(* Both: what processes do to presets next to each other harms none of them. *)
PresetsAreSafe == DeletionIsSafe /\ ChoiceIsKept
=============================================================================
