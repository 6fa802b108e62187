----------------------------- MODULE RemoteImport -----------------------------
(***************************************************************************)
(* The import of a range of artifacts that remote workers published: one    *)
(* run at a time over the keys of the range, each key downloaded and then   *)
(* written in a transaction of its own, while workers publish more and      *)
(* local fetches and processing change the same source hours.               *)
(*                                                                         *)
(* A run of the Hugging Face backend reads one pinned commit; a B2 run       *)
(* reads each publication as it finds it.  A download and a transaction run *)
(* in a worker thread which a cancellation cannot interrupt.  The operation *)
(* lock is in OperationAdmission, the checkpoints an import installs are in *)
(* CheckpointOwnership.                                                     *)
(***************************************************************************)
EXTENDS Integers, Sequences, SequencesExt

CONSTANTS
    Hours,
    Markets,       \* the sequence in which an hour's markets are asked for
    Depths,        \* a run asks for one depth; with a market it is a preset
    Artifacts(_),  \* what a key may be made of, each with its provenance
    DigestOf(_),   \* the archive an artifact was made of
    Requests,      \* what a run may be asked for: first hour, end, depth
    MaxPublished,  \* bound: artifacts published
    MaxRuns,       \* bound: runs; nothing else happens after the last
    MaxEvents,     \* bound: local operations, stops, and keys a run has more than one
    Null

Backends == {"hf", "b2"}
Sources == Hours \X ToSet(Markets)
Keys == Hours \X ToSet(Markets) \X Depths
SourceOf(k) == <<k[1], k[2]>>

(* The keys of a request, hour by hour.                                      *)
Planned(r) ==
    LET n == Len(Markets)
    IN  [i \in 1 .. (r[2] - r[1]) * n |->
            <<r[1] + (i - 1) \div n, Markets[((i - 1) % n) + 1], r[3]>>]

(* Every request is of hours, markets and a depth that are there, and nothing *)
(* that is written is Null.                                                  *)
ImportAssumptions ==
    /\ Hours \subseteq Int
    /\ Markets \in Seq(ToSet(Markets)) /\ Markets # <<>>
    /\ \A r \in Requests :
         /\ r[1] \in Int /\ r[2] \in Int /\ r[1] =< r[2]
         /\ r[1] .. (r[2] - 1) \subseteq Hours
         /\ r[3] \in Depths
    /\ \A k \in Keys : Null \notin Artifacts(k) /\ \A a \in Artifacts(k) : DigestOf(a) # Null
    /\ Null \notin Nat \cup {"hf"}

VARIABLES
    published,   \* backend -> key -> [artifact, at] or Null
    head,        \* the newest commit; it counts B2's publications too
    stored,      \* key -> the artifact its analytical row holds, or Null
    source,      \* source hour -> its row
    listed,      \* key -> the content its source row lists for the preset
    runtime,     \* the runtime of the process: [backend, sequence]
    job,         \* its run
    result,      \* its last result, or Null
    ended, events

remote == <<published, head>>
local == <<stored, source, listed>>
vars == <<remote, local, runtime, job, result, ended, events>>

Idle == [phase |-> "idle", keys |-> <<>>, items |-> <<>>, pinned |-> Null, fetched |-> Null,
         stop |-> FALSE, cancelled |-> FALSE]

Init ==
    /\ published = [b \in Backends |-> [k \in Keys |-> Null]]
    /\ head = 1
    /\ stored = [k \in Keys |-> Null]
    /\ source = [s \in Sources |-> [status |-> "planned", digest |-> Null, attached |-> "none",
                                    origin |-> Null, revision |-> Null, imported |-> Null]]
    /\ listed = [k \in Keys |-> Null]
    /\ runtime \in [backend : Backends, sequence : {0}]
    /\ job = Idle
    /\ result = Null
    /\ ended = 0 /\ events = 0

Event == events < MaxEvents /\ ended < MaxRuns /\ events' = events + 1

-----------------------------------------------------------------------------
(* Admission.                                                              *)

(* Slip: the new runtime counts from nothing.                                *)
SwitchAnew(b) ==
    /\ job.phase = "idle" /\ runtime.backend # b
    /\ runtime' = [backend |-> b, sequence |-> 0]
    /\ result' = Null
    /\ UNCHANGED <<remote, local, job, ended, events>>

(* Another backend takes over a runtime that is idle, and its count.         *)
Switch(b) ==
    /\ job.phase = "idle" /\ runtime.backend # b
    /\ runtime' = [backend |-> b, sequence |-> runtime.sequence]
    /\ result' = Null
    /\ UNCHANGED <<remote, local, job, ended, events>>

Start(request) ==
    LET keys == Planned(request)
    IN  /\ job.phase = "idle" /\ ended < MaxRuns
        /\ events + Len(keys) - 1 =< MaxEvents
        /\ events' = events + Len(keys) - 1
        /\ job' = [Idle EXCEPT !.phase = "admitted", !.keys = keys]
        /\ result' = Null
        /\ UNCHANGED <<remote, local, runtime, ended>>

(* The event loop runs other callbacks only while the task awaits.           *)
Awaiting == job.phase \in {"admitted", "pin", "download", "import"}

RequestStop ==
    /\ Awaiting /\ ~job.stop
    /\ Event
    /\ job' = [job EXCEPT !.stop = TRUE]
    /\ UNCHANGED <<remote, local, runtime, result, ended>>

Cancel ==
    /\ Awaiting /\ ~job.cancelled
    /\ Event
    /\ job' = [job EXCEPT !.stop = TRUE, !.cancelled = TRUE]
    /\ UNCHANGED <<remote, local, runtime, result, ended>>

Ends(outcome) ==
    /\ job' = Idle
    /\ result' = outcome
    /\ runtime' = [runtime EXCEPT !.sequence = @ + 1]
    /\ ended' = ended + 1
    /\ UNCHANGED events

(* Before its first thread a cancelled task ends at once.                    *)
CancelTakes ==
    /\ job.phase = "admitted" /\ job.cancelled
    /\ Ends(Null)
    /\ UNCHANGED <<remote, local>>

-----------------------------------------------------------------------------
(* The run.                                                                *)

To(phase) == [job EXCEPT !.phase = phase]

Enter ==
    /\ job.phase = "admitted" /\ ~job.cancelled
    /\ job' = To(IF job.stop THEN "loop" ELSE "pin")
    /\ UNCHANGED <<remote, local, runtime, result, ended, events>>

(* What a thread returns to; a cancelled task ends as soon as it does.       *)
Returns(next) ==
    IF job.cancelled THEN Ends(Null)
    ELSE job' = next /\ UNCHANGED <<runtime, result, ended, events>>

Pin ==
    /\ job.phase = "pin"
    /\ Returns([To("loop") EXCEPT !.pinned = IF runtime.backend = "hf" THEN head ELSE Null])
    /\ UNCHANGED <<remote, local>>

PinFails ==
    /\ job.phase = "pin"
    /\ Ends(Null)
    /\ UNCHANGED <<remote, local>>

Current == job.keys[Len(job.items) + 1]
Remaining == Len(job.items) < Len(job.keys)

NextKey ==
    /\ job.phase = "loop"
    /\ Remaining /\ ~job.stop
    /\ job' = To("download")
    /\ UNCHANGED <<remote, local, runtime, result, ended, events>>

Noted(what) ==
    [To("loop") EXCEPT !.fetched = Null,
                       !.items = Append(@, [key |-> Current, what |-> what])]

(* Slip: the newest commit is read.                                          *)
VisibleAtHead(k) == published[runtime.backend][k] # Null

Visible(k) ==
    LET p == published[runtime.backend][k]
    IN  p # Null /\ (runtime.backend = "hf" => p.at =< job.pinned)

Download ==
    /\ job.phase = "download"
    /\ Returns(IF Visible(Current)
               THEN [To("import") EXCEPT
                       !.fetched = published[runtime.backend][Current].artifact]
               ELSE Noted("missing"))
    /\ UNCHANGED <<remote, local>>

(* A download or a transaction that fails is an item, and leaves nothing.    *)
ItemFails ==
    /\ job.phase \in {"download", "import"}
    /\ Returns(Noted("error"))
    /\ UNCHANGED <<remote, local>>

-----------------------------------------------------------------------------
(* The transaction of an artifact.                                         *)

(* The row of an hour and preset is inserted, or is already the same one.    *)
Writable(k, a) == stored[k] \in {Null, a}

(* Slip: the archive the source row names is not compared.                   *)
OwnableBlindly(s, a) == source[s].status # "downloading" /\ source[s].attached # "bad"

(* An attached archive must still be the one its row names.                  *)
Ownable(s, a) ==
    /\ source[s].status # "downloading"
    /\ source[s].digest \in {Null, DigestOf(a)}
    /\ source[s].attached # "bad"

(* A B2 import is no longer the import of any HF commit.                     *)
Imported(row, k, a) ==
    [row EXCEPT !.status = "processed", !.digest = DigestOf(a),
                !.origin = runtime.backend, !.revision = job.pinned,
                !.imported = [key |-> k, artifact |-> a]]

Write(k, a) ==
    /\ Writable(k, a)
    /\ stored' = [stored EXCEPT ![k] = a]
    /\ listed' = [listed EXCEPT ![k] = a]

Import ==
    LET k == Current
        a == job.fetched
        s == SourceOf(k)
    IN  /\ job.phase = "import"
        /\ Ownable(s, a)
        /\ Write(k, a)
        /\ source' = [source EXCEPT ![s] = Imported(@, k, a)]
        /\ Returns(Noted(IF stored[k] = Null THEN "imported" ELSE "reused"))
        /\ UNCHANGED remote

-----------------------------------------------------------------------------
Did(what) == {job.items[i].key : i \in {j \in DOMAIN job.items : job.items[j].what = what}}

Status ==
    LET good == Did("imported") \cup Did("reused")
        bad == Did("missing") \cup Did("error")
    IN  CASE job.stop -> "stopped"
          [] ~job.stop /\ bad = {} -> "ok"
          [] ~job.stop /\ bad # {} /\ good # {} -> "partial_ok"
          [] OTHER -> "error"

Finish ==
    /\ job.phase = "loop"
    /\ job.stop \/ ~Remaining
    /\ Ends([status |-> Status, keys |-> job.keys, items |-> job.items, pinned |-> job.pinned,
             backend |-> runtime.backend])
    /\ UNCHANGED <<remote, local>>

Work ==
    \/ CancelTakes \/ Enter \/ Pin \/ PinFails \/ NextKey
    \/ Download \/ ItemFails \/ Import \/ Finish

-----------------------------------------------------------------------------
(* The workers; what is published stays.                                   *)

Publish(b, k, a) ==
    /\ published[b][k] = Null
    /\ head =< MaxPublished /\ ended < MaxRuns
    /\ head' = head + 1
    /\ published' = [published EXCEPT ![b][k] = [artifact |-> a, at |-> head']]
    /\ UNCHANGED <<local, runtime, job, result, ended, events>>

-----------------------------------------------------------------------------
(* Local operations on a source hour, which an import excludes by its lock. *)

Local ==
    /\ Event
    /\ UNCHANGED <<remote, runtime, job, result, ended>>

Claim(s) ==
    /\ Local
    /\ source[s].status = "planned"
    /\ source' = [source EXCEPT ![s].status = "downloading"]
    /\ UNCHANGED <<stored, listed>>

Attach(s, digest) ==
    /\ Local
    /\ source[s].status \in {"planned", "downloading", "processed"} /\ source[s].attached # "good"
    /\ source[s].digest \in {Null, digest}
    /\ source' = [source EXCEPT ![s].status = IF @ = "processed" THEN @ ELSE "downloaded",
                                ![s].digest = digest, ![s].attached = "good"]
    /\ UNCHANGED <<stored, listed>>

(* The bytes on the disk change.                                             *)
Damage(s) ==
    /\ Local
    /\ source[s].attached = "good"
    /\ source' = [source EXCEPT ![s].attached = "bad"]
    /\ UNCHANGED <<stored, listed>>

(* Local processing keeps what an import wrote about itself.                 *)
Process(k, a) ==
    LET s == SourceOf(k)
    IN  /\ Local
        /\ source[s].status \in {"downloaded", "processed"} /\ source[s].attached = "good"
        /\ source[s].digest = DigestOf(a)
        /\ Write(k, a)
        /\ source' = [source EXCEPT ![s].status = "processed"]

Next ==
    \/ \E b \in Backends : Switch(b)
    \/ \E request \in Requests : Start(request)
    \/ RequestStop \/ Cancel \/ Work
    \/ \E s \in Sources : Claim(s) \/ Damage(s)
    \/ \E k \in Keys : \E a \in Artifacts(k) :
        \/ \E b \in Backends : Publish(b, k, a)
        \/ Attach(SourceOf(k), DigestOf(a)) \/ Process(k, a)

Spec == Init /\ [][Next]_vars

-----------------------------------------------------------------------------
(* A result is true: a key it calls imported or reused is in the database as  *)
(* its backend published it; a key it calls missing was not in the commit the *)
(* run pinned, whatever was published meanwhile; and "ok" leaves no key out.  *)
ResultIsTrue ==
    result # Null =>
        LET At(i) == published[result.backend][result.items[i].key]
        IN  /\ \A i \in DOMAIN result.items :
                 CASE result.items[i].what \in {"imported", "reused"} ->
                        /\ At(i) # Null /\ stored[result.items[i].key] = At(i).artifact
                        /\ result.backend = "hf" => At(i).at =< result.pinned
                   [] result.items[i].what = "missing" ->
                        result.backend = "hf" /\ At(i) # Null => At(i).at > result.pinned
                   [] OTHER -> TRUE
            /\ result.status = "ok" =>
                 \A k \in ToSet(result.keys) : stored[k] # Null

(* What the diagnostics of the analytical rows report: content a processed    *)
(* source row lists that its row does not hold, and rows no such row lists.   *)
MissingOutputs ==
    {k \in Keys : source[SourceOf(k)].status = "processed" /\ listed[k] \notin {Null, stored[k]}}

OrphanRows ==
    {k \in Keys : stored[k] # Null
                   /\ ~(source[SourceOf(k)].status = "processed" /\ listed[k] = stored[k])}

(* A source hour owns what its rows hold, however imports and local runs of   *)
(* several presets of it followed one another: it is processed as soon as one *)
(* of them exists, names the archive all of them were made of, lists each of  *)
(* them, so that the diagnostics report none, and what it says of an import   *)
(* is of a row that is there.                                                *)
SourceOwnsItsRows ==
    /\ MissingOutputs = {} /\ OrphanRows = {}
    /\ \A k \in Keys :
         /\ listed[k] = stored[k]
         /\ stored[k] # Null => source[SourceOf(k)].digest = DigestOf(stored[k])
    /\ \A s \in Sources :
         LET i == source[s].imported
         IN  /\ i # Null => stored[i.key] = i.artifact
             /\ source[s].origin = "hf" <=> source[s].revision # Null

(* A page that compares counts sees the end of every run, whichever backend   *)
(* it was of and whether it finished, failed or was cancelled.               *)
EndsAreCounted == runtime.sequence = ended

ImportIsTrue == ResultIsTrue /\ SourceOwnsItsRows /\ EndsAreCounted
=============================================================================
