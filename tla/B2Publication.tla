----------------------------- MODULE B2Publication -----------------------------
(***************************************************************************)
(* The publication of artifacts in a bucket of versioned objects            *)
(* (b2_transport, b2_repository, b2_publication), by the worker of a chain  *)
(* through its repository (b2_worker_repository) and by the migration that  *)
(* fills the bucket from another storage (b2_migration).                    *)
(*                                                                         *)
(* A key has three objects: an artifact, its manifest, and the descriptor   *)
(* that pins one version of each and so completes the publication.  A       *)
(* version never changes, but somebody else may delete it.  An artifact is  *)
(* what its manifest says, so that one content stands for both, and it      *)
(* fixes whether it carries a checkpoint and has a valid second.  Nothing   *)
(* excludes two writers but the promise of their callers.                   *)
(***************************************************************************)
EXTENDS Naturals, Sequences, FiniteSetsExt

CONSTANTS
  Plan,        \* the keys of a migration, in the order of their hours
  Chain,       \* of each key: its chain of L2 hours, or Null for a price key
  Contents,    \* [checkpoint : BOOLEAN, valid : BOOLEAN]
  Sources,     \* what the source may hold at first: [Keys -> Contents \union {Null}]
  Chained,     \* the keys the worker looks at and publishes
  Null,        \* no content
  Lost,        \* in the place of a deleted version
  Unknown,     \* a key the worker has not looked at
  MaxAttempts, \* total_max_attempts of one request
  MaxRuns,     \* migrations
  MaxUpsets    \* repeated requests, deletions and changes of the source in all,
               \* where the promise is kept

VARIABLES
  exclusive,   \* the promise of a single writer is kept
  object,      \* of each key: the versions of its objects, oldest first
  source,      \* what the source of a migration now holds
  pub,         \* of each writer: the publication under way
  remembered,  \* of the worker: the reference of each key, in this generation
  seen,        \* ... and what its reads have returned since, or since its own
               \* publication of the key
  results,     \* every reference a publication returned, with its content
  migration,   \* the migration under way
  journals,    \* the receipts of each migration
  upsets

vars == <<exclusive, object, source, pub, remembered, seen, results, migration, journals, upsets>>

Keys    == Range(Plan)
Writers == {"worker", "migration"}
Upset   == upsets < MaxUpsets /\ upsets' = upsets + 1

NoPub  == [phase |-> "idle", key |-> Null, content |-> Null, artifact |-> 0, manifest |-> 0,
           reference |-> Null, created |-> FALSE, attempts |-> 1]
NoRun  == [phase |-> "idle", left |-> <<>>, pinned |-> Null, seeds |-> FALSE]

Init ==
  /\ exclusive \in BOOLEAN
  /\ object = [k \in Keys |-> [artifact |-> <<>>, manifest |-> <<>>, descriptor |-> <<>>]]
  /\ source \in Sources
  /\ pub = [w \in Writers |-> NoPub]
  /\ remembered = [k \in Chained |-> Unknown]
  /\ seen = [k \in Chained |-> {}]
  /\ results = {}
  /\ migration = NoRun
  /\ journals = <<>>
  /\ upsets = IF exclusive THEN 0 ELSE MaxUpsets

-----------------------------------------------------------------------------
(* The requests.  HEAD and GET without a version answer for the newest       *)
(* version there is, which is 0 for none; a refused or failed request is     *)
(* never taken for absence.                                                  *)
Current(k, path) ==
  Max({0} \union {v \in DOMAIN object[k][path] : object[k][path][v] # Lost})

At(k, path, v) == object[k][path][v]

(* What a publication reads as: its pinned manifest, and the pinned artifact  *)
(* which must be of that manifest; nothing when a version is gone.            *)
Reads(k, p) ==
  {At(k, "artifact", p.artifact)} \intersect ({At(k, "manifest", p.manifest)} \ {Lost})

(* A reference is a version of the descriptor and the publication it holds.   *)
Refers(k, d) == [version |-> d, publication |-> At(k, "descriptor", d)]
Resolved(k) ==
  LET d == Current(k, "descriptor") IN IF d = 0 THEN Null ELSE Refers(k, d)

Put(k, path, value) == object' = [object EXCEPT ![k][path] = Append(@, value)]

-----------------------------------------------------------------------------
(* publish_artifact of a writer: one action per request.                     *)

In(w, phase)   == pub[w].phase = phase
Goes(w, phase) == pub' = [pub EXCEPT ![w].phase = phase]
Quiet          == UNCHANGED <<exclusive, source, remembered, seen, results, migration, journals, upsets>>
Only(w)        == Quiet /\ UNCHANGED object

Started(k, c) == [NoPub EXCEPT !.phase = "existing", !.key = k, !.content = c]

(* A publication that is complete is the result if it is identical; a pinned  *)
(* version that is gone, or other content, refuses the artifact for good.     *)
Settle(w, phase) ==
  LET k == pub[w].key
      reference == Resolved(k)
  IN \/ reference = Null /\ Goes(w, phase)
     \/ /\ reference # Null /\ pub[w].content \in Reads(k, reference.publication)
        /\ pub' = [pub EXCEPT ![w].phase = "published", ![w].reference = reference]

Inspect(w) == In(w, "existing") /\ Settle(w, "artifact") /\ Only(w)

HeadArtifact(w) ==
  /\ In(w, "artifact")
  /\ pub' = [pub EXCEPT ![w].phase = "manifest", ![w].artifact = Current(pub[w].key, "artifact")]
  /\ Only(w)

\* Slip: the manifest is compared when the artifact has been written.
HeadManifestLate(w) ==
  /\ In(w, "manifest")
  /\ pub' = [pub EXCEPT ![w].phase = "verify", ![w].manifest = Current(pub[w].key, "manifest")]
  /\ Only(w)

(* An existing manifest has to be the same, before anything is written.       *)
HeadManifest(w) ==
  LET m == Current(pub[w].key, "manifest") IN
  /\ In(w, "manifest")
  /\ m # 0 => At(pub[w].key, "manifest", m) = pub[w].content
  /\ pub' = [pub EXCEPT ![w].phase = "verify", ![w].manifest = m]
  /\ Only(w)

Holds(w, path) == At(pub[w].key, path, pub[w][path]) = pub[w].content

\* Slip: an artifact that exists is not read.
VerifyArtifactByName(w) ==
  /\ In(w, "verify")
  /\ Goes(w, "put_artifact")
  /\ Only(w)

VerifyArtifact(w) ==
  /\ In(w, "verify")
  /\ pub[w].artifact # 0 => Holds(w, "artifact")
  /\ Goes(w, "put_artifact")
  /\ Only(w)

(* An absent object is written, and its new version is read again.            *)
PutObject(w, path, phase, reread, next) ==
  /\ In(w, phase)
  /\ \/ /\ pub[w][path] # 0
        /\ Goes(w, next)
        /\ UNCHANGED object
     \/ /\ pub[w][path] = 0
        /\ Put(pub[w].key, path, pub[w].content)
        /\ pub' = [pub EXCEPT ![w].phase = reread, ![w].attempts = 1,
                              ![w][path] = Len(object[pub[w].key][path]) + 1]
  /\ Quiet

PutArtifact(w) == PutObject(w, "artifact", "put_artifact", "reread_artifact", "put_manifest")
PutManifest(w) == PutObject(w, "manifest", "put_manifest", "reread_manifest", "again")

Reread(w) ==
  /\ \/ In(w, "reread_artifact") /\ Holds(w, "artifact") /\ Goes(w, "put_manifest")
     \/ In(w, "reread_manifest") /\ Holds(w, "manifest") /\ Goes(w, "again")
  /\ Only(w)

InspectAgain(w) == In(w, "again") /\ Settle(w, "put_descriptor") /\ Only(w)

\* Slip: the versions that are newest by now are pinned.
PublicationNewest(w) ==
  [artifact |-> Current(pub[w].key, "artifact"), manifest |-> Current(pub[w].key, "manifest")]

Publication(w) == [artifact |-> pub[w].artifact, manifest |-> pub[w].manifest]

PutDescriptor(w) ==
  LET k == pub[w].key IN
  /\ In(w, "put_descriptor")
  /\ Put(k, "descriptor", Publication(w))
  /\ pub' = [pub EXCEPT ![w].phase = "read_back", ![w].attempts = 1,
       ![w].reference = [version |-> Len(object[k].descriptor) + 1, publication |-> Publication(w)]]
  /\ Quiet

(* Only the pinned versions, read once more, make a publication a result.     *)
ReadBack(w) ==
  /\ In(w, "read_back")
  /\ At(pub[w].key, "descriptor", pub[w].reference.version) = pub[w].reference.publication
  /\ pub[w].content \in Reads(pub[w].key, pub[w].reference.publication)
  /\ pub' = [pub EXCEPT ![w].phase = "published", ![w].created = TRUE]
  /\ Only(w)

(* The answer to a PUT is lost, and the SDK repeats a request that was        *)
(* performed: the bucket has one more version, which nobody knows.            *)
Repeat(w) ==
  LET k == pub[w].key
      path == CASE In(w, "put_artifact") -> "artifact"
                [] In(w, "put_manifest") -> "manifest"
                [] OTHER -> "descriptor"
  IN /\ pub[w].phase \in {"put_artifact", "put_manifest", "put_descriptor"}
     /\ path # "descriptor" => pub[w][path] = 0
     /\ pub[w].attempts < MaxAttempts
     /\ Upset
     /\ Put(k, path, IF path = "descriptor" THEN Publication(w) ELSE pub[w].content)
     /\ pub' = [pub EXCEPT ![w].attempts = @ + 1]
     /\ UNCHANGED <<exclusive, source, remembered, seen, results, migration, journals>>

Result(w) == [key |-> pub[w].key, content |-> pub[w].content, reference |-> pub[w].reference]

-----------------------------------------------------------------------------
(* The worker: it looks at keys and publishes to them, one at a time.         *)

WorkerStarts(k, c) ==
  /\ In("worker", "idle")
  /\ exclusive => migration.phase = "idle"
  /\ c.checkpoint => c.valid
  /\ pub' = [pub EXCEPT !["worker"] = Started(k, c)]
  /\ UNCHANGED <<exclusive, object, source, remembered, seen, results, migration, journals, upsets>>

(* Its own verified publication is remembered, in place of what was.          *)
WorkerTakes ==
  /\ In("worker", "published")
  /\ remembered' = [remembered EXCEPT ![pub["worker"].key] = pub["worker"].reference]
  /\ seen' = [seen EXCEPT ![pub["worker"].key] = {}]
  /\ results' = results \union {Result("worker")}
  /\ pub' = [pub EXCEPT !["worker"] = NoPub]
  /\ UNCHANGED <<exclusive, object, source, migration, journals, upsets>>

Found(k, reference) == IF reference = Null THEN {Null} ELSE Reads(k, reference.publication)

Looks(k, reference) ==
  /\ In("worker", "idle")
  /\ remembered' = [remembered EXCEPT ![k] = reference]
  /\ seen' = [seen EXCEPT ![k] = @ \union Found(k, reference)]
  /\ UNCHANGED <<exclusive, object, source, pub, results, migration, journals, upsets>>

\* Slip: a key is resolved again by each of its reads.
LookAnew(k) == Looks(k, Resolved(k))

(* download_artifact, and the checkpoint of a predecessor: a key is resolved  *)
(* once in a generation, absence included.                                    *)
Look(k) == Looks(k, IF remembered[k] = Unknown THEN Resolved(k) ELSE remembered[k])

(* current_revision: a new generation.                                        *)
NewGeneration ==
  /\ In("worker", "idle")
  /\ remembered' = [k \in Chained |-> Unknown]
  /\ seen' = [k \in Chained |-> {}]
  /\ UNCHANGED <<exclusive, object, source, pub, results, migration, journals, upsets>>

-----------------------------------------------------------------------------
(* The migration: every last hour of a chain has to be a seed before          *)
(* anything is copied; a copied key is read back before its receipt.          *)

Index(k) == CHOOSE i \in DOMAIN Plan : Plan[i] = k
Terminal(k) ==
  /\ Chain[k] # Null
  /\ \A q \in Keys : Chain[q] = Chain[k] => Index(q) =< Index(k)

(* The terminal keys, in any order: the code sorts them by their paths, which *)
(* say nothing of the hours of different chains.                              *)
Preflights ==
  LET terminals == {k \in Keys : Terminal(k)}
  IN  {q \in [1 .. Cardinality(terminals) -> terminals] :
         \A i, j \in DOMAIN q : i # j => q[i] # q[j]}

Receipt(event, k, c) == [event |-> event, key |-> k, content |-> c, reference |-> Null,
                         created |-> FALSE]
Records(receipt) ==
  journals' = [journals EXCEPT ![Len(journals)].receipts = Append(@, receipt)]

(* A revision of Hugging Face is resolved once; local files are read as they  *)
(* are.  To ask for seeds where no key is of a chain is refused.              *)
Migrate(pinned, seeds) ==
  /\ migration.phase = "idle" /\ In("migration", "idle")
  /\ Len(journals) < MaxRuns
  /\ exclusive => In("worker", "idle")
  /\ \E left \in IF seeds THEN Preflights \ {<<>>} ELSE {Plan} :
       migration' = [phase |-> IF seeds THEN "preflight" ELSE "copy", left |-> left,
                     pinned |-> IF pinned THEN source ELSE Null, seeds |-> seeds]
  /\ journals' = Append(journals, [seeds |-> seeds, receipts |-> <<>>])
  /\ UNCHANGED <<exclusive, object, source, pub, remembered, seen, results, upsets>>

SourceOf(k) == IF migration.pinned = Null THEN source[k] ELSE migration.pinned[k]

(* _check_artifact: a checkpoint of an hour without a valid second is refused.*)
Admissible(c, seed) == c # Null /\ (c.checkpoint => c.valid) /\ (seed => c.checkpoint)

\* Slip: the sources of the seeds are not looked at before the copies.
PreflightNothing ==
  /\ migration.phase = "preflight"
  /\ migration' = [migration EXCEPT !.phase = "copy", !.left = Plan]
  /\ UNCHANGED <<exclusive, object, source, pub, remembered, seen, results, journals, upsets>>

Preflight ==
  LET k == Head(migration.left) IN
  /\ migration.phase = "preflight"
  /\ Admissible(SourceOf(k), TRUE)
  /\ Records(Receipt("terminal_verified", k, SourceOf(k)))
  /\ migration' = IF Len(migration.left) > 1
                  THEN [migration EXCEPT !.left = Tail(@)]
                  ELSE [migration EXCEPT !.phase = "copy", !.left = Plan]
  /\ UNCHANGED <<exclusive, object, source, pub, remembered, seen, results, upsets>>

StillMissing ==
  LET k == Head(migration.left) IN
  /\ migration.phase = "copy" /\ migration.left # <<>> /\ In("migration", "idle")
  /\ SourceOf(k) = Null
  /\ Records(Receipt("missing", k, Null))
  /\ migration' = [migration EXCEPT !.left = Tail(@)]
  /\ UNCHANGED <<exclusive, object, source, pub, remembered, seen, results, upsets>>

\* Slip: a seed that changed after the preflight is copied as it is.
CopyUnseeded ==
  LET k == Head(migration.left) IN
  /\ migration.phase = "copy" /\ migration.left # <<>> /\ In("migration", "idle")
  /\ Admissible(SourceOf(k), FALSE)
  /\ pub' = [pub EXCEPT !["migration"] = Started(k, SourceOf(k))]
  /\ UNCHANGED <<exclusive, object, source, remembered, seen, results, migration, journals, upsets>>

Copy ==
  LET k == Head(migration.left) IN
  /\ migration.phase = "copy" /\ migration.left # <<>> /\ In("migration", "idle")
  /\ Admissible(SourceOf(k), migration.seeds /\ Terminal(k))
  /\ pub' = [pub EXCEPT !["migration"] = Started(k, SourceOf(k))]
  /\ UNCHANGED <<exclusive, object, source, remembered, seen, results, migration, journals, upsets>>

Copied ==
  LET p == pub["migration"] IN
  /\ In("migration", "published")
  /\ p.content \in Reads(p.key, p.reference.publication)
  /\ Records([Receipt("copied", p.key, p.content) EXCEPT !.reference = p.reference,
                                                        !.created = p.created])
  /\ results' = results \union {Result("migration")}
  /\ pub' = [pub EXCEPT !["migration"] = NoPub]
  /\ migration' = [migration EXCEPT !.left = Tail(@)]
  /\ UNCHANGED <<exclusive, object, source, remembered, seen, upsets>>

Journal == journals[Len(journals)]
Receipts(journal, event) == {r \in Range(journal.receipts) : r.event = event}

\* Slip: a run that went through its plan is complete.
CompleteAlways == TRUE

(* MigrationCounts.complete: nothing of the plan was missing.                 *)
Complete == Receipts(Journal, "missing") = {}

Summarise ==
  /\ migration.phase = "copy" /\ migration.left = <<>>
  /\ IF Complete THEN Records(Receipt("complete", Null, Null)) ELSE UNCHANGED journals
  /\ migration' = NoRun
  /\ UNCHANGED <<exclusive, object, source, pub, remembered, seen, results, upsets>>

-----------------------------------------------------------------------------
(* A request that fails, content that is refused, or the end of a process,    *)
(* ends a publication and its migration.  (Receipts of starts, intents and     *)
(* failures are left out of the journals.)                                    *)
Fails(w) ==
  /\ IF w = "worker" THEN pub[w].phase # "idle" ELSE migration.phase # "idle"
  /\ pub' = [pub EXCEPT ![w] = NoPub]
  /\ migration' = IF w = "migration" THEN NoRun ELSE migration
  /\ UNCHANGED <<exclusive, object, source, remembered, seen, results, journals, upsets>>

(* Somebody deletes a version, and the source of a migration changes.         *)
Delete(k, path, v) ==
  /\ At(k, path, v) # Lost
  /\ Upset
  /\ object' = [object EXCEPT ![k][path][v] = Lost]
  /\ UNCHANGED <<exclusive, source, pub, remembered, seen, results, migration, journals>>

Change(k, c) ==
  /\ source[k] # c
  /\ Upset
  /\ source' = [source EXCEPT ![k] = c]
  /\ UNCHANGED <<exclusive, object, pub, remembered, seen, results, migration, journals>>

Publishes(w) ==
  \/ Inspect(w) \/ HeadArtifact(w) \/ HeadManifest(w) \/ VerifyArtifact(w)
  \/ PutArtifact(w) \/ PutManifest(w) \/ Reread(w) \/ InspectAgain(w)
  \/ PutDescriptor(w) \/ ReadBack(w) \/ Repeat(w) \/ Fails(w)

Next ==
  \/ \E w \in Writers : Publishes(w)
  \/ \E k \in Chained : Look(k) \/ \E c \in Contents : WorkerStarts(k, c)
  \/ \E k \in Keys : \/ \E c \in Contents : Change(k, c)
                     \/ \E path \in DOMAIN object[k] :
                          \E v \in DOMAIN object[k][path] : Delete(k, path, v)
  \/ WorkerTakes \/ NewGeneration
  \/ \E pinned, seeds \in BOOLEAN : Migrate(pinned, seeds)
  \/ Preflight \/ StillMissing \/ Copy \/ Copied \/ Summarise

-----------------------------------------------------------------------------
(* Whatever its versions still hold, a descriptor pins a manifest and its     *)
(* artifact, and a reference that was returned reads as what was published,   *)
(* for as long as nobody deletes it; this needs no single writer.             *)
PinnedIsPublished ==
  /\ \A k \in Keys : \A d \in DOMAIN object[k].descriptor :
       LET p == At(k, "descriptor", d) IN
       p # Lost => /\ p.artifact \in DOMAIN object[k].artifact
                   /\ p.manifest \in DOMAIN object[k].manifest
                   /\ Lost \in {At(k, "artifact", p.artifact), At(k, "manifest", p.manifest)}
                        \/ Reads(k, p) # {}
  /\ \A r \in results :
       LET p == r.reference.publication IN
       {At(r.key, "artifact", p.artifact), At(r.key, "manifest", p.manifest)}
         \subseteq {r.content, Lost}

(* A publication of which nothing is left.                                   *)
Gone(r) ==
  LET p == r.reference.publication IN
  Lost = At(r.key, "descriptor", r.reference.version)
    /\ Lost = At(r.key, "artifact", p.artifact) /\ Lost = At(r.key, "manifest", p.manifest)

(* Under a single writer a key has publications of one content, unless all of  *)
(* one of them was deleted before the next; and what a publication that was   *)
(* interrupted left behind is of one content as well, so that a publication   *)
(* of that content completes it.                                              *)
OneContentPerKey ==
  exclusive =>
    /\ \A k \in Keys :
         Cardinality((Range(object[k].artifact) \union Range(object[k].manifest)) \ {Lost}) =< 1
    /\ \A q, r \in results : q.key = r.key => q.content = r.content \/ Gone(q) \/ Gone(r)

(* All reads of a key by the worker in one generation agree, absence included,*)
(* until it publishes the key itself.                                         *)
GenerationAgrees == \A k \in Chained : Cardinality(seen[k]) =< 1

(* A journal that ends complete has a receipt of each key of the plan; one     *)
(* that asked for seeds copies nothing before it has seen the seed of every   *)
(* chain, and copies no terminal hour without its checkpoint.                 *)
JournalIsTrue ==
  \A journal \in Range(journals) :
    LET copied == Receipts(journal, "copied")
        verified == Receipts(journal, "terminal_verified")
    IN /\ Receipts(journal, "complete") # {} => {r.key : r \in copied} = Keys
       /\ journal.seeds /\ copied # {} =>
            /\ {k \in Keys : Terminal(k)} = {r.key : r \in verified}
            /\ \A r \in copied : Terminal(r.key) => r.content.checkpoint
=============================================================================
