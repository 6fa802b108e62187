----------------------------- MODULE RemoteCatchUp -----------------------------
(***************************************************************************)
(* The remote worker (remote_worker.py) of one venue/instrument chain and   *)
(* the storage it publishes to.  A catch-up run plans a target hour from a  *)
(* bounded scan, processes it, publishes its L2 and then its price          *)
(* artifact, and plans again; an explicit run processes one given hour.     *)
(* Hugging Face publishes a pair in one commit and excludes nobody;         *)
(* Backblaze B2 writes file, manifest and completion descriptor in turn for *)
(* a single writer.  A run may end between any two of its steps.            *)
(***************************************************************************)
EXTENDS Naturals, FiniteSetsExt

CONSTANTS
  LastHour,     \* hours 0 .. LastHour
  Runs,         \* invocations of the worker which may overlap
  Searches,     \* possible values of search_hours
  Absent,       \* no such object
  Unknown,      \* an archive no run has replayed yet
  MaxUpsets     \* how often in all a run may end in the middle, the producing
                \* commit may change, and a run may be given its hour

VARIABLES
  backend, priced, search,   \* of the chain: storage, price required, bound
  content,                   \* what replaying each hour's archive comes to
  newest, late, build,       \* release boundary, hours not yet served, commit
  store,                     \* completed publications
  file, manifest,            \* B2 objects, described or not
  run,                       \* the invocations
  asked, faults              \* number of explicit and of interrupted runs

chain   == <<backend, priced, search>>
world   == <<newest, late, build>>
objects == <<store, file, manifest>>
upsets  == <<asked, faults>>
vars    == <<chain, content, world, objects, run, upsets>>

Hours   == 0 .. LastHour
Content == {"snapshot", "updates", "locked", "gap"}
L2      == [input : BOOLEAN, checkpoint : BOOLEAN, build : Nat]
Price   == [build : Nat]
Keys    == {"l2", "price"} \X Hours
Stage   == {"idle", "planned", "publish", "manifest", "descriptor", "done", "stuck"}

\* "search_hours must be a positive integer", or the run is refused.
ASSUME HoursAssumption == LastHour \in Nat /\ Searches \subseteq Nat \ {0}
ASSUME UpsetsAssumption == MaxUpsets \in Nat
ASSUME NothingAssumption == Absent \notin L2 \union Price /\ Unknown \notin Content

Idle    == [stage |-> "idle", target |-> 0, eligible |-> 0, l2 |-> Absent, price |-> Absent]
Upset   == asked + faults + build - 1 < MaxUpsets

TypeOK ==
  /\ backend \in {"hugging_face", "backblaze_b2"}
  /\ priced \in BOOLEAN
  /\ search \in Searches
  /\ content \in [Hours -> Content \union {Unknown}]
  /\ newest \in Hours
  /\ late \subseteq Hours
  /\ build \in Nat /\ asked \in Nat /\ faults \in Nat
  /\ \A k \in Keys : \A o \in {store[k], file[k], manifest[k]} :
       o = Absent \/ o \in (IF k[1] = "l2" THEN L2 ELSE Price)
  /\ \A r \in Runs : /\ run[r].stage \in Stage
                     /\ run[r].target =< run[r].eligible
                     /\ run[r].eligible =< newest
                     /\ run[r].l2 = Absent \/ run[r].l2 \in L2
                     /\ run[r].price = Absent \/ run[r].price \in Price

Init ==
  /\ backend \in {"hugging_face", "backblaze_b2"}
  /\ priced \in BOOLEAN
  /\ search \in Searches
  /\ content = [h \in Hours |-> Unknown]
  /\ newest = 0
  /\ late = Hours
  /\ build = 1
  /\ store = [k \in Keys |-> Absent]
  /\ file = store
  /\ manifest = store
  /\ run = [r \in Runs |-> Idle]
  /\ asked = 0
  /\ faults = 0

-----------------------------------------------------------------------------
(* What a scan of one pinned state says of an hour.                         *)

Exists(h)    == store[<<"l2", h>>] # Absent
Usable(h)    == Exists(h) /\ store[<<"l2", h>>].checkpoint
Blocked(h)   == Exists(h) /\ ~Usable(h)
Unpriced(h)  == priced /\ store[<<"price", h>>] = Absent
Window(n)    == (IF n < search THEN 0 ELSE n - search + 1) .. n

\* Slip: the newest of the hours a run may continue with.
CandidatesNewest(n) ==
  LET usable == {h \in Window(n) : Usable(h)}
      open   == {h \in Window(n) : Exists(h) => Unpriced(h)}
      above  == {h \in open : \A u \in usable : u < h}
  IN IF above = {} THEN usable \intersect {n} ELSE {Max(above)}

\* Slip: a frontier without its price is not looked at again.
CandidatesPastPrice(n) ==
  LET usable == {h \in Window(n) : Usable(h)}
      open   == {h \in Window(n) : Exists(h) => Unpriced(h)}
  IN IF usable = {} THEN open
     ELSE LET frontier == Max(usable) IN
          IF \E h \in open : h > frontier
          THEN {h \in open : h > frontier}
          ELSE {frontier} \intersect {n}

\* Slip: the hour after the frontier is attempted even when it is blocked.
CandidatesOnlyNext(n) ==
  LET usable == {h \in Window(n) : Usable(h)}
      open   == {h \in Window(n) : Exists(h) => Unpriced(h)}
  IN IF usable = {} THEN open
     ELSE LET frontier == Max(usable) IN
          IF Unpriced(frontier) THEN {frontier}
          ELSE {frontier + 1, n} \intersect Window(n)

(* _catch_up_target_from_observations: the hours a run may continue with,   *)
(* of which it takes the oldest; none is RemoteWorkerCheckpointBlockedError.*)
Candidates(n) ==
  LET usable == {h \in Window(n) : Usable(h)}
      open   == {h \in Window(n) : Exists(h) => Unpriced(h)}
  IN IF usable = {} THEN open
     ELSE LET frontier == Max(usable) IN
          IF Unpriced(frontier) THEN {frontier}
          ELSE IF \E h \in open : h > frontier
          THEN {h \in open : h > frontier}
          ELSE {frontier} \intersect {n}

Plan(n) == Min(Candidates(n))

-----------------------------------------------------------------------------
Becomes(r, s) == run' = [run EXCEPT ![r].stage = s]
Ends(r)       == run' = [run EXCEPT ![r] = Idle]

\* Hugging Face runs may overlap; B2 needs an external single writer.
MayStart(r) ==
  /\ run[r].stage = "idle"
  /\ backend = "backblaze_b2" => \A q \in Runs : run[q].stage = "idle"

Starts(r, h, n) ==
  run' = [run EXCEPT ![r].stage = "planned", ![r].target = h, ![r].eligible = n]

(* The release boundary is read once and admits every hour of the run.      *)
StartCatchUp(r) ==
  /\ MayStart(r)
  /\ Candidates(newest) # {}
  /\ Starts(r, Plan(newest), newest)
  /\ UNCHANGED <<chain, content, world, objects, upsets>>

\* --hour: exactly that hour, without a plan.
StartHour(r, h) ==
  /\ MayStart(r)
  /\ Upset
  /\ h =< newest
  /\ asked' = asked + 1
  /\ Starts(r, h, h)
  /\ UNCHANGED <<chain, content, world, objects, faults>>

(* Headless replay: a snapshot or an input checkpoint gives the hour a book, *)
(* which may lock or cross at every second, or be lost in a gap at the end.  *)
Replayed(c, input) == c \in {"snapshot", "locked"} \/ (c = "updates" /\ input)

\* _l2_artifact_for_publication: no valid second, no checkpoint.
Artifact(c, input) ==
  [input |-> input, build |-> build,
   checkpoint |-> Replayed(c, input) /\ c # "locked"]

Behind(h) == h > 0 /\ Exists(h - 1)
Input(h)  == h > 0 /\ Usable(h - 1)

\* Slip: the marker of an update-only hour is published regardless.
GivesUpOnSource(h, c) ==
  \/ (Blocked(h) /\ ~Unpriced(h))
  \/ (h \in late /\ (~Exists(h) \/ Unpriced(h)))

\* process_remote_hour gives up: the hour is blocked already, a source is not
\* served, or a marker would occupy an hour which a later seed may own.
GivesUp(h, c) ==
  \/ (Blocked(h) /\ ~Unpriced(h))
  \/ (h \in late /\ (~Exists(h) \/ Unpriced(h)))
  \/ (~Exists(h) /\ ~Replayed(c, Input(h)) /\ ~Behind(h))

\* What is read at one pinned state decides what is acquired, replayed and,
\* where it is missing, published.
ProcessHour(r) ==
  LET h == run[r].target IN
  /\ run[r].stage = "planned"
  /\ \E c \in IF content[h] = Unknown THEN Content ELSE {content[h]} :
       /\ content' = IF Exists(h) \/ h \in late THEN content
                     ELSE [content EXCEPT ![h] = c]
       /\ IF GivesUp(h, c) THEN Ends(r)
          ELSE IF Exists(h) /\ ~Unpriced(h) THEN Becomes(r, "done")
          ELSE run' = [run EXCEPT ![r].stage = "publish",
                 ![r].l2 = IF Exists(h) THEN Absent ELSE Artifact(c, Input(h)),
                 ![r].price = IF Unpriced(h) THEN [build |-> build] ELSE Absent]
  /\ UNCHANGED <<chain, world, objects, upsets>>

-----------------------------------------------------------------------------
(* Publication: the L2 artifact first, then the price artifact.             *)

Key(r) == <<IF run[r].l2 # Absent THEN "l2" ELSE "price", run[r].target>>
Own(r) == IF run[r].l2 # Absent THEN run[r].l2 ELSE run[r].price

Published(r) ==
  run' = [run EXCEPT
    ![r].stage = IF run[r].l2 # Absent /\ run[r].price # Absent
                 THEN "publish" ELSE "done",
    ![r].l2 = Absent,
    ![r].price = IF run[r].l2 # Absent THEN @ ELSE Absent]

\* Slip: an existing publication is replaced.
CommitReplaces(r) ==
  /\ backend = "hugging_face"
  /\ run[r].stage = "publish"
  /\ store' = [store EXCEPT ![Key(r)] = Own(r)]
  /\ Published(r)
  /\ UNCHANGED <<chain, content, world, file, manifest, upsets>>

\* One commit on the observed parent, retried while other commits win: it
\* meets nothing, an equal publication, or a conflict which ends the run.
Commit(r) ==
  /\ backend = "hugging_face"
  /\ run[r].stage = "publish"
  /\ IF store[Key(r)] \in {Absent, Own(r)}
     THEN store' = [store EXCEPT ![Key(r)] = Own(r)] /\ Published(r)
     ELSE Ends(r) /\ UNCHANGED store
  /\ UNCHANGED <<chain, content, world, file, manifest, upsets>>

\* Objects an interrupted publication left behind must be the run's own.
PutFile(r) ==
  /\ backend = "backblaze_b2"
  /\ run[r].stage = "publish"
  /\ IF {file[Key(r)], manifest[Key(r)]} \subseteq {Absent, Own(r)}
     THEN file' = [file EXCEPT ![Key(r)] = Own(r)] /\ Becomes(r, "manifest")
     ELSE Ends(r) /\ UNCHANGED file
  /\ UNCHANGED <<chain, content, world, store, manifest, upsets>>

PutManifest(r) ==
  /\ run[r].stage = "manifest"
  /\ manifest' = [manifest EXCEPT ![Key(r)] = Own(r)]
  /\ Becomes(r, "descriptor")
  /\ UNCHANGED <<chain, content, world, store, file, upsets>>

\* The descriptor pins both and completes the publication.
PutDescriptor(r) ==
  /\ run[r].stage = "descriptor"
  /\ store' = [store EXCEPT ![Key(r)] = manifest[Key(r)]]
  /\ Published(r)
  /\ UNCHANGED <<chain, content, world, file, manifest, upsets>>

-----------------------------------------------------------------------------
\* Slip: the run goes on with the hour after the one it completed.
ReplanNextHour(r) ==
  /\ run[r].stage = "done"
  /\ Starts(r, run[r].target + 1, run[r].eligible)
  /\ UNCHANGED <<chain, content, world, objects, upsets>>

\* The storage is scanned again under the boundary of this run.
Replan(r) ==
  LET n == run[r].eligible IN
  /\ run[r].stage = "done"
  /\ run[r].target # n
  /\ IF Candidates(n) = {} THEN Ends(r)
     ELSE IF Plan(n) =< run[r].target THEN Becomes(r, "stuck")
     ELSE Starts(r, Plan(n), n)
  /\ UNCHANGED <<chain, content, world, objects, upsets>>

\* Caught up, max_hours_per_run, or the runtime budget; or "did not advance".
Finish(r) ==
  /\ run[r].stage \in {"done", "stuck"}
  /\ Ends(r)
  /\ UNCHANGED <<chain, content, world, objects, upsets>>

\* A failure of transport, processing or verification, a cancelled job, or
\* the loss of the machine.
Interrupted(r) ==
  /\ run[r].stage # "idle"
  /\ Upset
  /\ faults' = faults + 1
  /\ Ends(r)
  /\ UNCHANGED <<chain, content, world, objects, asked>>

-----------------------------------------------------------------------------
Release ==
  /\ newest < LastHour
  /\ newest' = newest + 1
  /\ UNCHANGED <<chain, content, late, build, objects, run, upsets>>

Serve(h) ==
  /\ h \in late
  /\ late' = late \ {h}
  /\ UNCHANGED <<chain, content, newest, build, objects, run, upsets>>

Deploy ==
  /\ Upset
  /\ build' = build + 1
  /\ UNCHANGED <<chain, content, newest, late, objects, run, upsets>>

Step(r) == \/ ProcessHour(r) \/ Commit(r)
           \/ PutFile(r) \/ PutManifest(r) \/ PutDescriptor(r)

Next ==
  \/ \E r \in Runs : \/ StartCatchUp(r) \/ (\E h \in Hours : StartHour(r, h))
                     \/ Step(r) \/ Replan(r) \/ Finish(r) \/ Interrupted(r)
  \/ Release
  \/ \E h \in Hours : Serve(h)
  \/ Deploy

Spec == Init /\ [][Next]_vars

(* The schedule starts the worker every hour, one of the started runs takes  *)
(* a step while any can, and the provider releases and serves every hour.   *)
Fairness ==
  /\ WF_vars(\E r \in Runs : StartCatchUp(r) \/ Step(r) \/ Finish(r))
  /\ WF_vars(Release \/ \E h \in Hours : Serve(h))

FairSpec == Spec /\ Fairness

-----------------------------------------------------------------------------
(* Replanning after a successful hour always moves to a later one, whatever  *)
(* other runs, explicit hours and blocked markers have done to the chain:   *)
(* process_remote_catch_up never raises "did not advance".                  *)
RunsAdvance == \A r \in Runs : run[r].stage # "stuck"

(* Every published hour is what replaying it behind the published chain     *)
(* gives: an input is its predecessor's checkpoint, an hour of updates is   *)
(* usable only with one, and the path of an hour whose replay ends without a *)
(* book is occupied only once its predecessor has settled the matter.       *)
ChainIsSound ==
  \A h \in Hours : Exists(h) =>
    LET a == store[<<"l2", h>>] IN
    /\ a.input => Input(h)
    /\ a.checkpoint => Replayed(content[h], a.input) /\ content[h] # "locked"
    /\ ~Replayed(content[h], a.input) => Behind(h)
    /\ content[h] = "updates" /\ ~a.input => ~Input(h)

(* A catch-up never fails to advance, and what it leaves is one chain.       *)
CatchUpIsSound == RunsAdvance /\ ChainIsSound

PublishesInOrder(r) ==
  LET n == run[r].eligible  j == run[r].target IN
  /\ asked = 0 \/ j < n
  /\ run[r].l2 # Absent /\ ~Exists(j) /\ store'[<<"l2", j>>] # Absent
  => \A i \in Window(n), k \in Hours : i < k /\ k < j /\ Usable(i) =>
       Exists(k) \/ \E u \in Hours : k < u /\ u < j /\ Usable(u)

(* A completed publication is never replaced and never disappears; and        *)
(* catch-up works forward: when a run publishes an hour, none is missing      *)
(* between it and the newest usable hour below it in the run's window, from   *)
(* which the hour gets its book, unless the run was given its hour.          *)
StoreGrowsInOrder ==
  [][/\ \A k \in Keys : store[k] # Absent => store'[k] = store[k]
     /\ \A r \in Runs : PublishesInOrder(r)]_vars

(* With a bounded number of failures, no redeployment and a window that     *)
(* keeps the frontier, catch-up publishes every hour after a usable one, and *)
(* the price artifact of every published hour.                              *)
Undisturbed == search > LastHour /\ build = 1 /\ asked = 0

ChainCatchesUp ==
  []Undisturbed => <>[](/\ \A i, h \in Hours : i < h /\ Usable(i) => Exists(h)
                        /\ \A h \in Hours : Exists(h) => ~Unpriced(h))

(* remote_worker.py:870: "Headless replay must produce a usable output      *)
(* checkpoint before any L2 artifact is published", of an hour no artifact  *)
(* precedes.                                                                *)
SeedsAreUsable ==
  \A h \in Hours : Exists(h) => Usable(h) \/ Behind(h)
=============================================================================
