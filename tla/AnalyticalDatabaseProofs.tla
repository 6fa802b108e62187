------------------------- MODULE AnalyticalDatabaseProofs -------------------------
(***************************************************************************)
(* For any hours, markets, artifacts, processes, sessions and pages: the     *)
(* result of an import is true, and a source hour owns its rows; a deletion  *)
(* takes a disabled preset that nothing is of, every hour has its preset,    *)
(* and no run undoes a choice of the user; maintenance does what was         *)
(* confirmed, once, and reports what it did; and checkpoints are owned.      *)
(***************************************************************************)
EXTENDS AnalyticalDatabase, SequenceTheorems, TLAPS

(* What the database does, each of its parts does or sleeps through.         *)
LEMMA ImportInside ==
    (PartsInit => Import!Init) /\ ([PartsNext]_everything => [Import!Next]_Import!vars)
BY DEF PartsInit, PartsNext, everything, importVars, Import!vars, Import!remote, Import!local

LEMMA PresetsInside ==
    (PartsInit => Managed!Init) /\ ([PartsNext]_everything => [Managed!Next]_Managed!vars)
BY DEF PartsInit, PartsNext, everything, presetVars, Managed!vars

LEMMA MaintenanceInside ==
    /\ PartsInit => Maintenance!Init
    /\ [PartsNext]_everything => [Maintenance!Next]_Maintenance!vars
BY DEF PartsInit, PartsNext, everything, maintenanceVars, Maintenance!vars

-----------------------------------------------------------------------------
IsJob(x) == x = [phase |-> x.phase, keys |-> x.keys, items |-> x.items, pinned |-> x.pinned,
                 fetched |-> x.fetched, stop |-> x.stop, cancelled |-> x.cancelled]
IsRow(x) == x = [status |-> x.status, digest |-> x.digest, attached |-> x.attached,
                 origin |-> x.origin, revision |-> x.revision, imported |-> x.imported]

Item == [key : Import!Keys, what : {"imported", "reused", "missing", "error"}]

(* The rows, and the publications of each backend, which stay.                *)
RowsTyped ==
    /\ head \in Nat
    /\ published = [b \in Import!Backends |-> [k \in Import!Keys |-> published[b][k]]]
    /\ \A b \in Import!Backends, k \in Import!Keys :
         published[b][k] # Null => /\ published[b][k].at \in Nat /\ published[b][k].at =< head
                                   /\ published[b][k].artifact \in Artifacts(k)
    /\ imports = [k \in Import!Keys |-> imports[k]] /\ listed = [k \in Import!Keys |-> listed[k]]
    /\ \A k \in Import!Keys : imports[k] \in Artifacts(k) \cup {Null}
    /\ source = [s \in Import!Sources |-> source[s]] /\ \A s \in Import!Sources : IsRow(source[s])

JobTyped ==
    /\ runtime.backend \in Import!Backends /\ runtime.sequence \in Nat
    /\ runtime = [backend |-> runtime.backend, sequence |-> runtime.sequence]
    /\ IsJob(job) /\ job.keys \in Seq(Import!Keys) /\ job.items \in Seq(Item)
    /\ ended \in Nat

(* The items are of the first keys.                                          *)
InOrder ==
    /\ Len(job.items) =< Len(job.keys)
    /\ \A i \in 1 .. Len(job.items) : job.items[i].key = job.keys[i]
    /\ job.phase \in {"download", "import"} => Len(job.items) < Len(job.keys)
    /\ job.phase \in {"idle", "admitted", "pin"} => job.items = <<>>

(* A commit of Hugging Face is pinned before the first key, and one of B2     *)
(* never.                                                                    *)
PinnedTo(b, pin) == IF b = "hf" THEN pin \in Nat /\ pin =< head ELSE pin = Null

Pinned ==
    \/ job.phase \in {"download", "import"}
    \/ job.phase = "loop" /\ ~job.stop
    \/ job.items # <<>>
    => PinnedTo(runtime.backend, job.pinned)

(* What was downloaded is what was published.                                *)
Fetched ==
    job.phase = "import" =>
      LET p == published[runtime.backend][Import!Current] IN
      p # Null /\ p.artifact = job.fetched /\ (runtime.backend = "hf" => p.at =< job.pinned)

(* What an item of a run of backend b says is so.                            *)
ItemIsTrue(b, pin, x) ==
    LET p == published[b][x.key] IN
    /\ x.what \in {"imported", "reused"} =>
         p # Null /\ imports[x.key] = p.artifact /\ (b = "hf" => p.at =< pin)
    /\ x.what = "missing" /\ b = "hf" /\ p # Null => p.at > pin

ItemsAreTrue == \A i \in DOMAIN job.items : ItemIsTrue(runtime.backend, job.pinned, job.items[i])

Told ==
    result # Null =>
      /\ result.backend \in Import!Backends /\ result.items \in Seq(Item)
      /\ result.items # <<>> => PinnedTo(result.backend, result.pinned)
      /\ \A i \in DOMAIN result.items : ItemIsTrue(result.backend, result.pinned, result.items[i])
      /\ result.status = "ok" => \A k \in Import!ToSet(result.keys) : k \in Import!Keys /\ imports[k] # Null

(* What a source row says of its analytical rows.                            *)
HoursOwned ==
    /\ \A k \in Import!Keys :
         /\ listed[k] = imports[k]
         /\ imports[k] # Null => /\ source[Import!SourceOf(k)].status = "processed"
                                /\ source[Import!SourceOf(k)].digest = DigestOf(imports[k])
    /\ \A s \in Import!Sources :
         LET i == source[s].imported IN
         /\ i # Null => i.key \in Import!Keys /\ imports[i.key] = i.artifact /\ imports[i.key] # Null
         /\ source[s].origin = "hf" <=> source[s].revision # Null

ImportInv ==
    /\ RowsTyped /\ JobTyped /\ InOrder /\ Pinned /\ Fetched /\ ItemsAreTrue /\ Told /\ HoursOwned
    /\ Import!EndsAreCounted

-----------------------------------------------------------------------------
LEMMA Divides ==
    ASSUME NEW n \in Nat, NEW m \in Nat \ {0}, NEW i \in 1 .. n * m
    PROVE  (i - 1) \div m \in 0 .. n - 1 /\ (i - 1) % m \in 0 .. m - 1
<1>1. PICK q : q = (i - 1) \div m
  OBVIOUS
<1>2. PICK r : r = (i - 1) % m
  OBVIOUS
<1>3. q \in Int /\ r \in 0 .. m - 1 /\ i - 1 = m * q + r
  BY <1>1, <1>2
<1>4. n * m \in Nat /\ i \in Int /\ 1 =< i /\ i - 1 < n * m
  OBVIOUS
<1>5. 0 =< q
  BY <1>3, <1>4
<1>6. q < n
  <2> SUFFICES ASSUME n =< q PROVE FALSE
    BY <1>3
  <2>1. m * n =< m * q
    BY <1>3
  <2> QED
    BY <1>3, <1>4, <2>1
<1> QED
  BY <1>1, <1>2, <1>3, <1>5, <1>6

LEMMA HourOfRequest ==
    ASSUME Import!ImportAssumptions, NEW r \in Requests, NEW n \in Nat, n = r[2] - r[1],
           NEW q \in 0 .. n - 1
    PROVE  r[1] + q \in SourceHours
<1>1. PICK a, z : a = r[1] /\ z = r[2]
  OBVIOUS
<1>2. a \in Int /\ z \in Int /\ a .. (z - 1) \subseteq SourceHours
  BY <1>1 DEF Import!ImportAssumptions
<1>3. n = z - a
  BY <1>1
<1> QED
  BY <1>1, <1>2, <1>3

(* The keys of a request are keys.                                           *)
LEMMA PlannedKeys ==
    ASSUME Import!ImportAssumptions, NEW r \in Requests
    PROVE  Import!Planned(r) \in Seq(Import!Keys)
<1>1. PICK n, m : n = r[2] - r[1] /\ m = Len(Markets)
  OBVIOUS
<1>2. n \in Nat /\ m \in Nat \ {0} /\ n * m \in Nat
  <2>1. n \in Nat
    BY <1>1 DEF Import!ImportAssumptions
  <2>2. m \in Nat \ {0}
    BY <1>1 DEF Import!ImportAssumptions
  <2> QED
    BY <2>1, <2>2
<1>3. ASSUME NEW i \in 1 .. n * m
      PROVE  <<r[1] + (i - 1) \div m, Markets[((i - 1) % m) + 1], r[3]>> \in Import!Keys
  <2>1. PICK q \in 0 .. n - 1, x \in 0 .. m - 1 : q = (i - 1) \div m /\ x = (i - 1) % m
    BY <1>2, Divides
  <2>2. r[1] + q \in SourceHours
    BY <1>1, <1>2, <2>1, HourOfRequest
  <2>3. Markets[x + 1] \in Import!ToSet(Markets)
    <3>1. x + 1 \in 1 .. Len(Markets)
      BY <1>1, <1>2, <2>1
    <3>2. x + 1 \in DOMAIN Markets
      BY <3>1 DEF Import!ImportAssumptions
    <3> QED
      BY <3>2 DEF Import!ToSet
  <2>4. r[3] \in Depths
    BY DEF Import!ImportAssumptions
  <2> QED
    BY <2>1, <2>2, <2>3, <2>4 DEF Import!Keys
<1>4. Import!Planned(r) = [i \in 1 .. n * m |->
                       <<r[1] + (i - 1) \div m, Markets[((i - 1) % m) + 1], r[3]>>]
  BY <1>1 DEF Import!Planned
<1>5. DEFINE key(i) == <<r[1] + (i - 1) \div m, Markets[((i - 1) % m) + 1], r[3]>>
<1>6. \A i \in 1 .. n * m : key(i) \in Import!Keys
  BY <1>3
<1>7. Import!Planned(r) = [i \in 1 .. n * m |-> key(i)]
  BY <1>4
<1> HIDE DEF key
<1> QED
  BY <1>2, <1>6, <1>7, IsASeq

-----------------------------------------------------------------------------
(* What is published and what is written stays, and later publications are    *)
(* of later commits.                                                         *)
Grows ==
    /\ head =< head'
    /\ \A b \in Import!Backends, k \in Import!Keys :
         \/ published'[b][k] = published[b][k]
         \/ published[b][k] = Null /\ published'[b][k].at > head
    /\ \A k \in Import!Keys : imports[k] # Null => imports'[k] = imports[k]

LEMMA ItemStays ==
    ASSUME Import!ImportAssumptions, RowsTyped, RowsTyped', Grows,
           NEW b \in Import!Backends, NEW pin, PinnedTo(b, pin), NEW x \in Item, ItemIsTrue(b, pin, x)
    PROVE  ItemIsTrue(b, pin, x)'
<1>1. x.key \in Import!Keys
  BY DEF Item
<1>2. PICK p, q : p = published[b][x.key] /\ q = published'[b][x.key]
  OBVIOUS
<1>3. p # Null => q = p /\ p.artifact # Null
  BY <1>1, <1>2 DEF Grows, RowsTyped, Import!ImportAssumptions
<1>4. ASSUME x.what \in {"imported", "reused"}
      PROVE  q # Null /\ imports'[x.key] = q.artifact /\ (b = "hf" => q.at =< pin)
  <2>1. p # Null /\ imports[x.key] = p.artifact /\ (b = "hf" => p.at =< pin)
    BY <1>2, <1>4 DEF ItemIsTrue
  <2> QED
    BY <1>1, <1>3, <2>1 DEF Grows
<1>5. ASSUME x.what = "missing", b = "hf", q # Null
      PROVE  q.at > pin
  <2>1. p # Null => p.at > pin
    BY <1>2, <1>5 DEF ItemIsTrue
  <2>2. pin \in Nat /\ pin =< head /\ head \in Nat
    BY <1>5 DEF PinnedTo, RowsTyped
  <2>3. CASE p # Null
    BY <1>3, <2>1, <2>3
  <2>4. CASE p = Null
    <3>1. q.at > head /\ q.at \in Nat
      BY <1>1, <1>2, <1>5, <2>4 DEF Grows, RowsTyped
    <3> QED
      BY <2>2, <3>1
  <2> QED
    BY <2>3, <2>4
<1> QED
  BY <1>2, <1>4, <1>5 DEF ItemIsTrue

LEMMA PinStays ==
    ASSUME RowsTyped, RowsTyped', Grows, NEW b, NEW pin, PinnedTo(b, pin)
    PROVE  PinnedTo(b, pin)'
BY DEF PinnedTo, Grows, RowsTyped

LEMMA ToldStays ==
    ASSUME Import!ImportAssumptions, RowsTyped, RowsTyped', Grows, Told, result' = result
    PROVE  Told'
<1> SUFFICES ASSUME result # Null
             PROVE  /\ result.backend \in Import!Backends /\ result.items \in Seq(Item)
                    /\ result.items # <<>> => PinnedTo(result.backend, result.pinned)'
                    /\ \A i \in DOMAIN result.items :
                         ItemIsTrue(result.backend, result.pinned, result.items[i])'
                    /\ result.status = "ok" =>
                         \A k \in Import!ToSet(result.keys) : k \in Import!Keys /\ imports'[k] # Null
  BY DEF Told, PinnedTo, ItemIsTrue
<1>1. /\ result.backend \in Import!Backends /\ result.items \in Seq(Item)
      /\ result.items # <<>> => PinnedTo(result.backend, result.pinned)
      /\ \A i \in DOMAIN result.items : ItemIsTrue(result.backend, result.pinned, result.items[i])
      /\ result.status = "ok" => \A k \in Import!ToSet(result.keys) : k \in Import!Keys /\ imports[k] # Null
  BY DEF Told
<1>2. result.items # <<>> => PinnedTo(result.backend, result.pinned)'
  BY <1>1, PinStays
<1>3. ASSUME NEW i \in DOMAIN result.items
      PROVE  ItemIsTrue(result.backend, result.pinned, result.items[i])'
  <2>1. result.items[i] \in Item /\ result.items # <<>>
    BY <1>1
  <2>2. PICK x \in Item, b \in Import!Backends : x = result.items[i] /\ b = result.backend
    BY <1>1, <2>1
  <2>0. PICK pin : pin = result.pinned
    OBVIOUS
  <2>3. PinnedTo(b, pin) /\ ItemIsTrue(b, pin, x)
    BY <1>1, <2>0, <2>1, <2>2
  <2>4. ItemIsTrue(b, pin, x)'
    BY <2>3, ItemStays
  <2> QED
    BY <2>0, <2>2, <2>4 DEF ItemIsTrue
<1>4. result.status = "ok" => \A k \in Import!ToSet(result.keys) : k \in Import!Keys /\ imports'[k] # Null
  BY <1>1 DEF Grows
<1> QED
  BY <1>1, <1>2, <1>3, <1>4

-----------------------------------------------------------------------------
LEMMA InitImports == Import!ImportAssumptions /\ Import!Init => ImportInv
<1> SUFFICES ASSUME Import!ImportAssumptions, Import!Init PROVE ImportInv
  OBVIOUS
<1>1. RowsTyped
  <2>1. \A b \in Import!Backends, k \in Import!Keys : published[b][k] = Null
    BY DEF Import!Init
  <2>2. published = [b \in Import!Backends |-> [k \in Import!Keys |-> published[b][k]]]
    BY DEF Import!Init
  <2>3. source = [s \in Import!Sources |-> source[s]] /\ \A s \in Import!Sources : IsRow(source[s])
    BY DEF Import!Init, IsRow
  <2> QED
    BY <2>1, <2>2, <2>3 DEF Import!Init, RowsTyped
<1>2. JobTyped /\ InOrder /\ Pinned /\ Fetched /\ ItemsAreTrue
  <2>1. runtime.backend \in Import!Backends /\ runtime.sequence = 0
        /\ runtime = [backend |-> runtime.backend, sequence |-> runtime.sequence]
    BY DEF Import!Init
  <2>2. IsJob(job) /\ job.keys = <<>> /\ job.items = <<>> /\ job.phase = "idle"
    BY DEF Import!Init, Import!Idle, IsJob
  <2> QED
    BY <2>1, <2>2 DEF Import!Init, JobTyped, InOrder, Pinned, Fetched, ItemsAreTrue
<1>3. Told
  BY DEF Import!Init, Told
<1>4. HoursOwned
  <2>1. \A s \in Import!Sources : source[s].imported = Null /\ source[s].origin = Null
                           /\ source[s].revision = Null
    BY DEF Import!Init
  <2>2. Null # "hf"
    BY DEF Import!ImportAssumptions
  <2>3. \A k \in Import!Keys : listed[k] = Null /\ imports[k] = Null
    BY DEF Import!Init
  <2> QED
    BY <2>1, <2>2, <2>3 DEF HoursOwned
<1>5. Import!EndsAreCounted
  BY DEF Import!Init, Import!EndsAreCounted
<1> QED
  BY <1>1, <1>2, <1>3, <1>4, <1>5 DEF ImportInv

-----------------------------------------------------------------------------
(* The world changes while the run waits.                                    *)
LEMMA RunWaits ==
    ASSUME Import!ImportAssumptions, ImportInv, RowsTyped', HoursOwned', Grows,
           UNCHANGED <<runtime, job, result, ended>>
    PROVE  ImportInv'
<1> USE DEF ImportInv
<1>1. JobTyped' /\ InOrder' /\ Import!EndsAreCounted'
  BY DEF JobTyped, InOrder, Import!EndsAreCounted
<1>2. PICK b, pin : b = runtime.backend /\ pin = job.pinned /\ b \in Import!Backends
  BY DEF JobTyped
<1>3. Pinned'
  <2>1. PinnedTo(b, pin) => PinnedTo(b, pin)'
    BY PinStays
  <2> QED
    BY <1>2, <2>1 DEF Pinned, PinnedTo
<1>4. Fetched'
  <2> SUFFICES ASSUME job.phase = "import" PROVE Fetched'
    BY DEF Fetched
  <2>1. PICK k : k = Import!Current
    OBVIOUS
  <2>2. k \in Import!Keys /\ Import!Current' = k
    BY <2>1 DEF Import!Current, InOrder, JobTyped
  <2>3. published[b][k] # Null
    BY <1>2, <2>1 DEF Fetched
  <2>4. published'[b][k] = published[b][k]
    BY <1>2, <2>2, <2>3 DEF Grows
  <2> QED
    BY <1>2, <2>1, <2>2, <2>4 DEF Fetched
<1>5. ItemsAreTrue'
  <2> SUFFICES ASSUME NEW i \in DOMAIN job.items
               PROVE  ItemIsTrue(runtime.backend, job.pinned, job.items[i])'
    BY DEF ItemsAreTrue
  <2>1. job.items \in Seq(Item) /\ job.items # <<>>
    BY DEF JobTyped
  <2>2. PICK x \in Item : x = job.items[i]
    BY <2>1
  <2>3. PinnedTo(b, pin) /\ ItemIsTrue(b, pin, x)
    BY <1>2, <2>1, <2>2 DEF Pinned, ItemsAreTrue
  <2>4. ItemIsTrue(b, pin, x)'
    BY <1>2, <2>3, ItemStays
  <2> QED
    BY <1>2, <2>2, <2>4 DEF ItemIsTrue
<1>6. Told'
  BY ToldStays
<1> QED
  BY <1>1, <1>3, <1>4, <1>5, <1>6

(* The run moves, and the world does not.                                    *)
LEMMA RunMoves ==
    ASSUME Import!ImportAssumptions, ImportInv, UNCHANGED <<Import!remote, Import!local, runtime, result, ended>>,
           JobTyped', InOrder', Pinned', Fetched', ItemsAreTrue'
    PROVE  ImportInv'
<1> USE DEF ImportInv
<1>1. UNCHANGED <<published, head, imports, source, listed, runtime, result, ended>>
  BY DEF Import!remote, Import!local
<1>2. RowsTyped' /\ HoursOwned' /\ Import!EndsAreCounted'
  BY <1>1 DEF RowsTyped, HoursOwned, Import!EndsAreCounted
<1>3. Told'
  BY <1>1 DEF Told, PinnedTo, ItemIsTrue
<1> QED
  BY <1>2, <1>3

(* The run ends, with a result that is true.                                 *)
LEMMA RunIsOver ==
    ASSUME Import!ImportAssumptions, ImportInv, RowsTyped', HoursOwned', NEW outcome, Import!Ends(outcome), Told'
    PROVE  ImportInv'
<1> USE DEF ImportInv
<1>1. /\ job' = Import!Idle /\ ended' = ended + 1
      /\ runtime' = [runtime EXCEPT !.sequence = @ + 1]
  BY DEF Import!Ends
<1>2. /\ runtime'.backend = runtime.backend /\ runtime'.sequence = runtime.sequence + 1
      /\ runtime' = [backend |-> runtime'.backend, sequence |-> runtime'.sequence]
  BY <1>1 DEF JobTyped
<1>3. IsJob(job') /\ job'.keys = <<>> /\ job'.items = <<>> /\ job'.phase = "idle"
  BY <1>1 DEF Import!Idle, IsJob
<1>4. JobTyped' /\ InOrder' /\ Pinned' /\ Fetched' /\ ItemsAreTrue'
  BY <1>1, <1>2, <1>3 DEF JobTyped, InOrder, Pinned, Fetched, ItemsAreTrue
<1>5. Import!EndsAreCounted'
  BY <1>1, <1>2 DEF Import!EndsAreCounted
<1> QED
  BY <1>4, <1>5

LEMMA RunIsOverInNothing ==
    ASSUME Import!ImportAssumptions, ImportInv, RowsTyped', HoursOwned', Import!Ends(Null)
    PROVE  ImportInv'
<1>1. Told'
  BY DEF Import!Ends, Told
<1> QED
  BY <1>1, RunIsOver

-----------------------------------------------------------------------------
LEMMA PublishImports ==
    ASSUME Import!ImportAssumptions, ImportInv, NEW b \in Import!Backends, NEW k \in Import!Keys,
           NEW a \in Artifacts(k), Import!Publish(b, k, a)
    PROVE  ImportInv'
<1> USE DEF ImportInv
<1>1. PICK new : new = [artifact |-> a, at |-> head']
  OBVIOUS
<1>2. /\ published[b][k] = Null /\ head' = head + 1 /\ published' = [published EXCEPT ![b][k] = new]
      /\ UNCHANGED <<imports, source, listed, runtime, job, result, ended>>
  BY <1>1 DEF Import!Publish, Import!local
<1>3. head \in Nat /\ head' \in Nat /\ new.at = head' /\ new.artifact = a
  BY <1>1, <1>2 DEF RowsTyped
<1>4. /\ published' = [c \in Import!Backends |-> [l \in Import!Keys |-> published'[c][l]]]
      /\ published'[b][k] = new
      /\ \A c \in Import!Backends, l \in Import!Keys : c # b \/ l # k => published'[c][l] = published[c][l]
  <2>1. published = [c \in Import!Backends |-> [l \in Import!Keys |-> published[c][l]]]
    BY DEF RowsTyped
  <2>2. PICK old : old = published[b]
    OBVIOUS
  <2>3. old = [l \in Import!Keys |-> old[l]]
    BY <2>1, <2>2
  <2>4. PICK made : made = [old EXCEPT ![k] = new]
    OBVIOUS
  <2>5. made = [l \in Import!Keys |-> made[l]] /\ made[k] = new /\ \A l \in Import!Keys : l # k => made[l] = old[l]
    BY <2>3, <2>4
  <2>6. published' = [published EXCEPT ![b] = made]
    BY <1>2, <2>2, <2>4
  <2>7. published'[b] = made /\ \A c \in Import!Backends : c # b => published'[c] = published[c]
    BY <2>1, <2>6
  <2>8. \A c \in Import!Backends : published[c] = [l \in Import!Keys |-> published[c][l]]
    BY <2>1
  <2>9. published' = [c \in Import!Backends |-> published'[c]]
    BY <2>1, <2>6
  <2>10. \A c \in Import!Backends : published'[c] = [l \in Import!Keys |-> published'[c][l]]
    BY <2>5, <2>7, <2>8
  <2>11. published' = [c \in Import!Backends |-> [l \in Import!Keys |-> published'[c][l]]]
    BY <2>9, <2>10
  <2> QED
    BY <2>2, <2>5, <2>7, <2>11
<1>5. RowsTyped'
  <2>1. ASSUME NEW c \in Import!Backends, NEW l \in Import!Keys, published'[c][l] # Null
        PROVE  /\ published'[c][l].at \in Nat /\ published'[c][l].at =< head'
               /\ published'[c][l].artifact \in Artifacts(l)
    <3>1. CASE c = b /\ l = k
      BY <1>3, <1>4, <3>1
    <3>2. CASE ~(c = b /\ l = k)
      BY <1>2, <1>3, <1>4, <2>1, <3>2 DEF RowsTyped
    <3> QED
      BY <3>1, <3>2
  <2> QED
    BY <1>2, <1>3, <1>4, <2>1 DEF RowsTyped
<1>6. HoursOwned'
  BY <1>2 DEF HoursOwned
<1>7. Grows
  BY <1>2, <1>3, <1>4 DEF Grows
<1> QED
  BY <1>2, <1>5, <1>6, <1>7, RunWaits

-----------------------------------------------------------------------------
LEMMA SourceOfKey == \A k \in Import!Keys : Import!SourceOf(k) \in Import!Sources
BY DEF Import!Keys, Import!Sources, Import!SourceOf

(* One source row changes.                                                   *)
OnlySource(s) ==
    /\ source' = [t \in Import!Sources |-> source'[t]] /\ IsRow(source'[s])
    /\ \A t \in Import!Sources : t # s => source'[t] = source[t]

LEMMA LocalKeeps ==
    ASSUME ImportInv, NEW s \in Import!Sources, OnlySource(s),
           UNCHANGED <<published, head, imports, listed>>,
           source[s].status = "processed" => source'[s].status = "processed",
           source[s].digest # Null => source'[s].digest = source[s].digest,
           source'[s].imported = source[s].imported, source'[s].origin = source[s].origin,
           source'[s].revision = source[s].revision,
           Import!ImportAssumptions
    PROVE  RowsTyped' /\ HoursOwned' /\ Grows
<1> USE DEF ImportInv
<1>1. RowsTyped'
  BY DEF RowsTyped, OnlySource
<1>2. HoursOwned'
  <2>1. ASSUME NEW k \in Import!Keys
        PROVE  /\ listed'[k] = imports'[k]
               /\ imports'[k] # Null => /\ source'[Import!SourceOf(k)].status = "processed"
                                       /\ source'[Import!SourceOf(k)].digest = DigestOf(imports'[k])
    <3>1. PICK t \in Import!Sources : t = Import!SourceOf(k)
      BY SourceOfKey
    <3>2. imports[k] # Null => DigestOf(imports[k]) # Null
      BY DEF RowsTyped, Import!ImportAssumptions
    <3>3. /\ listed[k] = imports[k]
          /\ imports[k] # Null => /\ source[t].status = "processed"
                                 /\ source[t].digest = DigestOf(imports[k])
      BY <3>1 DEF HoursOwned
    <3>4. CASE t = s
      BY <3>1, <3>2, <3>3, <3>4
    <3>5. CASE t # s
      BY <3>1, <3>3, <3>5 DEF OnlySource
    <3> QED
      BY <3>4, <3>5
  <2>2. \A t \in Import!Sources : /\ source'[t].imported = source[t].imported
                           /\ source'[t].origin = source[t].origin
                           /\ source'[t].revision = source[t].revision
    BY DEF OnlySource
  <2> QED
    BY <2>1, <2>2 DEF HoursOwned, Import!SourceOf
<1>3. Grows
  BY DEF Grows, RowsTyped
<1> QED
  BY <1>1, <1>2, <1>3

(* The row of a key is written, and its source hour owns it.                 *)
LEMMA WriteKeeps ==
    ASSUME Import!ImportAssumptions, ImportInv, NEW k \in Import!Keys, NEW a \in Artifacts(k), Import!Write(k, a),
           NEW s \in Import!Sources, s = Import!SourceOf(k), OnlySource(s),
           UNCHANGED <<published, head>>,
           source[s].digest \in {Null, DigestOf(a)},
           source'[s].status = "processed", source'[s].digest = DigestOf(a),
           \/ source'[s].imported = source[s].imported
           \/ source'[s].imported.key = k /\ source'[s].imported.artifact = a,
           source'[s].origin = "hf" <=> source'[s].revision # Null
    PROVE  RowsTyped' /\ HoursOwned' /\ Grows
<1> USE DEF ImportInv
<1>1. a # Null /\ DigestOf(a) # Null
  BY DEF Import!ImportAssumptions
<1>2. /\ imports' = [l \in Import!Keys |-> imports'[l]] /\ imports'[k] = a
      /\ \A l \in Import!Keys : l # k => imports'[l] = imports[l]
  BY DEF Import!Write, RowsTyped
<1>3. /\ listed' = [l \in Import!Keys |-> listed'[l]] /\ listed'[k] = a
      /\ \A l \in Import!Keys : l # k => listed'[l] = listed[l]
  BY DEF Import!Write, RowsTyped
<1>4. \A l \in Import!Keys : imports[l] # Null => imports'[l] = imports[l]
  BY <1>2 DEF Import!Write, Import!Writable
<1>5. RowsTyped'
  BY <1>2, <1>3 DEF RowsTyped, OnlySource
<1>6. Grows
  BY <1>4 DEF Grows, RowsTyped
<1>7. HoursOwned'
  <2>1. ASSUME NEW l \in Import!Keys
        PROVE  /\ listed'[l] = imports'[l]
               /\ imports'[l] # Null => /\ source'[Import!SourceOf(l)].status = "processed"
                                       /\ source'[Import!SourceOf(l)].digest = DigestOf(imports'[l])
    <3>1. PICK t \in Import!Sources : t = Import!SourceOf(l)
      BY SourceOfKey
    <3>2. CASE l = k
      BY <1>2, <1>3, <3>2
    <3>3. CASE l # k
      <4>1. listed'[l] = imports[l] /\ imports'[l] = imports[l]
        BY <1>2, <1>3, <3>3 DEF HoursOwned
      <4>2. imports[l] # Null => /\ source[t].status = "processed"
                                /\ source[t].digest = DigestOf(imports[l])
                                /\ DigestOf(imports[l]) # Null
        BY <3>1 DEF HoursOwned, RowsTyped, Import!ImportAssumptions
      <4>3. CASE t = s
        BY <3>1, <4>1, <4>2, <4>3
      <4>4. CASE t # s
        BY <3>1, <4>1, <4>2, <4>4 DEF OnlySource
      <4> QED
        BY <4>3, <4>4
    <3> QED
      BY <3>2, <3>3
  <2>2. ASSUME NEW t \in Import!Sources
        PROVE  LET i == source'[t].imported IN
               /\ i # Null => i.key \in Import!Keys /\ imports'[i.key] = i.artifact /\ imports'[i.key] # Null
               /\ source'[t].origin = "hf" <=> source'[t].revision # Null
    <3>1. PICK i : i = source[t].imported
      OBVIOUS
    <3>2. /\ i # Null => i.key \in Import!Keys /\ imports'[i.key] = i.artifact /\ imports'[i.key] # Null
          /\ source[t].origin = "hf" <=> source[t].revision # Null
      BY <1>4, <3>1 DEF HoursOwned
    <3>3. CASE t # s
      BY <3>1, <3>2, <3>3 DEF OnlySource
    <3>4. CASE t = s /\ source'[s].imported = source[s].imported
      BY <3>1, <3>2, <3>4
    <3>5. CASE t = s /\ source'[s].imported.key = k /\ source'[s].imported.artifact = a
      BY <1>1, <1>2, <3>5
    <3> QED
      BY <3>3, <3>4, <3>5
  <2> QED
    BY <2>1, <2>2 DEF HoursOwned, Import!SourceOf
<1> QED
  BY <1>5, <1>6, <1>7

LEMMA LocalImports ==
    ASSUME Import!ImportAssumptions, ImportInv,
           \/ \E s \in Import!Sources : Import!Claim(s) \/ Import!Damage(s)
           \/ \E k \in Import!Keys : \E a \in Artifacts(k) : Import!Attach(Import!SourceOf(k), DigestOf(a)) \/ Import!Process(k, a)
    PROVE  ImportInv'
<1> USE DEF ImportInv
<1>1. UNCHANGED <<published, head, runtime, job, result, ended>>
  BY DEF Import!Claim, Import!Damage, Import!Attach, Import!Process, Import!Local, Import!remote
<1>2. source = [t \in Import!Sources |-> source[t]] /\ \A t \in Import!Sources : IsRow(source[t])
  BY DEF RowsTyped
<1>3. ASSUME NEW s \in Import!Sources, Import!Claim(s) PROVE ImportInv'
  <2>1. /\ OnlySource(s) /\ source'[s].digest = source[s].digest
        /\ source'[s].imported = source[s].imported /\ source'[s].origin = source[s].origin
        /\ source'[s].revision = source[s].revision /\ source[s].status # "processed"
        /\ UNCHANGED <<imports, listed>>
    BY <1>2, <1>3 DEF Import!Claim, OnlySource, IsRow
  <2>2. RowsTyped' /\ HoursOwned' /\ Grows
    BY <1>1, <2>1, LocalKeeps
  <2> QED
    BY <1>1, <2>2, RunWaits
<1>4. ASSUME NEW s \in Import!Sources, Import!Damage(s) PROVE ImportInv'
  <2>1. /\ OnlySource(s) /\ source'[s].digest = source[s].digest
        /\ source'[s].imported = source[s].imported /\ source'[s].origin = source[s].origin
        /\ source'[s].revision = source[s].revision /\ source'[s].status = source[s].status
        /\ UNCHANGED <<imports, listed>>
    BY <1>2, <1>4 DEF Import!Damage, OnlySource, IsRow
  <2>2. RowsTyped' /\ HoursOwned' /\ Grows
    BY <1>1, <2>1, LocalKeeps
  <2> QED
    BY <1>1, <2>2, RunWaits
<1>5. ASSUME NEW s \in Import!Sources, NEW d, Import!Attach(s, d) PROVE ImportInv'
  <2>0. PICK kept :
          kept = IF source[s].status = "processed" THEN source[s].status ELSE "downloaded"
    OBVIOUS
  <2>1. /\ OnlySource(s) /\ source'[s].digest = d
        /\ source'[s].imported = source[s].imported /\ source'[s].origin = source[s].origin
        /\ source'[s].revision = source[s].revision
        /\ source[s].status = "processed" => source'[s].status = "processed"
    <3>1. source' = [source EXCEPT ![s].status = IF source[s].status = "processed"
                                                 THEN source[s].status ELSE "downloaded",
                                   ![s].digest = d, ![s].attached = "good"]
      BY <1>5 DEF Import!Attach
    <3>2. source' = [source EXCEPT ![s].status = kept, ![s].digest = d, ![s].attached = "good"]
      BY <2>0, <3>1
    <3>3. source'[s] = [source[s] EXCEPT !.status = kept, !.digest = d, !.attached = "good"]
      BY <1>2, <3>2
    <3>4. /\ IsRow(source'[s]) /\ source'[s].status = kept /\ source'[s].digest = d
          /\ source'[s].imported = source[s].imported /\ source'[s].origin = source[s].origin
          /\ source'[s].revision = source[s].revision
      BY <1>2, <3>3 DEF IsRow
    <3>5. /\ source' = [t \in Import!Sources |-> source'[t]]
          /\ \A t \in Import!Sources : t # s => source'[t] = source[t]
      BY <1>2, <3>2
    <3> QED
      BY <2>0, <3>4, <3>5 DEF OnlySource
  <2>2. source[s].digest \in {Null, d} /\ UNCHANGED <<imports, listed>>
    BY <1>5 DEF Import!Attach
  <2>3. RowsTyped' /\ HoursOwned' /\ Grows
    BY <1>1, <2>1, <2>2, LocalKeeps
  <2> QED
    BY <1>1, <2>3, RunWaits
<1>6. ASSUME NEW k \in Import!Keys, NEW a \in Artifacts(k), Import!Process(k, a) PROVE ImportInv'
  <2>1. PICK s \in Import!Sources : s = Import!SourceOf(k)
    BY SourceOfKey
  <2>2. /\ source[s].digest = DigestOf(a) /\ Import!Write(k, a)
        /\ source' = [source EXCEPT ![s].status = "processed"]
    BY <1>6, <2>1 DEF Import!Process
  <2>3. /\ OnlySource(s) /\ source'[s].digest = DigestOf(a)
        /\ source'[s].imported = source[s].imported /\ source'[s].origin = source[s].origin
        /\ source'[s].revision = source[s].revision /\ source'[s].status = "processed"
    BY <1>2, <2>2 DEF OnlySource, IsRow
  <2>4. source'[s].origin = "hf" <=> source'[s].revision # Null
    BY <2>3 DEF HoursOwned
  <2>5. RowsTyped' /\ HoursOwned' /\ Grows
    BY <1>1, <2>1, <2>2, <2>3, <2>4, WriteKeeps
  <2> QED
    BY <1>1, <2>5, RunWaits
<1> QED
  BY <1>3, <1>4, <1>5, <1>6, SourceOfKey


-----------------------------------------------------------------------------
(* A job of the same keys and pin, with one item more or none.               *)
SameRun(next) ==
    /\ IsJob(next) /\ next.keys = job.keys /\ next.items = job.items

LEMMA Stops ==
    ASSUME Import!ImportAssumptions, ImportInv, NEW next, job' = next, SameRun(next),
           next.phase = job.phase, next.pinned = job.pinned, next.fetched = job.fetched,
           job.stop => next.stop,
           UNCHANGED <<Import!remote, Import!local, runtime, result, ended>>
    PROVE  ImportInv'
<1> USE DEF ImportInv
<1>1. JobTyped'
  BY DEF JobTyped, SameRun
<1>2. InOrder'
  BY DEF InOrder, SameRun
<1>3. Pinned'
  BY DEF Pinned, PinnedTo, SameRun, Import!remote
<1>4. Fetched'
  BY DEF Fetched, Import!Current, SameRun, Import!remote
<1>5. ItemsAreTrue'
  BY DEF ItemsAreTrue, ItemIsTrue, SameRun, Import!remote, Import!local
<1> QED
  BY <1>1, <1>2, <1>3, <1>4, <1>5, RunMoves

LEMMA AskImports ==
    ASSUME Import!ImportAssumptions, ImportInv, Import!RequestStop \/ Import!Cancel
    PROVE  ImportInv'
<1>1. PICK next : next = job'
  OBVIOUS
<1>2. UNCHANGED <<Import!remote, Import!local, runtime, result, ended>>
  BY DEF Import!RequestStop, Import!Cancel
<1>3. IsJob(job)
  BY DEF ImportInv, JobTyped
<1>4. CASE Import!RequestStop
  <2>1. job' = [job EXCEPT !.stop = TRUE]
    BY <1>4 DEF Import!RequestStop
  <2>2. SameRun(next) /\ next.phase = job.phase /\ next.pinned = job.pinned
        /\ next.fetched = job.fetched /\ next.stop
    BY <1>1, <1>3, <2>1 DEF SameRun, IsJob
  <2> QED
    BY <1>1, <1>2, <2>2, Stops
<1>5. CASE Import!Cancel
  <2>1. job' = [job EXCEPT !.stop = TRUE, !.cancelled = TRUE]
    BY <1>5 DEF Import!Cancel
  <2>2. SameRun(next) /\ next.phase = job.phase /\ next.pinned = job.pinned
        /\ next.fetched = job.fetched /\ next.stop
    BY <1>1, <1>3, <2>1 DEF SameRun, IsJob
  <2> QED
    BY <1>1, <1>2, <2>2, Stops
<1> QED
  BY <1>4, <1>5

LEMMA StartImports ==
    ASSUME Import!ImportAssumptions, ImportInv, NEW r \in Requests, Import!Start(r)
    PROVE  ImportInv'
<1> USE DEF ImportInv
<1>1. PICK keys : keys = Import!Planned(r)
  OBVIOUS
<1>2. /\ job' = [Import!Idle EXCEPT !.phase = "admitted", !.keys = keys]
      /\ result' = Null
      /\ UNCHANGED <<Import!remote, Import!local, runtime, ended>>
  BY <1>1 DEF Import!Start
<1>3. keys \in Seq(Import!Keys)
  BY <1>1, PlannedKeys
<1>4. IsJob(job') /\ job'.keys = keys /\ job'.items = <<>> /\ job'.phase = "admitted"
  BY <1>2 DEF Import!Idle, IsJob
<1>5. UNCHANGED <<published, head, imports, source, listed, runtime, ended>>
  BY <1>2 DEF Import!remote, Import!local
<1>6. JobTyped' /\ InOrder' /\ Pinned' /\ Fetched' /\ ItemsAreTrue'
  <2>1. JobTyped'
    BY <1>3, <1>4, <1>5 DEF JobTyped
  <2>2. Len(keys) \in Nat
    BY <1>3
  <2> QED
    BY <1>4, <2>1, <2>2 DEF InOrder, Pinned, Fetched, ItemsAreTrue
<1>7. RowsTyped' /\ HoursOwned' /\ Import!EndsAreCounted'
  BY <1>5 DEF RowsTyped, HoursOwned, Import!EndsAreCounted
<1>8. Told'
  BY <1>2 DEF Told
<1> QED
  BY <1>6, <1>7, <1>8

LEMMA SwitchImports ==
    ASSUME Import!ImportAssumptions, ImportInv, NEW b \in Import!Backends, Import!Switch(b)
    PROVE  ImportInv'
<1> USE DEF ImportInv
<1>1. /\ job.phase = "idle" /\ result' = Null
      /\ runtime' = [backend |-> b, sequence |-> runtime.sequence]
      /\ UNCHANGED <<published, head, imports, source, listed, job, ended>>
  BY DEF Import!Switch, Import!remote, Import!local
<1>2. job.items = <<>>
  BY <1>1 DEF InOrder
<1>3. JobTyped' /\ InOrder' /\ Pinned' /\ Fetched' /\ ItemsAreTrue'
  <2>1. JobTyped' /\ InOrder'
    BY <1>1 DEF JobTyped, InOrder
  <2> QED
    BY <1>1, <1>2, <2>1 DEF Pinned, Fetched, ItemsAreTrue
<1>4. RowsTyped' /\ HoursOwned' /\ Import!EndsAreCounted'
  BY <1>1 DEF RowsTyped, HoursOwned, Import!EndsAreCounted
<1>5. Told'
  BY <1>1 DEF Told
<1> QED
  BY <1>3, <1>4, <1>5

LEMMA StaysTyped ==
    ASSUME ImportInv, UNCHANGED <<Import!remote, Import!local>> PROVE RowsTyped' /\ HoursOwned'
BY DEF ImportInv, RowsTyped, HoursOwned, Import!remote, Import!local

(* A thread's return, when the world has not moved.                          *)
LEMMA ReturnImports ==
    ASSUME Import!ImportAssumptions, ImportInv, NEW next, Import!Returns(next),
           UNCHANGED <<Import!remote, Import!local>>,
           job' = next /\ UNCHANGED <<runtime, ended>> =>
               JobTyped' /\ InOrder' /\ Pinned' /\ Fetched' /\ ItemsAreTrue'
    PROVE  ImportInv'
<1>1. CASE job.cancelled
  <2>1. Import!Ends(Null)
    BY <1>1 DEF Import!Returns
  <2> QED
    BY <2>1, StaysTyped, RunIsOverInNothing
<1>2. CASE ~job.cancelled
  <2>1. job' = next /\ UNCHANGED <<runtime, result, ended>>
    BY <1>2 DEF Import!Returns
  <2> QED
    BY <2>1, RunMoves
<1> QED
  BY <1>1, <1>2

(* An item is noted of the current key, and the run goes on.                 *)
LEMMA NotesItem ==
    ASSUME Import!ImportAssumptions, ImportInv, RowsTyped', Grows, job.phase \in {"download", "import"},
           NEW what \in {"imported", "reused", "missing", "error"}, job' = Import!Noted(what),
           UNCHANGED <<runtime, ended>>,
           NEW k, NEW b, NEW pin, k = Import!Current, b = runtime.backend, pin = job.pinned,
           ItemIsTrue(b, pin, [key |-> k, what |-> what])'
    PROVE  JobTyped' /\ InOrder' /\ Pinned' /\ Fetched' /\ ItemsAreTrue'
<1> USE DEF ImportInv
<1>1. PICK new, items : /\ new = [key |-> k, what |-> what]
                        /\ items = Append(job.items, new)
  OBVIOUS
<1>2. b \in Import!Backends
  BY DEF JobTyped
<1>3. job.items \in Seq(Item) /\ job.keys \in Seq(Import!Keys) /\ Len(job.items) < Len(job.keys)
      /\ IsJob(job)
  BY DEF JobTyped, InOrder
<1>4. k = job.keys[Len(job.items) + 1] /\ k \in Import!Keys
  BY <1>3 DEF Import!Current
<1>5. new \in Item /\ new.key = k /\ new.what = what
  BY <1>1, <1>4 DEF Item
<1>6. /\ items \in Seq(Item) /\ Len(items) = Len(job.items) + 1
      /\ items[Len(job.items) + 1] = new
      /\ \A i \in 1 .. Len(job.items) : items[i] = job.items[i]
  BY <1>1, <1>3, <1>5
<1>7. /\ IsJob(job') /\ job'.keys = job.keys /\ job'.items = items /\ job'.pinned = pin
      /\ job'.phase = "loop" /\ job'.stop = job.stop
  <2>1. job' = [[job EXCEPT !.phase = "loop"]
                  EXCEPT !.fetched = Null,
                         !.items = Append(@, [key |-> Import!Current, what |-> what])]
    BY DEF Import!Noted, Import!To
  <2>2. job' = [job EXCEPT !.phase = "loop", !.fetched = Null, !.items = items]
    BY <1>1, <1>3, <2>1 DEF IsJob
  <2> QED
    BY <1>2, <1>3, <2>2 DEF IsJob
<1>8. JobTyped'
  BY <1>3, <1>6, <1>7 DEF JobTyped
<1>9. InOrder'
  <2>1. \A i \in 1 .. Len(items) : items[i].key = job.keys[i]
    <3> SUFFICES ASSUME NEW i \in 1 .. Len(items) PROVE items[i].key = job.keys[i]
      OBVIOUS
    <3>1. CASE i = Len(job.items) + 1
      BY <1>4, <1>5, <1>6, <3>1
    <3>2. CASE i \in 1 .. Len(job.items)
      BY <1>6, <3>2 DEF InOrder
    <3> QED
      BY <1>3, <1>6, <3>1, <3>2
  <2>2. Len(items) =< Len(job.keys)
    BY <1>3, <1>6
  <2> QED
    BY <1>7, <2>1, <2>2 DEF InOrder
<1>10. PinnedTo(b, pin)
  BY <1>2 DEF Pinned
<1>11. Pinned'
  <2>1. PinnedTo(b, pin)'
    BY <1>10, PinStays
  <2> QED
    BY <1>2, <1>7, <2>1 DEF Pinned, PinnedTo
<1>12. Fetched'
  BY <1>7 DEF Fetched
<1>13. ItemsAreTrue'
  <2> SUFFICES ASSUME NEW i \in DOMAIN items PROVE ItemIsTrue(b, pin, items[i])'
    BY <1>2, <1>7 DEF ItemsAreTrue, ItemIsTrue
  <2>1. CASE i = Len(job.items) + 1
    <3>1. ItemIsTrue(b, pin, new)'
      BY <1>1 DEF ItemIsTrue
    <3> QED
      BY <1>6, <2>1, <3>1 DEF ItemIsTrue
  <2>2. CASE i \in 1 .. Len(job.items)
    <3>1. PICK x \in Item : x = job.items[i] /\ x = items[i]
      BY <1>3, <1>6, <2>2
    <3>2. i \in DOMAIN job.items
      BY <1>3, <2>2
    <3>3. ItemIsTrue(b, pin, x)
      BY <3>1, <3>2 DEF ItemsAreTrue
    <3>4. ItemIsTrue(b, pin, x)'
      BY <1>2, <1>10, <3>3, ItemStays
    <3> QED
      BY <3>1, <3>4 DEF ItemIsTrue
  <2> QED
    BY <1>3, <1>6, <2>1, <2>2
<1> QED
  BY <1>8, <1>9, <1>11, <1>12, <1>13

-----------------------------------------------------------------------------
LEMMA MovesOn ==
    ASSUME Import!ImportAssumptions, ImportInv, NEW next, job' = next, SameRun(next),
           UNCHANGED <<Import!remote, Import!local, runtime, result, ended>>,
           job.phase \in {"admitted", "pin", "loop"},
           job.phase = "loop" => Len(job.items) < Len(job.keys),
           next.phase = "pin" => job.phase = "admitted",
           next.phase \in {"pin", "loop", "download"},
           \/ next.phase # "pin" => PinnedTo(runtime.backend, next.pinned)
           \/ next.phase = "loop" /\ next.stop /\ job.items = <<>>,
           next.phase = "download" => job.phase = "loop",
           job.phase = "loop" => next.pinned = job.pinned
    PROVE  ImportInv'
<1> USE DEF ImportInv
<1>1. UNCHANGED <<published, head, imports, runtime, ended>>
  BY DEF Import!remote, Import!local
<1>2. JobTyped'
  BY DEF JobTyped, SameRun
<1>3. job.phase # "loop" => job.items = <<>>
  BY DEF InOrder
<1>4. InOrder'
  BY <1>3 DEF InOrder, SameRun
<1>5. Pinned'
  BY <1>1, <1>3 DEF Pinned, PinnedTo, SameRun
<1>6. Fetched'
  BY DEF Fetched
<1>7. ItemsAreTrue'
  <2>1. job'.items = job.items
    BY DEF SameRun
  <2>2. CASE job.phase = "loop"
    <3>1. job'.pinned = job.pinned
      BY <2>2
    <3> QED
      BY <1>1, <2>1, <3>1 DEF ItemsAreTrue, ItemIsTrue
  <2>3. CASE job.phase # "loop"
    BY <1>3, <2>1, <2>3 DEF ItemsAreTrue
  <2> QED
    BY <2>2, <2>3
<1> QED
  BY <1>2, <1>4, <1>5, <1>6, <1>7, RunMoves

LEMMA EnterImports ==
    ASSUME Import!ImportAssumptions, ImportInv, Import!Enter \/ Import!NextKey
    PROVE  ImportInv'
<1> USE DEF ImportInv
<1>1. PICK next : next = job'
  OBVIOUS
<1>2. IsJob(job)
  BY DEF JobTyped
<1>3. CASE Import!Enter
  <2>1. PICK phase : phase = IF job.stop THEN "loop" ELSE "pin"
    OBVIOUS
  <2>2. /\ job.phase = "admitted" /\ job' = [job EXCEPT !.phase = phase]
        /\ UNCHANGED <<Import!remote, Import!local, runtime, result, ended>>
    BY <1>3, <2>1 DEF Import!Enter, Import!To
  <2>3. SameRun(next) /\ next.phase = phase /\ next.stop = job.stop
    BY <1>1, <1>2, <2>2 DEF SameRun, IsJob
  <2>4. job.items = <<>>
    BY <2>2 DEF InOrder
  <2>5. phase = "pin" \/ (phase = "loop" /\ job.stop)
    BY <2>1
  <2> QED
    BY <1>1, <2>2, <2>3, <2>4, <2>5, MovesOn
<1>4. CASE Import!NextKey
  <2>1. /\ job.phase = "loop" /\ ~job.stop /\ Len(job.items) < Len(job.keys)
        /\ job' = [job EXCEPT !.phase = "download"]
        /\ UNCHANGED <<Import!remote, Import!local, runtime, result, ended>>
    BY <1>4 DEF Import!NextKey, Import!Remaining, Import!To
  <2>2. SameRun(next) /\ next.phase = "download" /\ next.pinned = job.pinned
    BY <1>1, <1>2, <2>1 DEF SameRun, IsJob
  <2>3. PinnedTo(runtime.backend, next.pinned)
    BY <2>1, <2>2 DEF Pinned
  <2> QED
    BY <1>1, <2>1, <2>2, <2>3, MovesOn
<1> QED
  BY <1>3, <1>4

LEMMA PinImports ==
    ASSUME Import!ImportAssumptions, ImportInv, Import!Pin
    PROVE  ImportInv'
<1> USE DEF ImportInv
<1>1. PICK pin : pin = IF runtime.backend = "hf" THEN head ELSE Null
  OBVIOUS
<1>2. /\ job.phase = "pin" /\ Import!Returns([Import!To("loop") EXCEPT !.pinned = pin])
      /\ UNCHANGED <<Import!remote, Import!local>>
  BY <1>1 DEF Import!Pin
<1>3. IsJob(job) /\ job.items = <<>> /\ head \in Nat
  BY <1>2 DEF JobTyped, InOrder, RowsTyped
<1>4. PICK next : next = [Import!To("loop") EXCEPT !.pinned = pin]
  OBVIOUS
<1>5. SameRun(next) /\ next.phase = "loop" /\ next.pinned = pin
  BY <1>3, <1>4 DEF Import!To, SameRun, IsJob
<1>6. PinnedTo(runtime.backend, pin)
  BY <1>1, <1>3 DEF PinnedTo
<1>7. CASE job.cancelled
  <2>1. Import!Ends(Null)
    BY <1>2, <1>7 DEF Import!Returns
  <2> QED
    BY <1>2, <2>1, StaysTyped, RunIsOverInNothing
<1>8. CASE ~job.cancelled
  <2>1. job' = next /\ UNCHANGED <<runtime, result, ended>>
    BY <1>2, <1>4, <1>8 DEF Import!Returns
  <2> QED
    BY <1>2, <1>5, <1>6, <2>1, MovesOn
<1> QED
  BY <1>7, <1>8

LEMMA EndsEarlyImports ==
    ASSUME Import!ImportAssumptions, ImportInv, Import!CancelTakes \/ Import!PinFails
    PROVE  ImportInv'
<1>1. Import!Ends(Null) /\ UNCHANGED <<Import!remote, Import!local>>
  BY DEF Import!CancelTakes, Import!PinFails
<1> QED
  BY <1>1, StaysTyped, RunIsOverInNothing

LEMMA StillWorld ==
    ASSUME ImportInv, UNCHANGED <<Import!remote, Import!local>> PROVE Grows
BY DEF ImportInv, RowsTyped, Grows, Import!remote, Import!local

LEMMA ItemFailsImports ==
    ASSUME Import!ImportAssumptions, ImportInv, Import!ItemFails
    PROVE  ImportInv'
<1> USE DEF ImportInv
<1>1. /\ job.phase \in {"download", "import"} /\ Import!Returns(Import!Noted("error"))
      /\ UNCHANGED <<Import!remote, Import!local>>
  BY DEF Import!ItemFails
<1>2. PICK next, b, pin, k : /\ next = Import!Noted("error") /\ b = runtime.backend
                             /\ pin = job.pinned /\ k = Import!Current
  OBVIOUS
<1>3. ItemIsTrue(b, pin, [key |-> k, what |-> "error"])'
  BY DEF ItemIsTrue
<1>4. RowsTyped' /\ Grows
  BY <1>1, StaysTyped, StillWorld
<1>5. ASSUME job' = next, UNCHANGED <<runtime, ended>>
      PROVE  JobTyped' /\ InOrder' /\ Pinned' /\ Fetched' /\ ItemsAreTrue'
  BY <1>1, <1>2, <1>3, <1>4, <1>5, NotesItem
<1> QED
  BY <1>1, <1>2, <1>5, ReturnImports

LEMMA DownloadImports ==
    ASSUME Import!ImportAssumptions, ImportInv, Import!Download
    PROVE  ImportInv'
<1> USE DEF ImportInv
<1>1. /\ job.phase = "download" /\ UNCHANGED <<Import!remote, Import!local>>
      /\ UNCHANGED <<published, imports, head>>
  BY DEF Import!Download, Import!remote, Import!local
<1>2. PICK b, pin, k, p : b = runtime.backend /\ pin = job.pinned /\ k = Import!Current
                          /\ p = published[b][k]
  OBVIOUS
<1>3. IsJob(job) /\ Len(job.items) < Len(job.keys) /\ job.items \in Seq(Item)
      /\ job.keys \in Seq(Import!Keys) /\ b \in Import!Backends
  BY <1>1, <1>2 DEF JobTyped, InOrder
<1>4. PinnedTo(b, pin)
  BY <1>1, <1>2 DEF Pinned
<1>5. CASE Import!Visible(Import!Current)
  <2>1. PICK next : next = [Import!To("import") EXCEPT !.fetched = p.artifact]
    OBVIOUS
  <2>2. Import!Returns(next)
    BY <1>2, <1>5, <2>1 DEF Import!Download
  <2>3. p # Null /\ (b = "hf" => p.at =< pin)
    BY <1>2, <1>5 DEF Import!Visible
  <2>4. SameRun(next) /\ next.phase = "import" /\ next.pinned = pin /\ next.fetched = p.artifact
        /\ next.stop = job.stop
    BY <1>2, <1>3, <2>1 DEF SameRun, IsJob, Import!To
  <2>5. ASSUME job' = next, UNCHANGED <<runtime, ended>>
        PROVE  JobTyped' /\ InOrder' /\ Pinned' /\ Fetched' /\ ItemsAreTrue'
    <3>1. JobTyped' /\ InOrder'
      BY <1>3, <2>4, <2>5 DEF JobTyped, InOrder, SameRun
    <3>2. Pinned'
      BY <1>1, <1>2, <1>4, <2>4, <2>5 DEF Pinned, PinnedTo
    <3>3. Fetched'
      <4>1. Import!Current' = k
        BY <1>2, <2>4, <2>5 DEF Import!Current, SameRun
      <4> QED
        BY <1>1, <1>2, <2>3, <2>4, <2>5, <4>1 DEF Fetched
    <3>4. ItemsAreTrue'
      BY <1>1, <1>2, <2>4, <2>5 DEF ItemsAreTrue, ItemIsTrue, SameRun
    <3> QED
      BY <3>1, <3>2, <3>3, <3>4
  <2> QED
    BY <1>1, <2>2, <2>5, ReturnImports
<1>6. CASE ~Import!Visible(Import!Current)
  <2>1. PICK next : next = Import!Noted("missing")
    OBVIOUS
  <2>2. Import!Returns(next)
    BY <1>6, <2>1 DEF Import!Download
  <2>3. ItemIsTrue(b, pin, [key |-> k, what |-> "missing"])'
    <3>1. k \in Import!Keys
      BY <1>2, <1>3 DEF Import!Current
    <3>2. p # Null /\ b = "hf" => p.at > pin
      <4> SUFFICES ASSUME p # Null, b = "hf" PROVE p.at > pin
        OBVIOUS
      <4>1. ~(p.at =< pin)
        BY <1>2, <1>6 DEF Import!Visible
      <4>2. p.at \in Nat /\ pin \in Nat
        BY <1>2, <1>3, <1>4, <3>1 DEF RowsTyped, PinnedTo
      <4> QED
        BY <4>1, <4>2
    <3> QED
      BY <1>1, <1>2, <3>2 DEF ItemIsTrue
  <2>4. RowsTyped' /\ Grows
    BY <1>1, StaysTyped, StillWorld
  <2>5. ASSUME job' = next, UNCHANGED <<runtime, ended>>
        PROVE  JobTyped' /\ InOrder' /\ Pinned' /\ Fetched' /\ ItemsAreTrue'
    BY <1>1, <1>2, <2>1, <2>3, <2>4, <2>5, NotesItem
  <2> QED
    BY <1>1, <2>2, <2>5, ReturnImports
<1> QED
  BY <1>5, <1>6

LEMMA ImportImports ==
    ASSUME Import!ImportAssumptions, ImportInv, Import!Import
    PROVE  ImportInv'
<1> USE DEF ImportInv
<1>1. PICK b, pin, k, a, s, p, what :
          /\ b = runtime.backend /\ pin = job.pinned /\ k = Import!Current
          /\ a = job.fetched /\ s = Import!SourceOf(k) /\ p = published[b][k]
          /\ what = IF imports[k] = Null THEN "imported" ELSE "reused"
  OBVIOUS
<1>2. /\ job.phase = "import" /\ Import!Ownable(s, a) /\ Import!Write(k, a)
      /\ source' = [source EXCEPT ![s] = Import!Imported(source[s], k, a)]
      /\ Import!Returns(Import!Noted(what)) /\ UNCHANGED <<published, head>>
  BY <1>1 DEF Import!Import, Import!remote
<1>3. IsJob(job) /\ Len(job.items) < Len(job.keys) /\ job.items \in Seq(Item)
      /\ job.keys \in Seq(Import!Keys) /\ b \in Import!Backends
  BY <1>1, <1>2 DEF JobTyped, InOrder
<1>4. k \in Import!Keys /\ s \in Import!Sources
  BY <1>1, <1>3, SourceOfKey DEF Import!Current
<1>5. p # Null /\ p.artifact = a /\ (b = "hf" => p.at =< pin)
  BY <1>1, <1>2 DEF Fetched
<1>6. a \in Artifacts(k)
  BY <1>1, <1>3, <1>4, <1>5 DEF RowsTyped
<1>7. PinnedTo(b, pin) /\ head \in Nat
  BY <1>1, <1>2 DEF Pinned, RowsTyped
<1>8. b = "hf" <=> pin # Null
  BY <1>7 DEF PinnedTo, Import!ImportAssumptions
<1>9. source = [t \in Import!Sources |-> source[t]] /\ IsRow(source[s])
  BY <1>4 DEF RowsTyped
<1>10. /\ OnlySource(s) /\ source'[s].status = "processed" /\ source'[s].digest = DigestOf(a)
       /\ source'[s].imported.key = k /\ source'[s].imported.artifact = a
       /\ source'[s].origin = b /\ source'[s].revision = pin
  <2>1. PICK made : made = Import!Imported(source[s], k, a)
    OBVIOUS
  <2>2. made = [source[s] EXCEPT !.status = "processed", !.digest = DigestOf(a), !.origin = b,
                                !.revision = pin, !.imported = [key |-> k, artifact |-> a]]
    BY <1>1, <2>1 DEF Import!Imported
  <2>3. /\ IsRow(made) /\ made.status = "processed" /\ made.digest = DigestOf(a)
        /\ made.imported = [key |-> k, artifact |-> a] /\ made.origin = b /\ made.revision = pin
    BY <1>9, <2>2 DEF IsRow
  <2>4. source' = [source EXCEPT ![s] = made]
    BY <1>2, <2>1
  <2> QED
    BY <1>4, <1>9, <2>3, <2>4 DEF OnlySource
<1>11. source[s].digest \in {Null, DigestOf(a)}
  BY <1>2 DEF Import!Ownable
<1>12. RowsTyped' /\ HoursOwned' /\ Grows
  BY <1>1, <1>2, <1>4, <1>6, <1>8, <1>10, <1>11, WriteKeeps
<1>13. CASE job.cancelled
  <2>1. Import!Ends(Null)
    BY <1>2, <1>13 DEF Import!Returns
  <2> QED
    BY <1>12, <2>1, RunIsOverInNothing
<1>14. CASE ~job.cancelled
  <2>1. job' = Import!Noted(what) /\ UNCHANGED <<runtime, result, ended>>
    BY <1>2, <1>14 DEF Import!Returns
  <2>2. imports'[k] = a
    BY <1>2, <1>4 DEF Import!Write, RowsTyped
  <2>3. ItemIsTrue(b, pin, [key |-> k, what |-> what])'
    BY <1>1, <1>2, <1>5, <2>2 DEF ItemIsTrue
  <2>4. what \in {"imported", "reused", "missing", "error"} /\ job.phase \in {"download", "import"}
    BY <1>1, <1>2
  <2>5. JobTyped' /\ InOrder' /\ Pinned' /\ Fetched' /\ ItemsAreTrue'
    BY <1>1, <1>12, <2>1, <2>3, <2>4, NotesItem
  <2>6. Told' /\ Import!EndsAreCounted'
    BY <1>12, <2>1, ToldStays DEF Import!EndsAreCounted
  <2> QED
    BY <1>12, <2>5, <2>6
<1> QED
  BY <1>13, <1>14

-----------------------------------------------------------------------------
(* A run that calls itself "ok" noted every key, and all of them good.       *)
LEMMA OkIsComplete ==
    ASSUME Import!ImportAssumptions, ImportInv, Import!Status = "ok", job.stop \/ ~Import!Remaining,
           NEW k \in Import!ToSet(job.keys)
    PROVE  k \in Import!Keys /\ imports[k] # Null
<1> USE DEF ImportInv
<1>1. ~job.stop /\ Import!Did("missing") \cup Import!Did("error") = {}
  BY DEF Import!Status
<1>2. job.items \in Seq(Item) /\ job.keys \in Seq(Import!Keys) /\ Len(job.items) = Len(job.keys)
  <2>1. job.items \in Seq(Item) /\ job.keys \in Seq(Import!Keys) /\ Len(job.items) =< Len(job.keys)
    BY DEF JobTyped, InOrder
  <2>2. ~(Len(job.items) < Len(job.keys))
    BY <1>1 DEF Import!Remaining
  <2> QED
    BY <2>1, <2>2
<1>3. PICK i \in DOMAIN job.keys : job.keys[i] = k
  BY DEF Import!ToSet
<1>4. i \in 1 .. Len(job.items) /\ i \in DOMAIN job.items /\ k \in Import!Keys
  BY <1>2, <1>3
<1>5. PICK x \in Item : x = job.items[i]
  BY <1>2, <1>4
<1>6. x.key = k
  BY <1>3, <1>4, <1>5 DEF InOrder
<1>7. x.what \in {"imported", "reused"}
  <2>1. x.what # "missing" /\ x.what # "error"
    BY <1>1, <1>4, <1>5 DEF Import!Did
  <2> QED
    BY <2>1 DEF Item
<1>8. PICK p : p = published[runtime.backend][k]
  OBVIOUS
<1>9. p # Null /\ imports[k] = p.artifact
  BY <1>4, <1>5, <1>6, <1>7, <1>8 DEF ItemsAreTrue, ItemIsTrue
<1>10. p.artifact \in Artifacts(k)
  BY <1>4, <1>8, <1>9 DEF RowsTyped, JobTyped
<1> QED
  BY <1>4, <1>9, <1>10 DEF Import!ImportAssumptions

LEMMA FinishImports ==
    ASSUME Import!ImportAssumptions, ImportInv, Import!Finish
    PROVE  ImportInv'
<1> USE DEF ImportInv
<1>1. PICK outcome : outcome = [status |-> Import!Status, keys |-> job.keys, items |-> job.items,
                                pinned |-> job.pinned, backend |-> runtime.backend]
  OBVIOUS
<1>2. /\ job.stop \/ ~Import!Remaining
      /\ Import!Ends(outcome) /\ UNCHANGED <<Import!remote, Import!local>> /\ UNCHANGED <<published, imports, head>>
  BY <1>1 DEF Import!Finish, Import!remote, Import!local
<1>3. result' = outcome
  BY <1>2 DEF Import!Ends
<1>4. outcome.backend \in Import!Backends /\ outcome.items \in Seq(Item)
  BY <1>1 DEF JobTyped
<1>5. outcome.items # <<>> => PinnedTo(outcome.backend, outcome.pinned)'
  BY <1>1, <1>2 DEF Pinned, PinnedTo
<1>6. \A i \in DOMAIN outcome.items :
          ItemIsTrue(outcome.backend, outcome.pinned, outcome.items[i])'
  BY <1>1, <1>2 DEF ItemsAreTrue, ItemIsTrue
<1>7. outcome.status = "ok" => \A k \in Import!ToSet(outcome.keys) : k \in Import!Keys /\ imports'[k] # Null
  <2> SUFFICES ASSUME outcome.status = "ok", NEW k \in Import!ToSet(outcome.keys)
               PROVE  k \in Import!Keys /\ imports'[k] # Null
    OBVIOUS
  <2>1. Import!Status = "ok" /\ k \in Import!ToSet(job.keys)
    BY <1>1
  <2> QED
    BY <1>2, <2>1, OkIsComplete
<1>8. Told'
  BY <1>3, <1>4, <1>5, <1>6, <1>7 DEF Told, PinnedTo, ItemIsTrue
<1> QED
  BY <1>2, <1>8, StaysTyped, RunIsOver

-----------------------------------------------------------------------------
LEMMA WorkImports ==
    ASSUME Import!ImportAssumptions, ImportInv, Import!Work
    PROVE  ImportInv'
BY EndsEarlyImports, EnterImports, PinImports, DownloadImports, ItemFailsImports, ImportImports,
   FinishImports DEF Import!Work

LEMMA NextImports ==
    ASSUME Import!ImportAssumptions, ImportInv, Import!Next
    PROVE  ImportInv'
<1>1. ASSUME NEW b \in Import!Backends, Import!Switch(b) PROVE ImportInv'
  BY <1>1, SwitchImports
<1>2. ASSUME NEW r \in Requests, Import!Start(r) PROVE ImportInv'
  BY <1>2, StartImports
<1>3. CASE Import!RequestStop \/ Import!Cancel
  BY <1>3, AskImports
<1>4. CASE Import!Work
  BY <1>4, WorkImports
<1>5. ASSUME NEW b \in Import!Backends, NEW k \in Import!Keys, NEW a \in Artifacts(k), Import!Publish(b, k, a)
      PROVE  ImportInv'
  BY <1>5, PublishImports
<1>6. ASSUME NEW s \in Import!Sources, Import!Claim(s) \/ Import!Damage(s) PROVE ImportInv'
  BY <1>6, LocalImports
<1>7. ASSUME NEW k \in Import!Keys, NEW a \in Artifacts(k), Import!Attach(Import!SourceOf(k), DigestOf(a)) \/ Import!Process(k, a)
      PROVE  ImportInv'
  BY <1>7, LocalImports
<1> QED
  BY <1>1, <1>2, <1>3, <1>4, <1>5, <1>6, <1>7 DEF Import!Next

LEMMA StutterImports ==
    ASSUME Import!ImportAssumptions, ImportInv, UNCHANGED Import!vars
    PROVE  ImportInv'
<1>1. RowsTyped' /\ HoursOwned' /\ Grows
  BY StaysTyped, StillWorld DEF Import!vars
<1>2. UNCHANGED <<runtime, job, result, ended>>
  BY DEF Import!vars
<1> QED
  BY <1>1, <1>2, RunWaits

LEMMA ResultTold ==
    ASSUME Import!ImportAssumptions, ImportInv
    PROVE  Import!ResultIsTrue
<1> SUFFICES ASSUME result # Null PROVE Import!ResultIsTrue
  BY DEF Import!ResultIsTrue
<1>0. result.backend \in Import!Backends /\ result.items \in Seq(Item)
  BY DEF ImportInv, Told
<1>1. PICK b, pin, items : b = result.backend /\ pin = result.pinned /\ items = result.items
  OBVIOUS
<1>2. ASSUME NEW i \in DOMAIN items
      PROVE  LET p == published[b][items[i].key] IN
             CASE items[i].what \in {"imported", "reused"} ->
                    p # Null /\ imports[items[i].key] = p.artifact /\ (b = "hf" => p.at =< pin)
               [] items[i].what = "missing" -> b = "hf" /\ p # Null => p.at > pin
               [] OTHER -> TRUE
  <2>1. ItemIsTrue(b, pin, items[i])
    BY <1>1 DEF ImportInv, Told
  <2>2. items[i] \in Item
    BY <1>0, <1>1
  <2>3. PICK what \in {"imported", "reused", "missing", "error"} : what = items[i].what
    BY <2>2 DEF Item
  <2> QED
    BY <2>1, <2>3 DEF ItemIsTrue
<1>3. result.status = "ok" => \A k \in Import!ToSet(result.keys) : imports[k] # Null
  BY DEF ImportInv, Told
<1> QED
  BY <1>1, <1>2, <1>3 DEF Import!ResultIsTrue

LEMMA RowsOwned == ImportInv => Import!SourceOwnsItsRows
<1> SUFFICES ASSUME ImportInv PROVE Import!SourceOwnsItsRows
  OBVIOUS
<1>1. HoursOwned
  BY DEF ImportInv
<1>2. Import!MissingOutputs = {} /\ Import!OrphanRows = {}
  BY <1>1 DEF HoursOwned, Import!MissingOutputs, Import!OrphanRows
<1> QED
  BY <1>1, <1>2 DEF HoursOwned, Import!SourceOwnsItsRows

(* Whatever workers publish meanwhile and local runs do, what the result of    *)
(* an import says of each key is so, a source hour owns what its rows hold,   *)
(* and the end of every run is counted (remote_import.py).                   *)
THEOREM ImportTrue == PartsSpec => []ImportIsTrue
<1>1. Import!Init => ImportInv
  BY InitImports, ImportAssumption
<1>2. ImportInv /\ [Import!Next]_Import!vars => ImportInv'
  BY NextImports, StutterImports, ImportAssumption
<1>3. ImportInv => ImportIsTrue
  <2>1. ImportInv => Import!EndsAreCounted
    BY DEF ImportInv
  <2> QED
    BY <2>1, ResultTold, RowsOwned, ImportAssumption DEF Import!ImportIsTrue, ImportIsTrue
<1> QED
  BY <1>1, <1>2, <1>3, ImportInside, PTL DEF PartsSpec

-----------------------------------------------------------------------------
(* The inductive invariant.                                                 *)
Kinds == {"none", "create", "set", "delete", "write"}

Steps == {"idle", "ensure", "reread", "look", "insert", "ensured", "lock", "locked", "written",
          "deleted"}

TxType == [kind : Kinds, step : Steps, preset : DataPresets \cup {Managed!Idle.preset}, flag : Managed!Flags,
           inserts : BOOLEAN]

Typed ==
    /\ rows \in [DataPresets -> Managed!Flags \cup {"absent"}]
    /\ chosen \in [DataPresets -> Managed!Flags \cup {"none"}]
    /\ hourRows \subseteq DataPresets \X Apps
    /\ tx \in [Apps -> TxType]

(* Where a transaction stands tells what it is.                              *)
Staged ==
    \A a \in Apps :
        /\ tx[a].step # "idle" => tx[a].preset \in DataPresets
        /\ tx[a].step = "idle" => ~tx[a].inserts
        /\ tx[a].kind = "none" => tx[a].step = "idle"
        /\ tx[a].step \in {"lock", "locked", "deleted"} => tx[a].kind \in {"set", "delete"}
        /\ tx[a].step = "deleted" => tx[a].kind = "delete"

(* Only one process inserts the row of a preset, and only where none is.      *)
InsertsAlone ==
    \A a \in Apps, p \in DataPresets : Managed!Inserting(a, p) =>
        /\ rows[p] = "absent"
        /\ \A b \in Managed!Others(a) : ~Managed!Inserting(b, p)

(* A locked row is there, disabled if it is to be deleted, and has neither a  *)
(* second lock nor an hour that a run has inserted.                         *)
LocksExclude ==
    \A a \in Apps, p \in DataPresets : Managed!Holds(a, p) =>
        /\ rows[p] # "absent"
        /\ tx[a].kind = "delete" => rows[p] = "disabled"
        /\ \A b \in Managed!Others(a) : ~Managed!Holds(b, p) /\ ~Managed!Shares(b, p)

(* An inserted hour has a preset that its transaction sees.                  *)
HoursHavePresets == \A a \in Apps, p \in DataPresets : Managed!Shares(a, p) => Managed!Sees(a, p)

(* What a deletion found stays so until it commits.                          *)
FoundEmpty == \A a \in Apps, p \in DataPresets : Managed!Deleting(a, p) => \A h \in hourRows : h[1] # p

PresetInv ==
    /\ Typed /\ Staged
    /\ InsertsAlone /\ LocksExclude /\ HoursHavePresets /\ FoundEmpty
    /\ Managed!ChoiceIsKept

-----------------------------------------------------------------------------
LEMMA IdleIsTyped == Managed!Idle \in TxType /\ Managed!Idle.step = "idle" /\ Managed!Idle.kind = "none" /\ ~Managed!Idle.inserts
BY DEF Managed!Idle, TxType, Kinds, Steps, Managed!Flags

LEMMA InitInv == Managed!Init => PresetInv
<1> SUFFICES ASSUME Managed!Init PROVE PresetInv
  OBVIOUS
<1>1. Typed
  BY IdleIsTyped DEF Managed!Init, Typed
<1>2. \A a \in Apps : tx[a] = Managed!Idle
  BY DEF Managed!Init
<1>3. Staged
  BY <1>2, IdleIsTyped DEF Staged
<1>4. InsertsAlone /\ LocksExclude /\ HoursHavePresets /\ FoundEmpty
  BY <1>2, IdleIsTyped
  DEF InsertsAlone, LocksExclude, HoursHavePresets, FoundEmpty, Managed!Inserting, Managed!Holds,
      Managed!Shares, Managed!Deleting
<1>5. Managed!ChoiceIsKept
  BY DEF Managed!Init, Managed!ChoiceIsKept
<1> QED
  BY <1>1, <1>3, <1>4, <1>5 DEF PresetInv

(* A transaction that ends without a trace, or one that begins, locks nothing *)
(* and shows nothing.                                                       *)
LEMMA UnseenInv ==
    ASSUME PresetInv, NEW a \in Apps, NEW t \in TxType,
           tx' = [tx EXCEPT ![a] = t],
           t.step # "idle" => t.preset \in DataPresets,
           ~t.inserts,
           t.step \notin {"locked", "written", "deleted"},
           t.kind = "none" => t.step = "idle",
           t.step = "lock" => t.kind \in {"set", "delete"},
           UNCHANGED <<rows, hourRows, chosen>>
    PROVE  PresetInv'
<1> USE DEF PresetInv
<1>1. /\ tx'[a] = t
      /\ \A b \in Apps \ {a} : tx'[b] = tx[b]
  BY DEF Typed
<1>2. Typed'
  BY DEF Typed
<1>3. Staged'
  BY <1>1 DEF Staged
<1>4. InsertsAlone'
  BY <1>1 DEF InsertsAlone, Managed!Inserting, Managed!Others
<1>5. LocksExclude'
  BY <1>1 DEF LocksExclude, Managed!Holds, Managed!Shares, Managed!Others
<1>6. HoursHavePresets'
  BY <1>1 DEF HoursHavePresets, Managed!Shares, Managed!Sees, Managed!Inserting
<1>7. FoundEmpty' /\ Managed!ChoiceIsKept'
  BY <1>1 DEF FoundEmpty, Managed!Deleting, Managed!ChoiceIsKept
<1> QED
  BY <1>2, <1>3, <1>4, <1>5, <1>6, <1>7

LEMMA RollbackInv ==
    ASSUME PresetInv, NEW a \in Apps, Managed!Rollback(a)
    PROVE  PresetInv'
BY UnseenInv, IdleIsTyped DEF Managed!Rollback

LEMMA StartInv ==
    ASSUME PresetInv, NEW a \in Apps, NEW kind \in Kinds \ {"none"}, NEW p \in DataPresets,
           NEW flag \in Managed!Flags, NEW step \in {"ensure", "lock"},
           step = "lock" => kind \in {"set", "delete"},
           Managed!Start(a, kind, p, flag, step)
    PROVE  PresetInv'
<1>1. PICK t : t = [Managed!Idle EXCEPT !.kind = kind, !.preset = p, !.flag = flag, !.step = step]
  OBVIOUS
<1>2. /\ t \in TxType /\ t.kind = kind /\ t.preset = p /\ t.step = step /\ ~t.inserts
  BY <1>1, IdleIsTyped DEF TxType, Steps
<1>3. tx' = [tx EXCEPT ![a] = t] /\ UNCHANGED <<rows, hourRows, chosen>>
  BY <1>1 DEF Managed!Start
<1> QED
  BY <1>2, <1>3, UnseenInv

(* The insertion that finds no row, and no other insertion of it.             *)
LEMMA EnsureInv ==
    ASSUME PresetInv, NEW a \in Apps, Managed!Ensure(a)
    PROVE  PresetInv'
<1> USE DEF PresetInv
<1>1. PICK p : p = tx[a].preset
  OBVIOUS
<1>2. PICK t : t = [tx[a] EXCEPT !.step = "reread", !.inserts = rows[p] = "absent"]
  OBVIOUS
<1>3. tx[a] \in TxType /\ tx[a].step = "ensure" /\ p \in DataPresets
      /\ tx[a].kind # "none"
  BY <1>1 DEF Typed, Staged, Managed!Ensure
<1>4. /\ t \in TxType /\ t.kind = tx[a].kind /\ t.preset = p /\ t.step = "reread"
      /\ (t.inserts => rows[p] = "absent")
  BY <1>1, <1>2, <1>3 DEF TxType, Steps
<1>5. tx' = [tx EXCEPT ![a] = t] /\ UNCHANGED <<rows, hourRows, chosen>>
  BY <1>1, <1>2 DEF Managed!Ensure
<1>6. /\ tx'[a] = t
      /\ \A b \in Apps \ {a} : tx'[b] = tx[b]
  BY <1>5 DEF Typed
<1>7. \A b \in Managed!Others(a) : ~Managed!Inserting(b, p)
  BY <1>1 DEF Managed!Ensure
<1>8. Typed'
  BY <1>4, <1>5 DEF Typed
<1>9. Staged'
  BY <1>3, <1>4, <1>6 DEF Staged
<1>10. InsertsAlone'
  BY <1>4, <1>5, <1>6, <1>7 DEF InsertsAlone, Managed!Inserting, Managed!Others
<1>11. LocksExclude'
  BY <1>4, <1>5, <1>6 DEF LocksExclude, Managed!Holds, Managed!Shares, Managed!Others
<1>12. HoursHavePresets'
  BY <1>4, <1>5, <1>6 DEF HoursHavePresets, Managed!Shares, Managed!Sees, Managed!Inserting
<1>13. FoundEmpty' /\ Managed!ChoiceIsKept'
  BY <1>4, <1>5, <1>6 DEF FoundEmpty, Managed!Deleting, Managed!ChoiceIsKept
<1> QED
  BY <1>8, <1>9, <1>10, <1>11, <1>12, <1>13

(* A statement that leaves its transaction further on: what it locks or has   *)
(* inserted must fit in with the others.                                    *)
LEMMA MoveInv ==
    ASSUME PresetInv, NEW a \in Apps, NEW step \in Steps \ {"idle"}, Managed!Move(a, step),
           tx[a].step # "idle",
           step \in {"lock", "locked", "deleted"} => tx[a].kind \in {"set", "delete"},
           step = "deleted" => /\ tx[a].kind = "delete"
                               /\ \A h \in hourRows : h[1] # tx[a].preset,
           step \in {"locked", "deleted"} =>
             /\ rows[tx[a].preset] # "absent"
             /\ tx[a].kind = "delete" => rows[tx[a].preset] = "disabled"
             /\ \A b \in Managed!Others(a) : ~Managed!Holds(b, tx[a].preset) /\ ~Managed!Shares(b, tx[a].preset),
           step = "written" => /\ Managed!Sees(a, tx[a].preset)
                               /\ \A b \in Managed!Others(a) : ~Managed!Holds(b, tx[a].preset)
    PROVE  PresetInv'
<1> USE DEF PresetInv
<1>1. PICK p : p = tx[a].preset
  OBVIOUS
<1>2. PICK t : t = [tx[a] EXCEPT !.step = step]
  OBVIOUS
<1>3. tx[a] \in TxType /\ p \in DataPresets /\ tx[a].kind # "none"
  BY <1>1 DEF Typed, Staged
<1>4. /\ t \in TxType /\ t.kind = tx[a].kind /\ t.preset = p /\ t.step = step
      /\ t.inserts = tx[a].inserts
  BY <1>1, <1>2, <1>3 DEF TxType
<1>5. tx' = [tx EXCEPT ![a] = t] /\ UNCHANGED <<rows, hourRows, chosen>>
  BY <1>2 DEF Managed!Move
<1>6. /\ tx'[a] = t
      /\ \A b \in Apps \ {a} : tx'[b] = tx[b]
  BY <1>5 DEF Typed
<1>7. Typed'
  BY <1>4, <1>5 DEF Typed
<1>8. Staged'
  BY <1>3, <1>4, <1>6 DEF Staged
<1>9. InsertsAlone'
  BY <1>1, <1>4, <1>5, <1>6 DEF InsertsAlone, Managed!Inserting, Managed!Others
<1>10. LocksExclude'
  BY <1>1, <1>4, <1>5, <1>6 DEF LocksExclude, Managed!Holds, Managed!Shares, Managed!Others
<1>11. HoursHavePresets'
  BY <1>1, <1>4, <1>5, <1>6 DEF HoursHavePresets, Managed!Shares, Managed!Sees, Managed!Inserting
<1>12. FoundEmpty' /\ Managed!ChoiceIsKept'
  BY <1>1, <1>4, <1>5, <1>6 DEF FoundEmpty, Managed!Deleting, Managed!ChoiceIsKept
<1> QED
  BY <1>7, <1>8, <1>9, <1>10, <1>11, <1>12

LEMMA StatementInv ==
    ASSUME PresetInv, NEW a \in Apps,
           Managed!Reread(a) \/ Managed!Look(a) \/ Managed!InsertHour(a) \/ Managed!LockRow(a) \/ Managed!Remove(a)
    PROVE  PresetInv'
<1> USE DEF PresetInv
<1>1. CASE Managed!Rollback(a)
  BY <1>1, RollbackInv
<1>2. CASE Managed!Reread(a) /\ ~Managed!Rollback(a)
  BY <1>2, MoveInv DEF Managed!Reread, Steps
<1>3. CASE Managed!Look(a) /\ ~Managed!Rollback(a)
  BY <1>3, MoveInv DEF Managed!Look, Steps
<1>4. CASE Managed!InsertHour(a) /\ ~Managed!Rollback(a)
  BY <1>4, MoveInv DEF Managed!InsertHour, Steps
<1>5. CASE Managed!LockRow(a) /\ ~Managed!Rollback(a)
  <2>1. tx[a].kind \in {"set", "delete"} /\ tx[a].preset \in DataPresets
    BY <1>5 DEF Managed!LockRow, Staged
  <2>2. rows[tx[a].preset] \in {"absent", "enabled", "disabled"}
    BY <2>1 DEF Typed, Managed!Flags
  <2> QED
    BY <1>5, <2>1, <2>2, MoveInv DEF Managed!LockRow, Steps
<1>6. CASE Managed!Remove(a) /\ ~Managed!Rollback(a)
  <2>1. Managed!Holds(a, tx[a].preset) /\ tx[a].preset \in DataPresets
    BY <1>6 DEF Managed!Remove, Staged, Managed!Holds
  <2> QED
    BY <1>6, <2>1, MoveInv DEF Managed!Remove, Steps, LocksExclude
<1> QED
  BY <1>1, <1>2, <1>3, <1>4, <1>5, <1>6

(* A commit: what it makes of the row and of the hours of its preset must fit *)
(* in with what the other transactions have seen of them.                   *)
LEMMA CommittedInv ==
    ASSUME PresetInv, NEW a \in Apps, NEW p \in DataPresets, p = tx[a].preset,
           NEW flag \in Managed!Flags \cup {"absent"}, NEW choice \in Managed!Flags \cup {"none"},
           NEW someHours \in SUBSET {<<p, a>>},
           Managed!Committed(a, flag, someHours, choice),
           choice # "none" => flag = choice,
           flag = "absent" => someHours = {} /\ \A h \in hourRows : h[1] # p,
           \A b \in Managed!Others(a) :
             /\ Managed!Inserting(b, p) => flag = "absent"
             /\ Managed!Holds(b, p) => flag = rows[p] /\ someHours = {}
             /\ Managed!Shares(b, p) => flag # "absent" \/ Managed!Inserting(b, p)
    PROVE  PresetInv'
<1> USE DEF PresetInv
<1>1. /\ rows' = [rows EXCEPT ![p] = flag] /\ hourRows' = hourRows \cup someHours
      /\ chosen' = [chosen EXCEPT ![p] = choice] /\ tx' = [tx EXCEPT ![a] = Managed!Idle]
  BY DEF Managed!Committed
<1>2. /\ rows'[p] = flag /\ \A q \in DataPresets \ {p} : rows'[q] = rows[q]
      /\ chosen'[p] = choice /\ \A q \in DataPresets \ {p} : chosen'[q] = chosen[q]
      /\ tx'[a] = Managed!Idle /\ \A b \in Apps \ {a} : tx'[b] = tx[b]
  BY <1>1 DEF Typed
<1>3. Typed'
  BY <1>1, IdleIsTyped DEF Typed
<1>4. Staged'
  BY <1>2, IdleIsTyped DEF Staged
<1>5. InsertsAlone'
  BY <1>2, IdleIsTyped DEF InsertsAlone, Managed!Inserting, Managed!Others
<1>6. LocksExclude'
  BY <1>2, IdleIsTyped DEF LocksExclude, Managed!Holds, Managed!Shares, Managed!Others
<1>7. HoursHavePresets'
  BY <1>2, IdleIsTyped DEF HoursHavePresets, Managed!Shares, Managed!Sees, Managed!Inserting,
     Managed!Others
<1>8. FoundEmpty'
  <2>1. ASSUME NEW b \in Apps, NEW q \in DataPresets, Managed!Deleting(b, q)', NEW h \in hourRows'
        PROVE  h[1] # q
    <3>1. b # a /\ Managed!Deleting(b, q) /\ Managed!Holds(b, q)
      BY <1>2, <2>1, IdleIsTyped DEF Managed!Deleting, Managed!Holds
    <3>2. CASE h \in hourRows
      BY <3>1, <3>2 DEF FoundEmpty
    <3>3. CASE h \in someHours
      BY <3>1, <3>3 DEF Managed!Others
    <3> QED
      BY <1>1, <3>2, <3>3
  <2> QED
    BY <2>1 DEF FoundEmpty
<1>9. Managed!ChoiceIsKept'
  <2>1. \A h \in hourRows' : rows'[h[1]] # "absent"
    <3> TAKE h \in hourRows'
    <3>1. CASE h \in hourRows
      BY <1>2, <3>1 DEF Managed!ChoiceIsKept, Typed
    <3>2. CASE h \in someHours
      BY <1>2, <3>2
    <3> QED
      BY <1>1, <3>1, <3>2
  <2>2. \A q \in DataPresets : chosen'[q] # "none" => rows'[q] = chosen'[q]
    BY <1>2 DEF Managed!ChoiceIsKept
  <2> QED
    BY <2>1, <2>2 DEF Managed!ChoiceIsKept
<1> QED
  BY <1>3, <1>4, <1>5, <1>6, <1>7, <1>8, <1>9

LEMMA CommitInv ==
    ASSUME PresetInv, NEW a \in Apps, Managed!Commit(a)
    PROVE  PresetInv'
<1> USE DEF PresetInv
<1>1. PICK p : p = tx[a].preset
  OBVIOUS
<1>2. p \in DataPresets /\ tx[a].flag \in Managed!Flags
  BY <1>1 DEF Managed!Commit, Typed, Staged, TxType
<1>3. rows[p] \in Managed!Flags \cup {"absent"} /\ chosen[p] \in Managed!Flags \cup {"none"}
      /\ "absent" \notin Managed!Flags /\ "none" \notin Managed!Flags
  BY <1>2 DEF Typed, Managed!Flags
<1>4. /\ rows[p] = "absent" => chosen[p] = "none" /\ \A h \in hourRows : h[1] # p
      /\ chosen[p] # "none" => rows[p] = chosen[p]
  BY <1>2, <1>3 DEF Managed!ChoiceIsKept
<1>5. \A b \in Managed!Others(a) :
        /\ Managed!Inserting(b, p) => rows[p] = "absent" /\ ~tx[a].inserts
        /\ Managed!Holds(b, p) => rows[p] # "absent"
        /\ Managed!Shares(b, p) => rows[p] # "absent" \/ Managed!Inserting(b, p)
  BY <1>1, <1>2 DEF InsertsAlone, LocksExclude, HoursHavePresets, Managed!Sees, Managed!Others,
     Managed!Inserting
<1>6. tx[a].inserts => rows[p] = "absent"
  BY <1>1, <1>2 DEF InsertsAlone, Managed!Inserting
<1>7. CASE tx[a].step = "ensured"
            /\ Managed!Committed(a, IF tx[a].inserts THEN tx[a].flag ELSE rows[p], {},
                         IF tx[a].inserts THEN tx[a].flag ELSE chosen[p])
  <2>1. CASE tx[a].inserts
    <3>1. Managed!Committed(a, tx[a].flag, {}, tx[a].flag)
      BY <1>7, <2>1
    <3> QED
      BY <1>1, <1>2, <1>3, <1>4, <1>5, <1>6, <2>1, <3>1, CommittedInv
  <2>2. CASE ~tx[a].inserts
    <3>1. Managed!Committed(a, rows[p], {}, chosen[p])
      BY <1>7, <2>2
    <3> QED
      BY <1>1, <1>2, <1>3, <1>4, <1>5, <3>1, CommittedInv
  <2> QED
    BY <2>1, <2>2
<1>8. CASE tx[a].step = "written"
            /\ Managed!Committed(a, IF tx[a].inserts THEN tx[a].flag ELSE rows[p], {<<p, a>>}, chosen[p])
  <2>1. \A b \in Managed!Others(a) : ~Managed!Holds(b, p)
    BY <1>1, <1>2, <1>8 DEF LocksExclude, Managed!Shares, Managed!Others
  <2>2. CASE tx[a].inserts
    <3>1. Managed!Committed(a, tx[a].flag, {<<p, a>>}, chosen[p])
      BY <1>8, <2>2
    <3> QED
      BY <1>1, <1>2, <1>3, <1>4, <1>5, <1>6, <2>1, <2>2, <3>1, CommittedInv
  <2>3. CASE ~tx[a].inserts
    <3>1. Managed!Committed(a, rows[p], {<<p, a>>}, chosen[p])
      BY <1>8, <2>3
    <3>2. rows[p] # "absent"
      BY <1>1, <1>2, <1>8, <2>3 DEF HoursHavePresets, Managed!Shares, Managed!Sees,
         Managed!Inserting
    <3> QED
      BY <1>1, <1>2, <1>3, <1>4, <1>5, <2>1, <3>1, <3>2, CommittedInv
  <2> QED
    BY <2>2, <2>3
<1>9. CASE tx[a].step \in {"locked", "deleted"}
  <2>1. /\ rows[p] # "absent"
        /\ \A b \in Managed!Others(a) : ~Managed!Holds(b, p) /\ ~Managed!Shares(b, p) /\ ~Managed!Inserting(b, p)
    BY <1>1, <1>2, <1>5, <1>9 DEF LocksExclude, Managed!Holds
  <2>2. CASE Managed!Committed(a, tx[a].flag, {}, tx[a].flag)
    BY <1>1, <1>2, <1>3, <2>1, <2>2, CommittedInv
  <2>3. CASE tx[a].step = "deleted" /\ Managed!Committed(a, "absent", {}, "none")
    <3>1. \A h \in hourRows : h[1] # p
      BY <1>1, <1>2, <2>3 DEF FoundEmpty, Managed!Deleting
    <3> QED
      BY <1>1, <1>2, <1>3, <2>1, <2>3, <3>1, CommittedInv
  <2> QED
    BY <1>9, <2>2, <2>3 DEF Managed!Commit
<1> QED
  BY <1>1, <1>7, <1>8, <1>9 DEF Managed!Commit

LEMMA NextInv == PresetInv /\ [Managed!Next]_Managed!vars => PresetInv'
<1> SUFFICES ASSUME PresetInv, [Managed!Next]_Managed!vars PROVE PresetInv'
  OBVIOUS
<1>1. CASE UNCHANGED Managed!vars
  BY <1>1 DEF Managed!vars, PresetInv, Typed, Staged, InsertsAlone, LocksExclude, HoursHavePresets,
     FoundEmpty, Managed!ChoiceIsKept, Managed!Inserting, Managed!Holds, Managed!Shares,
     Managed!Sees, Managed!Deleting
<1>2. CASE \E a \in Apps, p \in DataPresets, flag \in Managed!Flags :
             \/ Managed!Create(a, p, flag) \/ Managed!SetEnabled(a, p, flag)
             \/ \E old \in DataPresets : Managed!Edit(a, old, p, flag)
  BY <1>2, StartInv DEF Managed!Create, Managed!SetEnabled, Managed!Edit, Kinds
<1>3. CASE \E a \in Apps, p \in DataPresets : Managed!Delete(a, p) \/ Managed!WriteHour(a, p)
  BY <1>3, StartInv DEF Managed!Delete, Managed!WriteHour, Kinds, Managed!Flags
<1>4. CASE \E a \in Apps : Managed!Ensure(a) \/ Managed!Commit(a) \/ Managed!Abort(a)
  BY <1>4, EnsureInv, CommitInv, RollbackInv DEF Managed!Abort
<1>5. CASE \E a \in Apps : Managed!Reread(a) \/ Managed!Look(a) \/ Managed!InsertHour(a) \/ Managed!LockRow(a) \/ Managed!Remove(a)
  BY <1>5, StatementInv
<1> QED
  BY <1>1, <1>2, <1>3, <1>4, <1>5 DEF Managed!Next

-----------------------------------------------------------------------------
(* What settings pages and processing runs do to presets next to each other   *)
(* harms none of them: a deletion commits only while the preset is disabled    *)
(* and without a committed or an inserted hour, a committed hour has its       *)
(* preset, and a run that finds a preset leaves it as the user last chose it. *)
THEOREM PresetsSafe == PartsSpec => []PresetsAreSafe
<1>1. PresetInv => PresetsAreSafe
  <2> SUFFICES ASSUME PresetInv PROVE Managed!DeletionIsSafe
    BY DEF PresetInv, PresetsAreSafe, Managed!PresetsAreSafe
  <2> SUFFICES ASSUME NEW a \in Apps, tx[a].step = "deleted"
               PROVE  /\ rows[tx[a].preset] = "disabled"
                      /\ \A h \in hourRows : h[1] # tx[a].preset
                      /\ \A b \in Apps : ~Managed!Shares(b, tx[a].preset)
    BY DEF Managed!DeletionIsSafe
  <2>1. PICK p \in DataPresets : p = tx[a].preset /\ tx[a].kind = "delete"
    BY DEF PresetInv, Staged
  <2>2. Managed!Holds(a, p) /\ Managed!Deleting(a, p) /\ ~Managed!Shares(a, p)
    BY <2>1 DEF Managed!Holds, Managed!Deleting, Managed!Shares
  <2> QED
    BY <2>1, <2>2 DEF PresetInv, LocksExclude, FoundEmpty, Managed!Others
<1> QED
  BY <1>1, InitInv, NextInv, PresetsInside, PTL DEF PartsSpec

-----------------------------------------------------------------------------
(* The fields of a page and of a worker.                                     *)
IsPage(x) == x = [reads |-> x.reads, pending |-> x.pending, dialog |-> x.dialog,
                  clicks |-> x.clicks, meant |-> x.meant]
IsWorker(x) == x = [page |-> x.page, preview |-> x.preview, step |-> x.step,
                    started |-> x.started, refs |-> x.refs, todo |-> x.todo, did |-> x.did,
                    failed |-> x.failed, current |-> x.current, cancelled |-> x.cancelled]

Shaped ==
    /\ page = [p \in Pages |-> page[p]] /\ \A p \in Pages : IsPage(page[p])
    /\ worker # Null => IsWorker(worker) /\ worker.page \in Pages
    /\ rowState = [s \in Rows |-> rowState[s]]

(* A page which is reading has nothing to click on, and what was clicked on  *)
(* is what is pending, if anything still is.                                 *)
PageInv ==
    \A p \in Pages :
      /\ page[p].reads # Null => ~page[p].dialog /\ page[p].clicks = 0
      /\ page[p].clicks # 0 /\ page[p].pending # Null => page[p].meant = page[p].pending

(* The page of an execution holds the lock, and stays as it was confirmed.   *)
Confirmed ==
    worker # Null =>
      /\ lock = worker.page
      /\ page[worker.page].reads = Null /\ ~page[worker.page].dialog
      /\ page[worker.page].meant = worker.preview
      /\ page[worker.page].pending = worker.preview
      /\ worker.preview # Null

(* The number of a preview belongs to one page, until it is reported.        *)
HasId(p, i) == \/ page[p].reads # Null /\ page[p].reads.id = i
               \/ page[p].pending # Null /\ page[p].pending.id = i

Numbered ==
    /\ moves \in Nat
    /\ \A p \in Pages : /\ page[p].reads # Null => page[p].reads.id \in 1 .. moves
                        /\ page[p].pending # Null => page[p].pending.id \in 1 .. moves
    /\ \A a \in audits : a.preview.id \in 1 .. moves
    /\ \A e \in effects : e.id \in 1 .. moves

Apart == \A p, q \in Pages : \A i \in 1 .. moves : HasId(p, i) /\ HasId(q, i) => p = q

Unreported == \A a \in audits : \A p \in Pages : ~HasId(p, a.preview.id)

(* No effect has the number of what was not executed: of what is still read, *)
(* or of a recovery that is not committed.                                   *)
Undone ==
    \A e \in effects : \A p \in Pages :
      /\ page[p].reads # Null => page[p].reads.id # e.id
      /\ page[p].pending # Null /\ page[p].pending.kind = "stale" => page[p].pending.id # e.id

(* The item at hand is an orphan under its locks.                            *)
AtHand ==
    worker # Null /\ worker.current # Null =>
      /\ worker.step = "act" /\ worker.preview.kind = "orphans" /\ worker.current \in worker.todo
      /\ worker.current.file \notin referenced /\ worker.current.file \notin open

(* Nothing was done before the items are gone through; then each is still to *)
(* do, done or failed; and what is done was an effect, or is going to be one. *)
Untouched == worker # Null /\ worker.step # "act" => worker.did = {} /\ worker.failed = {}

Progress ==
    worker # Null /\ worker.step = "act" =>
      /\ worker.todo \cup worker.did \cup worker.failed = worker.preview.items
      /\ worker.todo \cap worker.did = {} /\ worker.todo \cap worker.failed = {}
      /\ worker.did \cap worker.failed = {}
      /\ worker.preview.kind = "stale" =>
           worker.preview.items \subseteq Rows /\ \A s \in worker.did : rowState[s] = "downloading"
      /\ worker.preview.kind = "orphans" =>
           \A i \in worker.did : \E e \in effects : e.id = worker.preview.id /\ e.item = i

Legitimate == \A e \in effects : e.was \in {"downloading", "orphan"}

MaintenanceInv ==
    /\ Shaped /\ PageInv /\ Confirmed
    /\ Numbered /\ Apart /\ Unreported /\ Undone
    /\ AtHand /\ Untouched /\ Progress /\ Legitimate /\ Maintenance!AuditIsTrue

-----------------------------------------------------------------------------
(* What a step does to one page.                                             *)
OnlyPage(p) ==
    /\ page' = [q \in Pages |-> page'[q]] /\ IsPage(page'[p])
    /\ \A q \in Pages : q # p => page'[q] = page[q]

LEMMA PreviewPage ==
    ASSUME Shaped, NEW p \in Pages, NEW kind, Maintenance!Preview(p, kind)
    PROVE  /\ OnlyPage(p)
           /\ page'[p].reads.id = moves' /\ page'[p].reads.kind = kind
           /\ page'[p].pending = page[p].pending /\ page'[p].dialog = page[p].dialog
           /\ page'[p].clicks = page[p].clicks /\ page'[p].meant = page[p].meant
<1>1. page = [q \in Pages |-> page[q]] /\ IsPage(page[p])
  BY DEF Shaped
<1>2. PICK r : r = [id |-> moves', kind |-> kind, at |-> clock, refs |-> referenced]
  OBVIOUS
<1>3. page' = [page EXCEPT ![p].reads = r]
  BY <1>2 DEF Maintenance!Preview
<1> QED
  BY <1>1, <1>2, <1>3 DEF OnlyPage, IsPage

LEMMA ShownPage ==
    ASSUME Shaped, NEW p \in Pages, Maintenance!Shown(p)
    PROVE  /\ OnlyPage(p)
           /\ page'[p].reads = Null /\ page[p].reads # Null
           /\ page'[p].clicks = page[p].clicks /\ page'[p].meant = page[p].meant
           /\ page'[p].pending.id = page[p].reads.id
           /\ page'[p].pending.kind = page[p].reads.kind
<1>1. page = [q \in Pages |-> page[q]] /\ IsPage(page[p])
  BY DEF Shaped
<1>2. PICK r : r = page[p].reads
  OBVIOUS
<1>3. PICK plan : plan = Maintenance!Plan(r.kind, r.refs, r.at)
  OBVIOUS
<1>4. PICK new : new = [id |-> r.id, kind |-> r.kind, at |-> r.at,
                        items |-> plan.items, blocked |-> plan.blocked]
  OBVIOUS
<1>5. /\ page' = [page EXCEPT ![p].reads = Null, ![p].pending = new,
                              ![p].dialog = @ \/ plan.items # {}]
      /\ r # Null
  BY <1>2, <1>3, <1>4 DEF Maintenance!Shown
<1> QED
  BY <1>1, <1>2, <1>4, <1>5 DEF OnlyPage, IsPage

LEMMA OtherPage ==
    ASSUME Shaped, NEW p \in Pages
    PROVE  /\ Maintenance!PreviewFails(p) => /\ OnlyPage(p) /\ page'[p].reads = Null
                                 /\ page'[p].pending = Null
                                 /\ page'[p].dialog = page[p].dialog
                                 /\ page'[p].clicks = page[p].clicks
           /\ \A n : Maintenance!Click(p, n) => /\ OnlyPage(p) /\ page'[p].reads = page[p].reads
                                    /\ page'[p].pending = page[p].pending
                                    /\ page'[p].dialog = page[p].dialog
                                    /\ page'[p].meant = page[p].pending
           /\ Maintenance!Dismiss(p) => /\ OnlyPage(p) /\ page'[p].reads = page[p].reads
                            /\ page'[p].pending = page[p].pending /\ ~page'[p].dialog
                            /\ page'[p].clicks = page[p].clicks
                            /\ page'[p].meant = page[p].meant
           /\ Maintenance!Confirm(p) => /\ OnlyPage(p) /\ page'[p].reads = page[p].reads
                            /\ page'[p].pending = page[p].pending /\ ~page'[p].dialog
                            /\ page'[p].meant = page[p].meant
           /\ \A x : page' = [page EXCEPT ![p].pending = x] =>
                /\ OnlyPage(p) /\ page'[p].reads = page[p].reads /\ page'[p].pending = x
                /\ page'[p].dialog = page[p].dialog /\ page'[p].clicks = page[p].clicks
                /\ page'[p].meant = page[p].meant
<1>1. page = [q \in Pages |-> page[q]] /\ IsPage(page[p])
  BY DEF Shaped
<1>2. ASSUME Maintenance!PreviewFails(p)
      PROVE  /\ OnlyPage(p) /\ page'[p].reads = Null
             /\ page'[p].pending = Null /\ page'[p].dialog = page[p].dialog
             /\ page'[p].clicks = page[p].clicks
  BY <1>1, <1>2 DEF OnlyPage, IsPage, Maintenance!PreviewFails
<1>3. ASSUME NEW n, Maintenance!Click(p, n)
      PROVE  /\ OnlyPage(p) /\ page'[p].reads = page[p].reads
             /\ page'[p].pending = page[p].pending /\ page'[p].dialog = page[p].dialog
             /\ page'[p].meant = page[p].pending
  <2>1. PICK m : m = page[p].pending
    OBVIOUS
  <2>2. page' = [page EXCEPT ![p].clicks = n, ![p].meant = m]
    BY <1>3, <2>1 DEF Maintenance!Click
  <2> QED
    BY <1>1, <2>1, <2>2 DEF OnlyPage, IsPage
<1>4. ASSUME Maintenance!Dismiss(p)
      PROVE  /\ OnlyPage(p) /\ page'[p].reads = page[p].reads
             /\ page'[p].pending = page[p].pending /\ ~page'[p].dialog
             /\ page'[p].clicks = page[p].clicks /\ page'[p].meant = page[p].meant
  BY <1>1, <1>4 DEF OnlyPage, IsPage, Maintenance!Dismiss
<1>5. ASSUME Maintenance!Confirm(p)
      PROVE  /\ OnlyPage(p) /\ page'[p].reads = page[p].reads
             /\ page'[p].pending = page[p].pending /\ ~page'[p].dialog
             /\ page'[p].meant = page[p].meant
  <2>1. PICK m : m = page[p].clicks - 1
    OBVIOUS
  <2>2. page' = [page EXCEPT ![p].dialog = FALSE, ![p].clicks = m]
    BY <1>5, <2>1 DEF Maintenance!Confirm
  <2> QED
    BY <1>1, <2>2 DEF OnlyPage, IsPage
<1>6. ASSUME NEW x, page' = [page EXCEPT ![p].pending = x]
      PROVE  /\ OnlyPage(p) /\ page'[p].reads = page[p].reads /\ page'[p].pending = x
             /\ page'[p].dialog = page[p].dialog /\ page'[p].clicks = page[p].clicks
             /\ page'[p].meant = page[p].meant
  BY <1>1, <1>6 DEF OnlyPage, IsPage
<1> QED
  BY <1>2, <1>3, <1>4, <1>5, <1>6

-----------------------------------------------------------------------------
LEMMA InitMaintains == Maintenance!Init => MaintenanceInv
<1> SUFFICES ASSUME Maintenance!Init PROVE MaintenanceInv
  OBVIOUS
<1>1. Shaped /\ PageInv /\ Confirmed /\ AtHand /\ Untouched /\ Progress
  BY DEF Maintenance!Init, Shaped, IsPage, PageInv, Confirmed, AtHand, Untouched, Progress
<1>2. Numbered /\ Apart /\ Unreported /\ Undone /\ Legitimate /\ Maintenance!AuditIsTrue
  BY DEF Maintenance!Init, Numbered, Apart, HasId, Unreported, Undone, Legitimate,
     Maintenance!AuditIsTrue
<1> QED
  BY <1>1, <1>2 DEF MaintenanceInv

(* A page reads under a new number, shows under that number, or keeps what it *)
(* has or forgets it.                                                        *)
LEMMA IdsStay ==
    ASSUME Shaped, Numbered, Apart, Unreported, Undone, NEW p \in Pages, OnlyPage(p),
           moves' \in Nat, moves =< moves', UNCHANGED <<audits, effects>>,
           \/ page'[p].reads \in {Null, page[p].reads}
           \/ page'[p].reads.id = moves' /\ moves < moves',
           \/ page'[p].pending \in {Null, page[p].pending}
           \/ page[p].reads # Null /\ page'[p].reads = Null /\ page'[p].pending.id = page[p].reads.id
    PROVE  Numbered' /\ Apart' /\ Unreported' /\ Undone'
<1>1. /\ \A q \in Pages : q # p => page'[q] = page[q]
      /\ moves \in Nat /\ moves' \in Nat
  BY DEF OnlyPage, Numbered
<1>2. ASSUME NEW i, HasId(p, i)' PROVE HasId(p, i) \/ (i = moves' /\ moves < moves')
  <2>1. CASE page'[p].reads # Null /\ page'[p].reads.id = i
    BY <2>1 DEF HasId
  <2>2. CASE page'[p].pending # Null /\ page'[p].pending.id = i
    BY <2>2 DEF HasId
  <2> QED
    BY <1>2, <2>1, <2>2 DEF HasId
<1>3. \A q \in Pages : \A i : q # p => (HasId(q, i)' <=> HasId(q, i))
  BY <1>1 DEF HasId
<1>4. \A q \in Pages : \A i : HasId(q, i) => i \in 1 .. moves
  BY DEF HasId, Numbered
<1>5. Numbered'
  <2>1. \A q \in Pages : \A i : HasId(q, i)' => i \in 1 .. moves'
    BY <1>1, <1>2, <1>3, <1>4
  <2> QED
    BY <1>1, <2>1 DEF Numbered, HasId
<1>6. Apart'
  <2> SUFFICES ASSUME NEW q \in Pages, NEW r \in Pages, NEW i, HasId(q, i)', HasId(r, i)', q # r
               PROVE  FALSE
    BY DEF Apart
  <2>1. HasId(q, i) /\ HasId(r, i)
    BY <1>1, <1>2, <1>3, <1>4
  <2> QED
    BY <1>4, <2>1 DEF Apart
<1>7. Unreported'
  BY <1>1, <1>2, <1>3 DEF Unreported, Numbered
<1>8. Undone'
  <2> SUFFICES ASSUME NEW e \in effects, NEW q \in Pages
               PROVE  /\ page'[q].reads # Null => page'[q].reads.id # e.id
                      /\ page'[q].pending # Null /\ page'[q].pending.kind = "stale" =>
                           page'[q].pending.id # e.id
    BY DEF Undone
  <2>1. e.id \in 1 .. moves
    BY DEF Numbered
  <2>2. CASE q # p
    BY <1>1, <2>2 DEF Undone
  <2>3. CASE q = p
    BY <1>1, <2>1, <2>3 DEF Undone
  <2> QED
    BY <2>2, <2>3
<1> QED
  BY <1>5, <1>6, <1>7, <1>8

(* A page on which nothing is executed moves.                                *)
LEMMA PageMoves ==
    ASSUME MaintenanceInv, NEW p \in Pages, OnlyPage(p),
           worker # Null => worker.page # p,
           UNCHANGED <<rowState, referenced, open, lock, worker, effects, audits>>,
           PageInv', Numbered' /\ Apart' /\ Unreported' /\ Undone'
    PROVE  MaintenanceInv'
<1>1. Shaped' /\ Confirmed'
  BY DEF MaintenanceInv, Shaped, Confirmed, OnlyPage
<1>2. AtHand' /\ Untouched' /\ Progress' /\ Legitimate' /\ Maintenance!AuditIsTrue'
  BY DEF MaintenanceInv, AtHand, Untouched, Progress, Legitimate, Maintenance!AuditIsTrue
<1> QED
  BY <1>1, <1>2 DEF MaintenanceInv

LEMMA PageInvOfOne ==
    ASSUME PageInv, NEW p \in Pages, OnlyPage(p),
           page'[p].reads # Null => ~page'[p].dialog /\ page'[p].clicks = 0,
           page'[p].clicks # 0 /\ page'[p].pending # Null => page'[p].meant = page'[p].pending
    PROVE  PageInv'
BY DEF PageInv, OnlyPage

LEMMA PreviewMaintains ==
    ASSUME MaintenanceInv, Null \notin Pages, NEW p \in Pages, NEW kind, Maintenance!Preview(p, kind)
    PROVE  MaintenanceInv'
<1> USE DEF MaintenanceInv
<1>1. moves \in Nat /\ moves' = moves + 1 /\ moves' \in Nat
  BY DEF Maintenance!Preview, Maintenance!Event, Numbered
<1>2. OnlyPage(p) /\ page'[p].pending = page[p].pending /\ page'[p].reads.id = moves'
  BY PreviewPage
<1>3. worker = Null
  BY DEF Maintenance!Preview, Confirmed, Shaped
<1>4. UNCHANGED <<rowState, referenced, open, lock, worker, effects, audits>>
  BY DEF Maintenance!Preview, Maintenance!world, Maintenance!history
<1>5. PageInv'
  BY <1>2, PageInvOfOne, PreviewPage DEF Maintenance!Preview
<1>6. Numbered' /\ Apart' /\ Unreported' /\ Undone'
  BY <1>1, <1>2, <1>4, IdsStay
<1> QED
  BY <1>2, <1>3, <1>4, <1>5, <1>6, PageMoves

LEMMA ShownMaintains ==
    ASSUME MaintenanceInv, NEW p \in Pages, Maintenance!Shown(p) \/ Maintenance!PreviewFails(p)
    PROVE  MaintenanceInv'
<1> USE DEF MaintenanceInv
<1>1. page[p].reads # Null /\ UNCHANGED <<rowState, referenced, open, lock, worker, effects, audits, moves>>
  BY DEF Maintenance!Shown, Maintenance!PreviewFails, Maintenance!world, Maintenance!history
<1>2. worker # Null => worker.page # p
  BY <1>1 DEF Confirmed
<1>3. /\ OnlyPage(p) /\ page'[p].reads = Null
      /\ page'[p].pending = Null \/ page'[p].pending.id = page[p].reads.id
      /\ page'[p].clicks = page[p].clicks
  BY ShownPage, OtherPage
<1>4. PageInv'
  BY <1>1, <1>3, PageInvOfOne DEF PageInv
<1>5. Numbered' /\ Apart' /\ Unreported' /\ Undone'
  <2>1. moves' \in Nat /\ moves =< moves'
    BY <1>1 DEF Numbered
  <2> QED
    BY <1>1, <1>3, <2>1, IdsStay
<1> QED
  BY <1>1, <1>2, <1>3, <1>4, <1>5, PageMoves

LEMMA ClickMaintains ==
    ASSUME MaintenanceInv, NEW p \in Pages, (\E n \in {1, 2} : Maintenance!Click(p, n)) \/ Maintenance!Dismiss(p)
    PROVE  MaintenanceInv'
<1> USE DEF MaintenanceInv
<1>1. page[p].dialog /\ UNCHANGED <<rowState, referenced, open, lock, worker, effects, audits, moves>>
  BY DEF Maintenance!Click, Maintenance!Dismiss, Maintenance!world, Maintenance!history
<1>2. worker # Null => worker.page # p
  BY <1>1 DEF Confirmed
<1>3. OnlyPage(p) /\ page'[p].reads = page[p].reads /\ page'[p].pending = page[p].pending
  BY OtherPage
<1>4. page[p].reads = Null
  BY <1>1 DEF PageInv
<1>5. PageInv'
  <2>1. page'[p].clicks # 0 /\ page'[p].pending # Null => page'[p].meant = page'[p].pending
    BY OtherPage DEF PageInv
  <2> QED
    BY <1>3, <1>4, <2>1, PageInvOfOne
<1>6. Numbered' /\ Apart' /\ Unreported' /\ Undone'
  <2>1. moves' \in Nat /\ moves =< moves'
    BY <1>1 DEF Numbered
  <2> QED
    BY <1>1, <1>3, <2>1, IdsStay
<1> QED
  BY <1>1, <1>2, <1>3, <1>5, <1>6, PageMoves

LEMMA ConfirmMaintains ==
    ASSUME MaintenanceInv, Null \notin Pages, NEW p \in Pages, Maintenance!Confirm(p)
    PROVE  MaintenanceInv'
<1> USE DEF MaintenanceInv
<1>1. UNCHANGED <<rowState, referenced, open, effects, audits, moves>> /\ page[p].clicks > 0
  BY DEF Maintenance!Confirm, Maintenance!world, Maintenance!history
<1>2. /\ OnlyPage(p) /\ page'[p].reads = page[p].reads /\ page'[p].pending = page[p].pending
      /\ page'[p].meant = page[p].meant /\ ~page'[p].dialog
  BY OtherPage
<1>3. page[p].clicks # 0
  BY <1>1
<1>4. page[p].reads = Null /\ (page[p].pending # Null => page[p].meant = page[p].pending)
  BY <1>3 DEF PageInv
<1>5. PageInv'
  BY <1>2, <1>4, PageInvOfOne
<1>6. Numbered' /\ Apart' /\ Unreported' /\ Undone'
  <2>1. moves' \in Nat /\ moves =< moves'
    BY <1>1 DEF Numbered
  <2> QED
    BY <1>1, <1>2, <2>1, IdsStay
<1>7. Legitimate' /\ Maintenance!AuditIsTrue'
  BY <1>1 DEF Legitimate, Maintenance!AuditIsTrue
<1>8. CASE page[p].pending # Null /\ lock = Null
  <2>1. /\ lock' = p
        /\ worker' = [page |-> p, preview |-> page[p].pending, step |-> "verify",
                      started |-> clock, refs |-> {}, todo |-> {}, did |-> {}, failed |-> {},
                      current |-> Null, cancelled |-> FALSE]
    BY <1>8 DEF Maintenance!Confirm
  <2>2. /\ IsWorker(worker') /\ worker'.page = p /\ worker'.preview = page[p].pending
        /\ worker'.step = "verify" /\ worker'.current = Null
        /\ worker'.did = {} /\ worker'.failed = {}
    BY <2>1 DEF IsWorker
  <2>3. Shaped' /\ Confirmed'
    BY <1>1, <1>2, <1>4, <1>8, <2>1, <2>2 DEF Shaped, Confirmed, OnlyPage
  <2>4. AtHand' /\ Untouched' /\ Progress'
    BY <2>2 DEF AtHand, Untouched, Progress
  <2> QED
    BY <1>5, <1>6, <1>7, <2>3, <2>4
<1>9. CASE ~(page[p].pending # Null /\ lock = Null)
  <2>1. UNCHANGED <<lock, worker>>
    BY <1>9 DEF Maintenance!Confirm
  <2>2. Shaped' /\ Confirmed'
    BY <1>1, <1>2, <2>1 DEF Shaped, Confirmed, OnlyPage
  <2>3. AtHand' /\ Untouched' /\ Progress'
    BY <1>1, <2>1 DEF AtHand, Untouched, Progress
  <2> QED
    BY <1>5, <1>6, <1>7, <2>2, <2>3
<1> QED
  BY <1>8, <1>9

-----------------------------------------------------------------------------
(* The thread goes on with the same preview.                                 *)
LEMMA WorkerMoves ==
    ASSUME MaintenanceInv, worker # Null, IsWorker(worker'),
           worker'.page = worker.page, worker'.preview = worker.preview,
           UNCHANGED <<rowState, referenced, open, page, lock, effects, audits, moves>>,
           AtHand', Untouched', Progress'
    PROVE  MaintenanceInv'
<1> USE DEF MaintenanceInv
<1>1. Shaped' /\ PageInv' /\ Confirmed'
  BY DEF Shaped, PageInv, Confirmed
<1>2. Numbered' /\ Apart' /\ Unreported' /\ Undone'
  BY DEF Numbered, Apart, HasId, Unreported, Undone
<1>3. Legitimate' /\ Maintenance!AuditIsTrue'
  BY DEF Legitimate, Maintenance!AuditIsTrue
<1> QED
  BY <1>1, <1>2, <1>3

(* The thread ends, and leaves its preview pending or takes it away.          *)
LEMMA WorkerRaises ==
    ASSUME MaintenanceInv, worker # Null, Maintenance!Raises,
           UNCHANGED <<rowState, referenced, open, effects, audits, moves>>
    PROVE  MaintenanceInv'
<1> USE DEF MaintenanceInv
<1>1. PICK p \in Pages : p = worker.page
  BY DEF Shaped
<1>2. PICK x : x \in {Null, page[p].pending} /\ page' = [page EXCEPT ![p].pending = x]
  BY <1>1 DEF Maintenance!Raises, Maintenance!Ends
<1>3. worker' = Null
  BY DEF Maintenance!Raises, Maintenance!Ends
<1>4. /\ OnlyPage(p) /\ page'[p].reads = page[p].reads /\ page'[p].pending = x
      /\ page'[p].dialog = page[p].dialog /\ page'[p].clicks = page[p].clicks
      /\ page'[p].meant = page[p].meant
  BY <1>2, OtherPage
<1>5. PageInv'
  BY <1>2, <1>4, PageInvOfOne DEF PageInv
<1>6. Numbered' /\ Apart' /\ Unreported' /\ Undone'
  <2>1. moves' \in Nat /\ moves =< moves'
    BY DEF Numbered
  <2> QED
    BY <1>2, <1>4, <2>1, IdsStay
<1>7. Shaped' /\ Confirmed' /\ AtHand' /\ Untouched' /\ Progress'
  BY <1>3, <1>4 DEF Shaped, OnlyPage, Confirmed, AtHand, Untouched, Progress
<1>8. Legitimate' /\ Maintenance!AuditIsTrue'
  BY DEF Legitimate, Maintenance!AuditIsTrue
<1> QED
  BY <1>5, <1>6, <1>7, <1>8

LEMMA VerifyMaintains ==
    ASSUME MaintenanceInv, Maintenance!VerifyReads \/ Maintenance!VerifyCompares
    PROVE  MaintenanceInv'
<1> USE DEF MaintenanceInv
<1>1. worker # Null /\ UNCHANGED <<rowState, referenced, open, effects, audits, moves>>
  BY DEF Maintenance!VerifyReads, Maintenance!VerifyCompares, Maintenance!At, Maintenance!world,
     Maintenance!history
<1>2. CASE Maintenance!Raises
  BY <1>1, <1>2, WorkerRaises
<1>3. IsWorker(worker)
  BY <1>1 DEF Shaped
<1>4. CASE /\ worker' = [worker EXCEPT !.step = "compare", !.refs = referenced]
           /\ worker.step = "verify" /\ UNCHANGED <<page, lock>>
  <2>1. /\ IsWorker(worker') /\ worker'.page = worker.page /\ worker'.preview = worker.preview
        /\ worker'.step = "compare" /\ worker'.current = worker.current
    BY <1>3, <1>4 DEF IsWorker
  <2>2. AtHand' /\ Untouched' /\ Progress'
    BY <1>1, <1>4, <2>1 DEF AtHand, Untouched, Progress
  <2> QED
    BY <1>1, <1>4, <2>1, <2>2, WorkerMoves
<1>5. CASE /\ worker' = [worker EXCEPT !.step = "act", !.todo = worker.preview.items]
           /\ Maintenance!IsUnchanged /\ worker.step = "compare" /\ UNCHANGED <<page, lock>>
  <2>1. /\ IsWorker(worker') /\ worker'.page = worker.page /\ worker'.preview = worker.preview
        /\ worker'.current = worker.current /\ worker'.todo = worker.preview.items
        /\ worker'.did = worker.did /\ worker'.failed = worker.failed
    BY <1>3, <1>5 DEF IsWorker
  <2>2. worker.current = Null
    BY <1>1, <1>5 DEF AtHand
  <2>3. worker.preview.kind = "stale" => worker.preview.items \subseteq Rows
    BY <1>5 DEF Maintenance!IsUnchanged, Maintenance!Plan, Maintenance!StaleItems
  <2>4. worker.did = {} /\ worker.failed = {}
    BY <1>1, <1>5 DEF Untouched
  <2>5. AtHand'
    BY <2>1, <2>2 DEF AtHand
  <2>6. worker'.step = "act"
    BY <1>3, <1>5 DEF IsWorker
  <2>7. Untouched' /\ Progress'
    BY <2>1, <2>3, <2>4, <2>6 DEF Untouched, Progress
  <2> QED
    BY <1>1, <1>5, <2>1, <2>5, <2>7, WorkerMoves
<1>6. Maintenance!Raises \/ (/\ worker' = [worker EXCEPT !.step = "compare", !.refs = referenced]
                 /\ worker.step = "verify" /\ UNCHANGED <<page, lock>>)
             \/ (/\ worker' = [worker EXCEPT !.step = "act", !.todo = worker.preview.items]
                 /\ Maintenance!IsUnchanged /\ worker.step = "compare" /\ UNCHANGED <<page, lock>>)
  BY DEF Maintenance!VerifyReads, Maintenance!VerifyCompares, Maintenance!At
<1> QED
  BY <1>2, <1>4, <1>5, <1>6

LEMMA ItemMaintains ==
    ASSUME MaintenanceInv, Maintenance!ItemFails \/ Maintenance!Recover \/ Maintenance!TakeOrphan
    PROVE  MaintenanceInv'
<1> USE DEF MaintenanceInv
<1>1. /\ worker # Null /\ worker.step = "act"
      /\ UNCHANGED <<rowState, referenced, open, page, lock, effects, audits, moves>>
  BY DEF Maintenance!ItemFails, Maintenance!Recover, Maintenance!TakeOrphan, Maintenance!Acting,
     Maintenance!At, Maintenance!world, Maintenance!history
<1>2. IsWorker(worker)
  BY <1>1 DEF Shaped
<1>3. CASE Maintenance!ItemFails
  <2>1. PICK i \in worker.todo : Maintenance!FailsItem(i)
    BY <1>3 DEF Maintenance!ItemFails
  <2>2. /\ IsWorker(worker') /\ worker'.page = worker.page /\ worker'.preview = worker.preview
        /\ worker'.current = Null /\ worker'.step = "act" /\ worker'.did = worker.did
        /\ worker'.todo = worker.todo \ {i} /\ worker'.failed = worker.failed \cup {i}
    BY <1>1, <1>2, <2>1 DEF IsWorker, Maintenance!FailsItem
  <2>3. AtHand' /\ Untouched'
    BY <2>2 DEF AtHand, Untouched
  <2>4. Progress'
    BY <1>1, <2>2 DEF Progress
  <2> QED
    BY <1>1, <2>2, <2>3, <2>4, WorkerMoves
<1>4. CASE Maintenance!Recover
  <2>1. PICK s \in worker.todo :
          /\ rowState[s] = "downloading"
          /\ worker' = [worker EXCEPT !.todo = @ \ {s}, !.did = @ \cup {s}]
    BY <1>4 DEF Maintenance!Recover
  <2>2. /\ IsWorker(worker') /\ worker'.page = worker.page /\ worker'.preview = worker.preview
        /\ worker'.current = worker.current /\ worker'.step = "act"
        /\ worker'.failed = worker.failed
        /\ worker'.todo = worker.todo \ {s} /\ worker'.did = worker.did \cup {s}
    BY <1>1, <1>2, <2>1 DEF IsWorker
  <2>3. worker.current = Null /\ worker.preview.kind = "stale"
    BY <1>4 DEF Maintenance!Recover, Maintenance!Acting
  <2>4. AtHand' /\ Untouched'
    BY <2>2, <2>3 DEF AtHand, Untouched
  <2>5. Progress'
    BY <1>1, <2>1, <2>2, <2>3 DEF Progress
  <2> QED
    BY <1>1, <2>2, <2>4, <2>5, WorkerMoves
<1>5. CASE Maintenance!TakeOrphan
  <2>1. PICK i \in worker.todo :
          /\ i.file \notin open /\ i.file \notin referenced
          /\ worker' = [worker EXCEPT !.current = i]
    BY <1>5 DEF Maintenance!TakeOrphan
  <2>2. /\ IsWorker(worker') /\ worker'.page = worker.page /\ worker'.preview = worker.preview
        /\ worker'.current = i /\ worker'.step = "act" /\ worker'.did = worker.did
        /\ worker'.todo = worker.todo /\ worker'.failed = worker.failed
    BY <1>1, <1>2, <2>1 DEF IsWorker
  <2>3. worker.preview.kind = "orphans"
    BY <1>5 DEF Maintenance!TakeOrphan, Maintenance!Acting
  <2>4. AtHand' /\ Untouched'
    BY <1>1, <2>1, <2>2, <2>3 DEF AtHand, Untouched
  <2>5. Progress'
    BY <1>1, <2>2 DEF Progress
  <2> QED
    BY <1>1, <2>2, <2>4, <2>5, WorkerMoves
<1> QED
  BY <1>3, <1>4, <1>5

LEMMA CancelMaintains ==
    ASSUME MaintenanceInv, Maintenance!Cancel
    PROVE  MaintenanceInv'
<1> USE DEF MaintenanceInv
<1>1. /\ worker # Null /\ moves' = moves + 1
      /\ UNCHANGED <<rowState, referenced, open, page, lock, effects, audits>>
  BY DEF Maintenance!Cancel, Maintenance!Event, Maintenance!world, Maintenance!history
<1>2. IsWorker(worker) /\ worker' = [worker EXCEPT !.cancelled = TRUE]
  BY <1>1 DEF Shaped, Maintenance!Cancel
<1>3. /\ IsWorker(worker') /\ worker'.page = worker.page /\ worker'.preview = worker.preview
      /\ worker'.current = worker.current /\ worker'.step = worker.step
      /\ worker'.did = worker.did /\ worker'.todo = worker.todo
      /\ worker'.failed = worker.failed
  BY <1>2 DEF IsWorker
<1>4. Shaped' /\ PageInv' /\ Confirmed'
  BY <1>1, <1>3 DEF Shaped, PageInv, Confirmed
<1>5. Numbered' /\ Apart' /\ Unreported' /\ Undone'
  <2>1. moves' \in Nat /\ moves \in Nat
    BY <1>1 DEF Numbered
  <2>2. Numbered'
    BY <1>1, <2>1 DEF Numbered
  <2>3. \A p \in Pages : \A i : HasId(p, i)' = HasId(p, i)
    BY <1>1 DEF HasId
  <2>4. \A p \in Pages : \A i : HasId(p, i) => i \in 1 .. moves
    BY DEF HasId, Numbered
  <2>5. Apart' /\ Unreported'
    BY <1>1, <2>3, <2>4 DEF Apart, Unreported
  <2> QED
    BY <1>1, <2>2, <2>5 DEF Undone
<1>6. AtHand' /\ Untouched' /\ Progress'
  BY <1>1, <1>3 DEF AtHand, Untouched, Progress
<1>7. Legitimate' /\ Maintenance!AuditIsTrue'
  BY <1>1 DEF Legitimate, Maintenance!AuditIsTrue
<1> QED
  BY <1>4, <1>5, <1>6, <1>7

(* A report of what is done ends the execution: its number is on no page.     *)
LEMMA ReportMaintains ==
    ASSUME MaintenanceInv, worker # Null, worker.step = "act", worker.todo = {},
           Maintenance!Reported(worker.did), rowState' = [s \in Rows |-> rowState'[s]],
           UNCHANGED <<referenced, open, moves>>,
           effects \subseteq effects',
           \A e \in effects' \ effects :
             e.id = worker.preview.id /\ e.was \in {"downloading", "orphan"},
           worker.did \subseteq {e.item : e \in {f \in effects' : f.id = worker.preview.id}},
           worker.preview.kind = "stale" =>
             {e.item : e \in {f \in effects' : f.id = worker.preview.id}} = worker.did
    PROVE  MaintenanceInv'
<1> USE DEF MaintenanceInv
<1>1. PICK p \in Pages : p = worker.page
  BY DEF Shaped
<1>2. PICK n : n = worker.preview.id
  OBVIOUS
<1>3. PICK new : new = [preview |-> worker.preview, succeeded |-> worker.did,
                        failed |-> worker.failed]
  OBVIOUS
<1>4. /\ page' = [page EXCEPT ![p].pending = Null] /\ worker' = Null
      /\ audits' = audits \cup {new}
  BY <1>1, <1>3 DEF Maintenance!Reported, Maintenance!Ends
<1>5. /\ OnlyPage(p) /\ page'[p].reads = page[p].reads /\ page'[p].pending = Null
      /\ page'[p].dialog = page[p].dialog /\ page'[p].clicks = page[p].clicks
  BY <1>4, OtherPage
<1>6. page'[p].reads = Null /\ page[p].pending = worker.preview /\ worker.preview # Null
  BY <1>1, <1>5 DEF Confirmed
<1>7. n \in 1 .. moves /\ HasId(p, n)
  BY <1>2, <1>6 DEF Numbered, HasId
<1>8. \A q \in Pages : \A i : HasId(q, i)' => HasId(q, i) /\ q # p
  BY <1>5, <1>6 DEF HasId, OnlyPage
<1>9. \A q \in Pages : ~HasId(q, n)'
  BY <1>7, <1>8 DEF Apart
<1>10. PageInv'
  BY <1>5, <1>6, PageInvOfOne
<1>11. Shaped' /\ Confirmed' /\ AtHand' /\ Untouched' /\ Progress'
  BY <1>4, <1>5 DEF Shaped, OnlyPage, Confirmed, AtHand, Untouched, Progress
<1>12. Apart' /\ Unreported'
  BY <1>2, <1>3, <1>4, <1>8, <1>9 DEF Apart, Unreported
<1>13. Numbered'
  BY <1>2, <1>3, <1>4, <1>5, <1>6, <1>7 DEF Numbered, OnlyPage
<1>14. Undone'
  <2> SUFFICES ASSUME NEW e \in effects', NEW q \in Pages
               PROVE  /\ page'[q].reads # Null => page'[q].reads.id # e.id
                      /\ page'[q].pending # Null /\ page'[q].pending.kind = "stale" =>
                           page'[q].pending.id # e.id
    BY DEF Undone
  <2>1. CASE e \in effects
    BY <1>5, <1>6, <2>1 DEF Undone, OnlyPage
  <2>2. CASE e \notin effects
    BY <1>2, <1>9, <2>2 DEF HasId
  <2> QED
    BY <2>1, <2>2
<1>15. Legitimate'
  BY DEF Legitimate
<1>16. Maintenance!AuditIsTrue'
  <2> SUFFICES ASSUME NEW a \in audits', NEW done,
                      done = {e.item : e \in {f \in effects' : f.id = a.preview.id}}
               PROVE  /\ a.succeeded \cup a.failed = a.preview.items
                      /\ a.succeeded \cap a.failed = {}
                      /\ a.succeeded \subseteq done
                      /\ a.preview.kind = "stale" => done = a.succeeded
    BY DEF Maintenance!AuditIsTrue
  <2>1. CASE a \in audits
    <3>1. a.preview.id # n
      BY <1>7, <2>1 DEF Unreported
    <3>2. {f \in effects' : f.id = a.preview.id} = {f \in effects : f.id = a.preview.id}
      BY <1>2, <3>1
    <3> QED
      BY <2>1, <3>2 DEF Maintenance!AuditIsTrue
  <2>2. CASE a = new
    <3>1. /\ a.preview = worker.preview /\ a.succeeded = worker.did
          /\ a.failed = worker.failed
      BY <1>3, <2>2
    <3>2. /\ worker.did \cup worker.failed = worker.preview.items
          /\ worker.did \cap worker.failed = {}
      BY DEF Progress
    <3> QED
      BY <3>1, <3>2
  <2> QED
    BY <1>4, <2>1, <2>2
<1> QED
  BY <1>10, <1>11, <1>12, <1>13, <1>14, <1>15, <1>16

LEMMA CommitMaintains ==
    ASSUME MaintenanceInv, Maintenance!CommitRecoveries \/ Maintenance!CommitFails \/ Maintenance!FinishDeletion
    PROVE  MaintenanceInv'
<1> USE DEF MaintenanceInv
<1>1. worker # Null /\ worker.step = "act" /\ UNCHANGED <<referenced, open, moves>>
  BY DEF Maintenance!CommitRecoveries, Maintenance!CommitFails, Maintenance!FinishDeletion,
     Maintenance!Acting, Maintenance!At, Maintenance!world, Maintenance!history
<1>2. CASE Maintenance!CommitFails
  BY <1>1, <1>2, WorkerRaises DEF Maintenance!CommitFails, Maintenance!world, Maintenance!history
<1>3. CASE Maintenance!CommitRecoveries
  <2>1. /\ worker.todo = {} /\ worker.preview.kind = "stale" /\ Maintenance!Reported(worker.did)
        /\ rowState' = [s \in Rows |-> IF s \in worker.did THEN "error" ELSE rowState[s]]
    BY <1>3 DEF Maintenance!CommitRecoveries, Maintenance!Acting
  <2>2. PICK new : new = {[id |-> worker.preview.id, item |-> s, was |-> rowState[s]] : s \in worker.did}
    OBVIOUS
  <2>3. effects' = effects \cup new
    BY <1>3, <2>2 DEF Maintenance!CommitRecoveries
  <2>4. \A s \in worker.did : rowState[s] = "downloading"
    BY <1>1, <2>1 DEF Progress
  <2>5. \A e \in new : e.id = worker.preview.id /\ e.was = "downloading" /\ e.item \in worker.did
    BY <2>2, <2>4
  <2>6. ASSUME NEW s \in worker.did
        PROVE  \E e \in new : e.id = worker.preview.id /\ e.item = s
    <3>1. PICK e : e = [id |-> worker.preview.id, item |-> s, was |-> rowState[s]]
      OBVIOUS
    <3>2. e \in new /\ e.id = worker.preview.id /\ e.item = s
      BY <2>2, <3>1
    <3> QED
      BY <3>2
  <2>7. \A e \in effects : e.id # worker.preview.id
    BY <1>1, <2>1 DEF Shaped, Confirmed, Undone
  <2>8. {e.item : e \in {f \in effects' : f.id = worker.preview.id}} = worker.did
    BY <2>3, <2>5, <2>6, <2>7
  <2>9. rowState' = [s \in Rows |-> rowState'[s]]
    BY <2>1
  <2> QED
    BY <1>1, <2>1, <2>3, <2>5, <2>8, <2>9, ReportMaintains
<1>4. CASE Maintenance!FinishDeletion
  <2>1. /\ worker.todo = {} /\ worker.preview.kind = "orphans" /\ Maintenance!Reported(worker.did)
        /\ UNCHANGED <<rowState, effects>>
    BY <1>4 DEF Maintenance!FinishDeletion, Maintenance!Acting, Maintenance!world
  <2>2. worker.did \subseteq {e.item : e \in {f \in effects : f.id = worker.preview.id}}
    BY <1>1, <2>1 DEF Progress
  <2>3. rowState' = [s \in Rows |-> rowState'[s]]
    BY <2>1 DEF Shaped
  <2> QED
    BY <1>1, <2>1, <2>2, <2>3, ReportMaintains
<1> QED
  BY <1>2, <1>3, <1>4

LEMMA UnlinkMaintains ==
    ASSUME MaintenanceInv, NEW ok \in BOOLEAN, Maintenance!Unlink(ok)
    PROVE  MaintenanceInv'
<1> USE DEF MaintenanceInv
<1>1. PICK i : i = worker.current
  OBVIOUS
<1>2. PICK new : new = [id |-> worker.preview.id, item |-> i,
                        was |-> IF i.file \in referenced THEN "used" ELSE "orphan"]
  OBVIOUS
<1>3. /\ worker # Null /\ worker.step = "act" /\ worker.current # Null
      /\ effects' = effects \cup {new}
      /\ UNCHANGED <<rowState, referenced, open, page, lock, audits, moves>>
  BY <1>1, <1>2 DEF Maintenance!Unlink, Maintenance!At
<1>4. /\ worker.preview.kind = "orphans" /\ i \in worker.todo
      /\ new.was = "orphan" /\ new.id = worker.preview.id /\ new.item = i
  BY <1>1, <1>2, <1>3 DEF AtHand
<1>5. IsWorker(worker) /\ worker.page \in Pages
  BY <1>3 DEF Shaped
<1>6. /\ IsWorker(worker') /\ worker'.page = worker.page /\ worker'.preview = worker.preview
      /\ worker'.current = Null /\ worker'.step = "act" /\ worker'.todo = worker.todo \ {i}
      /\ \/ worker'.did = worker.did \cup {i} /\ worker'.failed = worker.failed
         \/ worker'.did = worker.did /\ worker'.failed = worker.failed \cup {i}
  <2>1. \/ worker' = [worker EXCEPT !.todo = @ \ {i}, !.did = @ \cup {i}, !.current = Null]
        \/ worker' = [worker EXCEPT !.todo = @ \ {i}, !.failed = @ \cup {i}, !.current = Null]
    BY <1>1 DEF Maintenance!Unlink, Maintenance!FailsItem
  <2> QED
    BY <1>3, <1>5, <2>1 DEF IsWorker
<1>7. Shaped' /\ PageInv' /\ Confirmed'
  BY <1>3, <1>5, <1>6 DEF Shaped, PageInv, Confirmed
<1>8. /\ page[worker.page].pending = worker.preview /\ worker.preview # Null
      /\ page[worker.page].reads = Null
  BY <1>3 DEF Confirmed
<1>9. Numbered' /\ Apart' /\ Unreported'
  BY <1>3, <1>4, <1>5, <1>8 DEF Numbered, Apart, HasId, Unreported
<1>10. Undone'
  <2> SUFFICES ASSUME NEW q \in Pages
               PROVE  /\ page[q].reads # Null => page[q].reads.id # new.id
                      /\ page[q].pending # Null /\ page[q].pending.kind = "stale" =>
                           page[q].pending.id # new.id
    BY <1>3 DEF Undone
  <2>1. HasId(worker.page, new.id) /\ new.id \in 1 .. moves
    BY <1>4, <1>5, <1>8 DEF HasId, Numbered
  <2>2. HasId(q, new.id) => q = worker.page
    BY <1>5, <2>1 DEF Apart
  <2> QED
    BY <1>4, <1>8, <2>2 DEF HasId
<1>11. AtHand' /\ Untouched'
  BY <1>6 DEF AtHand, Untouched
<1>12. Progress'
  BY <1>3, <1>4, <1>6 DEF Progress
<1>13. Legitimate'
  BY <1>3, <1>4 DEF Legitimate
<1>14. Maintenance!AuditIsTrue'
  <2>1. \A a \in audits : a.preview.id # new.id
    BY <1>4, <1>5, <1>8 DEF Unreported, HasId
  <2>2. \A a \in audits : {f \in effects' : f.id = a.preview.id} = {f \in effects : f.id = a.preview.id}
    BY <1>3, <2>1
  <2> QED
    BY <1>3, <2>2 DEF Maintenance!AuditIsTrue
<1> QED
  BY <1>7, <1>9, <1>10, <1>11, <1>12, <1>13, <1>14

(* Time passes, and other processes move, outside the locks that are held.    *)
LEMMA WorldMaintains ==
    ASSUME MaintenanceInv,
           \/ Maintenance!Tick \/ \E s \in Rows : Maintenance!Downloads(s)
           \/ \E k \in Files : Maintenance!Publish(k) \/ Maintenance!OtherDeletes(k) \/ \E owned \in BOOLEAN : Maintenance!Settle(k, owned)
    PROVE  MaintenanceInv'
<1> USE DEF MaintenanceInv
<1>1. UNCHANGED <<page, lock, worker, effects, audits>>
  BY DEF Maintenance!Tick, Maintenance!Downloads, Maintenance!Publish, Maintenance!OtherDeletes,
     Maintenance!Settle, Maintenance!Elsewhere, Maintenance!history
<1>2. moves \in Nat /\ moves' \in {moves, moves + 1}
  BY DEF Maintenance!Tick, Maintenance!Downloads, Maintenance!Publish, Maintenance!OtherDeletes,
     Maintenance!Settle, Maintenance!Elsewhere, Maintenance!Event, Numbered
<1>3. PageInv' /\ Confirmed' /\ Untouched' /\ Legitimate' /\ Maintenance!AuditIsTrue'
  BY <1>1 DEF PageInv, Confirmed, Untouched, Legitimate, Maintenance!AuditIsTrue
<1>4. Numbered' /\ Apart' /\ Unreported' /\ Undone'
  <2>1. Numbered'
    BY <1>1, <1>2 DEF Numbered
  <2>2. \A p \in Pages : \A i : HasId(p, i)' = HasId(p, i)
    BY <1>1 DEF HasId
  <2>3. \A p \in Pages : \A i : HasId(p, i) => i \in 1 .. moves
    BY DEF HasId, Numbered
  <2>4. Apart' /\ Unreported'
    BY <1>1, <2>2, <2>3 DEF Apart, Unreported
  <2> QED
    BY <1>1, <2>1, <2>4 DEF Undone
<1>5. AtHand'
  <2>1. CASE Maintenance!Tick \/ \E s \in Rows : Maintenance!Downloads(s)
    BY <1>1, <2>1 DEF Maintenance!Tick, Maintenance!Downloads, AtHand
  <2>2. ASSUME NEW k \in Files, Maintenance!Publish(k) \/ Maintenance!OtherDeletes(k) PROVE AtHand'
    BY <1>1, <2>2 DEF Maintenance!Publish, Maintenance!OtherDeletes, Maintenance!LockedHere, AtHand
  <2>3. ASSUME NEW k \in Files, NEW owned \in BOOLEAN, Maintenance!Settle(k, owned) PROVE AtHand'
    BY <1>1, <2>3 DEF Maintenance!Settle, AtHand
  <2> QED
    BY <2>1, <2>2, <2>3
<1>6. Shaped' /\ Progress'
  <2>1. CASE UNCHANGED rowState
    BY <1>1, <2>1 DEF Shaped, Progress
  <2>2. ASSUME NEW s \in Rows, Maintenance!Downloads(s) PROVE Shaped' /\ Progress'
    <3>1. PICK x : rowState' = [rowState EXCEPT ![s] = x]
      BY <2>2 DEF Maintenance!Downloads
    <3>2. rowState = [r \in Rows |-> rowState[r]]
      BY DEF Shaped
    <3>3. rowState' = [r \in Rows |-> rowState'[r]] /\ \A r \in Rows : r # s => rowState'[r] = rowState[r]
      BY <3>1, <3>2
    <3>4. worker # Null /\ worker.step = "act" /\ worker.preview.kind = "stale" => s \notin worker.did
      BY <2>2 DEF Maintenance!Downloads, Maintenance!Recovering, Maintenance!At
    <3>5. Shaped'
      BY <1>1, <3>3 DEF Shaped
    <3>6. Progress'
      BY <1>1, <3>3, <3>4 DEF Progress
    <3> QED
      BY <3>5, <3>6
  <2> QED
    BY <2>1, <2>2 DEF Maintenance!Tick, Maintenance!Publish, Maintenance!OtherDeletes,
       Maintenance!Settle
<1> QED
  BY <1>3, <1>4, <1>5, <1>6

-----------------------------------------------------------------------------
LEMMA NextMaintains == Null \notin Pages /\ MaintenanceInv /\ [Maintenance!Next]_Maintenance!vars => MaintenanceInv'
<1> SUFFICES ASSUME Null \notin Pages, MaintenanceInv, [Maintenance!Next]_Maintenance!vars PROVE MaintenanceInv'
  OBVIOUS
<1>1. CASE UNCHANGED Maintenance!vars
  BY <1>1 DEF Maintenance!vars, MaintenanceInv, Shaped, PageInv, Confirmed, Numbered, Apart,
     HasId, Unreported,
     Undone, AtHand, Untouched, Progress, Legitimate, Maintenance!AuditIsTrue
<1>2. ASSUME NEW p \in Pages, NEW kind, Maintenance!Preview(p, kind) PROVE MaintenanceInv'
  BY <1>2, PreviewMaintains
<1>3. ASSUME NEW p \in Pages, Maintenance!Shown(p) \/ Maintenance!PreviewFails(p) \/ Maintenance!Dismiss(p) \/ Maintenance!Confirm(p)
                              \/ \E n \in {1, 2} : Maintenance!Click(p, n)
      PROVE  MaintenanceInv'
  BY <1>3, ShownMaintains, ClickMaintains, ConfirmMaintains
<1>4. CASE Maintenance!Execute
  BY <1>4, VerifyMaintains, ItemMaintains, CommitMaintains, UnlinkMaintains DEF Maintenance!Execute
<1>5. CASE Maintenance!Cancel
  BY <1>5, CancelMaintains
<1> QED
  BY <1>1, <1>2, <1>3, <1>4, <1>5, WorldMaintains DEF Maintenance!Next

(* Maintenance executes what was confirmed on the page it was shown on, once, *)
(* each item in the state that made it a candidate, and its report is true of *)
(* every item, for any number of rows, checkpoints, pages and processes       *)
(* (ui/maintenance_confirmation.py, maintenance_*.py).                        *)
THEOREM MaintenanceConfirmed == PartsSpec => []MaintenanceIsConfirmed
<1>1. MaintenanceInv => Maintenance!AuditIsTrue
  BY DEF MaintenanceInv
<1>2. MaintenanceInv => Maintenance!OnlyConfirmed
  <2> SUFFICES ASSUME MaintenanceInv PROVE Maintenance!OnlyConfirmed
    OBVIOUS
  <2> USE DEF MaintenanceInv
  <2>1. ASSUME worker # Null, NEW a \in audits PROVE a.preview # worker.preview
    BY <2>1 DEF Shaped, Confirmed, Unreported, HasId
  <2> QED
    BY <2>1 DEF Maintenance!OnlyConfirmed, Confirmed, Legitimate
<1>3. MaintenanceInv => MaintenanceIsConfirmed
  BY <1>1, <1>2 DEF MaintenanceIsConfirmed, Maintenance!MaintenanceIsConfirmed
<1> QED
  BY <1>3, InitMaintains, NextMaintains, MaintenanceInside, PagesAssumption, PTL DEF PartsSpec

-----------------------------------------------------------------------------
(* What a committed row owns exists, an orphan never begins a committed run, *)
(* and deletion spares what is referenced.  The inductive invariant says     *)
(* what each session has secured with its locks: a working session holds its *)
(* hour, from its locking on the digest it starts from, and once it has      *)
(* published the file is there; a deleting session holds the one hour and    *)
(* digest it found unreferenced.                                             *)

Local   == {"planned", "locked", "replanned", "running", "published"}
Remote  == {"importing", "imported"}
Working == Local \union Remote
Begun   == {"running", "published"} \union Remote

Exclusive ==
  \A a, b \in Apps : a # b =>
    /\ hourLocks[a] \intersect hourLocks[b] = {}
    /\ digestLocks[a] \intersect digestLocks[b] = {}

WorkOf(b) ==
  stage[b] \in Working =>
    /\ work[b] \in Work
    /\ work[b].hour \in hourLocks[b]
    /\ stage[b] \in Begun => {work[b].plan.input} \ {None} \subseteq digestLocks[b]
    /\ stage[b] \in Remote /\ Publishes(work[b].plan, work[b].hour) =>
         work[b].hour \in digestLocks[b]
    /\ stage[b] \in {"published", "imported"}
         /\ Publishes(work[b].plan, work[b].hour) => work[b].hour \in files
    /\ stage[b] \in Local => {work[b].plan.input} \ {None} \subseteq everOwned

WorkInv == \A a \in Apps : WorkOf(a)

DeleteInv ==
  \A a \in Apps : stage[a] = "deleting" =>
    /\ hourLocks[a] = digestLocks[a]
    /\ digestLocks[a] \intersect References = {}

IdleInv ==
  \A a \in Apps : stage[a] = "idle" => hourLocks[a] = {} /\ digestLocks[a] = {}

Inv ==
  /\ TypeOK
  /\ Exclusive
  /\ WorkInv
  /\ DeleteInv
  /\ IdleInv
  /\ OwnedCheckpointExists
  /\ Owned \subseteq everOwned
  /\ OrphansNeverBegin

-----------------------------------------------------------------------------
(* Types.                                                                   *)

LEMMA ManifestsArePlans == \A h \in Hours : Manifest(h) \subseteq Plan
BY DEF Manifest

LEMMA TypeStep == TypeOK /\ WorkInv /\ [Next]_vars => TypeOK'
<1> SUFFICES ASSUME TypeOK, WorkInv, [Next]_vars PROVE TypeOK'
  OBVIOUS
<1> USE DEF TypeOK
<1> USE DEF Ends, Becomes, LocksHours, LocksDigests
<1>1. ASSUME NEW a \in Apps, NEW h \in Hours, NEW p \in Presets, NEW pl \in Plan,
             Begin(a, h, p, pl) \/ ImportBegin(a, h, p, pl)
      PROVE TypeOK'
  <2>1. [hour |-> h, preset |-> p, plan |-> pl] \in Work
    BY DEF Work
  <2>2. Publishes(pl, h) \in BOOLEAN
    BY DEF Publishes
  <2>3. {pl.input} \ {None} \subseteq Hours
    BY DEF Plan
  <2>4. CASE Begin(a, h, p, pl)
    BY <2>4, <2>1 DEF Begin, Stage, archive, row, refs, history
  <2>5. CASE ImportBegin(a, h, p, pl)
    <3> DEFINE ds == ({pl.input} \ {None}) \union (IF Publishes(pl, h) THEN {h} ELSE {})
    <3>1. ds \subseteq Hours
      BY <2>3
    <3>2. digestLocks' = [digestLocks EXCEPT ![a] = @ \union ds]
      BY <2>5 DEF ImportBegin
    <3>3. digestLocks' \in [Apps -> SUBSET Hours]
      <4> HIDE DEF ds
      <4> QED BY <3>1, <3>2
    <3> QED
      BY <2>5, <2>1, <3>3 DEF ImportBegin, Stage, archive, row, refs, history
  <2> QED
    BY <1>1, <2>4, <2>5
<1>2. ASSUME NEW a \in Apps, LockSources(a) PROVE TypeOK'
  <2>1. work[a] \in Work
    BY <1>2 DEF LockSources, WorkInv, WorkOf, Working, Local
  <2>2. work[a].plan.first .. work[a].hour \subseteq Hours
    BY <2>1, BoundAssumption DEF Work, Plan, Hours
  <2> QED
    BY <1>2, <2>2 DEF LockSources, Stage, archive, row, refs, history
<1>3. ASSUME NEW a \in Apps, Replan(a) PROVE TypeOK'
  BY <1>3 DEF Replan, Stage, archive, row, refs, locks, history
<1>4. ASSUME NEW a \in Apps, LockInput(a) PROVE TypeOK'
  <2>1. {work[a].plan.input} \ {None} \subseteq Hours
    BY <1>4 DEF LockInput, WorkInv, WorkOf, Working, Local, Work, Plan
  <2> QED
    BY <1>4, <2>1 DEF LockInput, Stage, archive, row, refs, history
<1>5. ASSUME NEW a \in Apps, Publish(a) PROVE TypeOK'
  <2>1. work[a].hour \in Hours
    BY <1>5 DEF Publish, WorkInv, WorkOf, Working, Local, Remote, Work
  <2> QED
    BY <1>5, <2>1 DEF Publish, Stage, archive, row, refs, locks, history
<1>6. ASSUME NEW a \in Apps, Commit(a) \/ ImportCommit(a) PROVE TypeOK'
  <2>1. work[a] \in Work
    BY <1>6 DEF Commit, ImportCommit, WorkInv, WorkOf, Working, Local, Remote
  <2>2. work[a].hour \in Hours /\ work[a].plan \in Plan /\ work[a].preset \in Presets
    BY <2>1 DEF Work
  <2>3. work[a].plan.input \in Hours \union {None}
    BY <2>2 DEF Plan
  <2>4. [series EXCEPT ![work[a].hour][work[a].preset] = work[a].plan]
          \in [Hours -> [Presets -> Plan \union {Nothing}]]
    BY <2>2
  <2>5. /\ series' \in [Hours -> [Presets -> Plan \union {Nothing}]]
        /\ input' \in [Hours -> Hours \union {None}]
        /\ remoteInput' \in [Hours -> Hours \union {None}]
    BY <1>6, <2>3, <2>4 DEF Commit, ImportCommit, Writes
  <2>6. output' \subseteq Hours /\ remoteOutput' \subseteq Hours
    BY <1>6, <2>2 DEF Commit, ImportCommit
  <2>7. everOwned' \subseteq Hours /\ begunFrom' \subseteq Hours
    BY <1>6, <2>2, <2>3 DEF Commit, ImportCommit
  <2>8. /\ UNCHANGED <<archive, raw, files>>
        /\ processed' \in [Hours -> BOOLEAN]
        /\ stage' \in [Apps -> Stage]
        /\ work' \in [Apps -> Work \union {Nothing}]
        /\ hourLocks' \in [Apps -> SUBSET Hours]
        /\ digestLocks' \in [Apps -> SUBSET Hours]
    BY <1>6 DEF Commit, ImportCommit, Stage
  <2> QED
    BY <2>5, <2>6, <2>7, <2>8 DEF archive
<1>7. ASSUME NEW a \in Apps, Abort(a) \/ DeleteUnlink(a) PROVE TypeOK'
  BY <1>7 DEF Abort, DeleteUnlink, Stage, archive, row, refs, history
<1>8. ASSUME NEW a \in Apps, NEW k \in Hours, DeleteBegin(a, k) PROVE TypeOK'
  BY <1>8 DEF DeleteBegin, Stage, archive, row, refs, history
<1>9. ASSUME NEW h \in Hours, Acquire(h) \/ PruneRaw(h) PROVE TypeOK'
  BY <1>9 DEF Acquire, PruneRaw, archive, refs, locks, history
<1>10. ASSUME UNCHANGED vars PROVE TypeOK'
  BY <1>10 DEF vars, archive, row, refs, locks, history
<1> QED
  BY <1>1, <1>2, <1>3, <1>4, <1>5, <1>6, <1>7, <1>8, <1>9, <1>10, ManifestsArePlans
     DEF Next, Process, ImportRemote, Delete

-----------------------------------------------------------------------------
(* Locks: no two sessions hold one hour or one digest.                      *)

LEMMA LockStep ==
  TypeOK /\ Exclusive /\ IdleInv /\ [Next]_vars => Exclusive' /\ IdleInv'
<1> SUFFICES ASSUME TypeOK, Exclusive, IdleInv, [Next]_vars
             PROVE Exclusive' /\ IdleInv'
  OBVIOUS
<1>1. ASSUME NEW a \in Apps, NEW hs, LocksHours(a, hs), NEW ds, LocksDigests(a, ds)
      PROVE  Exclusive'
  BY <1>1 DEF TypeOK, Exclusive, LocksHours, LocksDigests, FreeHours, FreeDigests
<1>2. ASSUME NEW a \in Apps, NEW hs, LocksHours(a, hs), UNCHANGED digestLocks
      PROVE  Exclusive'
  BY <1>2 DEF TypeOK, Exclusive, LocksHours, FreeHours
<1>3. ASSUME NEW a \in Apps, NEW ds, LocksDigests(a, ds), UNCHANGED hourLocks
      PROVE  Exclusive'
  BY <1>3 DEF TypeOK, Exclusive, LocksDigests, FreeDigests
<1>4. ASSUME UNCHANGED locks PROVE Exclusive'
  BY <1>4 DEF Exclusive, locks
<1>5. ASSUME NEW a \in Apps, Ends(a) PROVE Exclusive' /\ IdleInv'
  BY <1>5 DEF TypeOK, Exclusive, IdleInv, Ends, Becomes
<1>6. ASSUME NEW a \in Apps, NEW s \in Stage \ {"idle"}, Becomes(a, s),
             \A b \in Apps \ {a} : UNCHANGED <<hourLocks[b], digestLocks[b]>>
      PROVE  IdleInv'
  BY <1>6 DEF TypeOK, IdleInv, Becomes
<1>7. ASSUME NEW a \in Apps, NEW h \in Hours, NEW p \in Presets, NEW pl \in Plan,
             Begin(a, h, p, pl)
      PROVE  Exclusive' /\ IdleInv'
  BY <1>2, <1>6, <1>7 DEF Begin, LocksHours, TypeOK, Stage
<1>8. ASSUME NEW a \in Apps, LockSources(a) PROVE Exclusive' /\ IdleInv'
  BY <1>2, <1>6, <1>8 DEF LockSources, LocksHours, TypeOK, Stage
<1>9. ASSUME NEW a \in Apps, Replan(a) PROVE Exclusive' /\ IdleInv'
  BY <1>4, <1>6, <1>9 DEF Replan, locks, TypeOK, Stage
<1>10. ASSUME NEW a \in Apps, LockInput(a) PROVE Exclusive' /\ IdleInv'
  BY <1>3, <1>6, <1>10 DEF LockInput, LocksDigests, TypeOK, Stage
<1>11. ASSUME NEW a \in Apps, Publish(a) PROVE Exclusive' /\ IdleInv'
  <2>1. Exclusive'
    BY <1>4, <1>11 DEF Publish
  <2>2. (IF stage[a] = "running" THEN "published" ELSE "imported") \in Stage \ {"idle"}
    BY DEF Stage
  <2>3. UNCHANGED <<hourLocks, digestLocks>>
    BY <1>11 DEF Publish, locks
  <2> QED
    BY <1>6, <1>11, <2>1, <2>2, <2>3 DEF Publish
<1>12. ASSUME NEW a \in Apps,
              Commit(a) \/ ImportCommit(a) \/ Abort(a) \/ DeleteUnlink(a)
       PROVE  Exclusive' /\ IdleInv'
  BY <1>5, <1>12 DEF Commit, ImportCommit, Abort, DeleteUnlink
<1>13. ASSUME NEW a \in Apps, NEW h \in Hours, NEW p \in Presets, NEW pl \in Plan,
              ImportBegin(a, h, p, pl)
       PROVE  Exclusive' /\ IdleInv'
  <2>1. Exclusive'
    BY <1>1, <1>13 DEF ImportBegin
  <2>2. \A b \in Apps \ {a} : UNCHANGED <<hourLocks[b], digestLocks[b]>>
    BY <1>13 DEF ImportBegin, LocksHours, LocksDigests, TypeOK
  <2> QED
    BY <1>6, <1>13, <2>1, <2>2 DEF ImportBegin, Stage
<1>14. ASSUME NEW a \in Apps, NEW k \in Hours, DeleteBegin(a, k)
       PROVE  Exclusive' /\ IdleInv'
  BY <1>1, <1>6, <1>14 DEF DeleteBegin, LocksHours, LocksDigests, TypeOK, Stage
<1>15. ASSUME NEW h \in Hours, Acquire(h) \/ PruneRaw(h) PROVE Exclusive' /\ IdleInv'
  BY <1>4, <1>15 DEF Acquire, PruneRaw, IdleInv, locks
<1>16. ASSUME UNCHANGED vars PROVE Exclusive' /\ IdleInv'
  BY <1>4, <1>16 DEF vars, IdleInv, locks
<1> QED
  BY <1>7, <1>8, <1>9, <1>10, <1>11, <1>12, <1>13, <1>14, <1>15, <1>16, ManifestsArePlans
     DEF Next, Process, ImportRemote, Delete

-----------------------------------------------------------------------------
(* Work: a session which does not move keeps what it secured.               *)

Keeps(b) ==
  /\ UNCHANGED <<stage[b], work[b], hourLocks[b], digestLocks[b]>>
  /\ UNCHANGED archive
  /\ everOwned \subseteq everOwned'
  /\ files \intersect hourLocks[b] \subseteq files'

LEMMA WorkKept ==
  ASSUME NEW b \in Apps, WorkOf(b), Keeps(b)
  PROVE  WorkOf(b)'
<1> SUFFICES ASSUME (stage[b] \in Working)'
             PROVE  WorkOf(b)'
  BY DEF WorkOf
<1>1. /\ stage'[b] = stage[b] /\ work'[b] = work[b]
      /\ hourLocks'[b] = hourLocks[b] /\ digestLocks'[b] = digestLocks[b]
  BY DEF Keeps
<1>2. Publishes(work[b].plan, work[b].hour)' <=> Publishes(work[b].plan, work[b].hour)
  <2>1. UNCHANGED <<turn, crossed>>
    BY DEF Keeps, archive
  <2> QED
    BY <1>1, <2>1 DEF Publishes, EndsWithBook
<1>3. stage[b] \in Working
  BY <1>1
<1> QED
  BY <1>1, <1>2, <1>3 DEF WorkOf, Keeps

\* A session which goes idle or deletes has nothing to keep.
LEMMA WorkStep ==
  TypeOK /\ Exclusive /\ WorkInv /\ DeleteInv /\ Owned \subseteq everOwned /\ [Next]_vars
    => WorkInv'
<1> SUFFICES ASSUME TypeOK, Exclusive, WorkInv, DeleteInv, Owned \subseteq everOwned,
                    [Next]_vars, NEW b \in Apps
             PROVE  WorkOf(b)'
  BY DEF WorkInv
<1>0. WorkOf(b)
  BY DEF WorkInv
<1>1. ASSUME NEW a \in Apps, Ends(a), UNCHANGED archive, everOwned \subseteq everOwned',
             files \intersect hourLocks[b] \subseteq files' \/ a = b
      PROVE  WorkOf(b)'
  <2>1. CASE a = b
    BY <1>1, <2>1 DEF TypeOK, Ends, Becomes, WorkOf, Working, Local, Remote
  <2>2. CASE a # b
    <3>1. UNCHANGED <<stage[b], work[b], hourLocks[b], digestLocks[b]>>
      BY <1>1, <2>2 DEF TypeOK, Ends, Becomes
    <3> QED
      BY <1>0, <1>1, <2>2, <3>1, WorkKept DEF Keeps
  <2> QED
    BY <2>1, <2>2
<1>2. ASSUME NEW a \in Apps, a # b, NEW s, Becomes(a, s), UNCHANGED archive,
             UNCHANGED everOwned, files \subseteq files',
             UNCHANGED <<work[b], hourLocks[b], digestLocks[b]>>
      PROVE  WorkOf(b)'
  <2>1. UNCHANGED stage[b]
    BY <1>2 DEF TypeOK, Becomes
  <2> QED
    BY <1>0, <1>2, <2>1, WorkKept DEF Keeps
<1>3. ASSUME NEW a \in Apps, NEW h \in Hours, NEW p \in Presets, NEW pl \in Plan,
             Begin(a, h, p, pl)
      PROVE  WorkOf(b)'
  <2>1. CASE a = b
    <3>1. [hour |-> h, preset |-> p, plan |-> pl] \in Work
      BY DEF Work
    <3>2. /\ stage'[b] = "planned" /\ work'[b] = [hour |-> h, preset |-> p, plan |-> pl]
          /\ h \in hourLocks'[b] /\ everOwned' = everOwned
      BY <1>3, <2>1 DEF Begin, Becomes, LocksHours, TypeOK, history
    <3>3. {pl.input} \ {None} \subseteq everOwned
      BY <1>3 DEF Begin, IsPlan, Usable
    <3> QED
      BY <3>1, <3>2, <3>3 DEF WorkOf, Working, Local, Remote, Begun
  <2>2. CASE a # b
    <3>1. UNCHANGED <<work[b], hourLocks[b], digestLocks[b]>>
      BY <1>3, <2>2 DEF Begin, LocksHours, TypeOK
    <3> QED
      BY <1>2, <1>3, <2>2, <3>1 DEF Begin, history
  <2> QED
    BY <2>1, <2>2
<1>4. ASSUME NEW a \in Apps, LockSources(a) \/ Replan(a) PROVE WorkOf(b)'
  <2>1. CASE a = b
    <3>1. /\ stage[b] \in {"planned", "locked"} /\ stage'[b] \in {"locked", "replanned"}
          /\ work' = work /\ everOwned' = everOwned
      BY <1>4, <2>1 DEF LockSources, Replan, Becomes, TypeOK, history
    <3>2. hourLocks[b] \subseteq hourLocks'[b]
      BY <1>4, <2>1 DEF LockSources, Replan, LocksHours, TypeOK, locks
    <3> QED
      BY <1>0, <3>1, <3>2 DEF WorkOf, Working, Local, Remote, Begun
  <2>2. CASE a # b
    <3>1. UNCHANGED <<work[b], hourLocks[b], digestLocks[b]>>
      BY <1>4, <2>2 DEF LockSources, Replan, LocksHours, TypeOK, locks
    <3> QED
      BY <1>2, <1>4, <2>2, <3>1 DEF LockSources, Replan, history
  <2> QED
    BY <2>1, <2>2
<1>5. ASSUME NEW a \in Apps, LockInput(a) PROVE WorkOf(b)'
  <2>1. CASE a = b
    <3>1. /\ stage[b] = "replanned" /\ stage'[b] = "running"
          /\ work' = work /\ everOwned' = everOwned /\ hourLocks' = hourLocks
      BY <1>5, <2>1 DEF LockInput, Becomes, TypeOK, history
    <3>2. {work[b].plan.input} \ {None} \subseteq digestLocks'[b]
      BY <1>5, <2>1 DEF LockInput, LocksDigests, TypeOK
    <3> QED
      BY <1>0, <3>1, <3>2 DEF WorkOf, Working, Local, Remote, Begun
  <2>2. CASE a # b
    <3>1. UNCHANGED <<work[b], hourLocks[b], digestLocks[b]>>
      BY <1>5, <2>2 DEF LockInput, LocksDigests, TypeOK
    <3> QED
      BY <1>2, <1>5, <2>2, <3>1 DEF LockInput, history
  <2> QED
    BY <2>1, <2>2
<1>6. ASSUME NEW a \in Apps, Publish(a) PROVE WorkOf(b)'
  <2>1. CASE a = b
    <3>1. /\ stage[b] \in {"running", "importing"}
          /\ stage'[b] = (IF stage[b] = "running" THEN "published" ELSE "imported")
          /\ work' = work /\ everOwned' = everOwned
          /\ hourLocks' = hourLocks /\ digestLocks' = digestLocks
      BY <1>6, <2>1 DEF Publish, Becomes, TypeOK, history, locks
    <3>2. Publishes(work[b].plan, work[b].hour) => work[b].hour \in files'
      BY <1>6, <2>1 DEF Publish
    <3>3. Publishes(work[b].plan, work[b].hour)' <=> Publishes(work[b].plan, work[b].hour)
      <4>1. UNCHANGED <<turn, crossed>>
        BY <1>6 DEF Publish, archive
      <4> QED
        BY <3>1, <4>1 DEF Publishes, EndsWithBook
    <3> QED
      BY <1>0, <3>1, <3>2, <3>3 DEF WorkOf, Working, Local, Remote, Begun
  <2>2. CASE a # b
    <3>1. UNCHANGED <<work[b], hourLocks[b], digestLocks[b]>>
      BY <1>6 DEF Publish, locks
    <3>2. files \subseteq files'
      BY <1>6 DEF Publish
    <3> QED
      BY <1>2, <1>6, <2>2, <3>1, <3>2 DEF Publish, history
  <2> QED
    BY <2>1, <2>2
<1>7. ASSUME NEW a \in Apps, Commit(a) \/ ImportCommit(a) \/ Abort(a) PROVE WorkOf(b)'
  <2>1. everOwned \subseteq everOwned'
    BY <1>7 DEF Commit, ImportCommit, Abort, history
  <2>2. Ends(a) /\ UNCHANGED archive /\ UNCHANGED files
    BY <1>7 DEF Commit, ImportCommit, Abort
  <2> QED
    BY <1>1, <2>1, <2>2
<1>8. ASSUME NEW a \in Apps, DeleteUnlink(a) PROVE WorkOf(b)'
  <2>1. a # b => files \intersect hourLocks[b] \subseteq files'
    BY <1>8 DEF DeleteUnlink, DeleteInv, Exclusive
  <2> QED
    BY <1>1, <1>8, <2>1 DEF DeleteUnlink, history
<1>9. ASSUME NEW a \in Apps, NEW h \in Hours, NEW p \in Presets, NEW pl \in Plan,
             ImportBegin(a, h, p, pl)
      PROVE  WorkOf(b)'
  <2>1. CASE a = b
    <3> DEFINE ds == ({pl.input} \ {None}) \union (IF Publishes(pl, h) THEN {h} ELSE {})
    <3>1. [hour |-> h, preset |-> p, plan |-> pl] \in Work
      BY DEF Work
    <3>2. digestLocks' = [digestLocks EXCEPT ![a] = @ \union ds]
      BY <1>9 DEF ImportBegin, LocksDigests
    <3>3. ds \subseteq digestLocks'[b]
      <4> HIDE DEF ds
      <4> QED BY <2>1, <3>2 DEF TypeOK
    <3>4. /\ stage'[b] = "importing" /\ work'[b] = [hour |-> h, preset |-> p, plan |-> pl]
          /\ h \in hourLocks'[b]
      BY <1>9, <2>1 DEF ImportBegin, Becomes, LocksHours, TypeOK
    <3>5. Publishes(work[b].plan, work[b].hour)' <=> Publishes(pl, h)
      <4>1. UNCHANGED <<turn, crossed>>
        BY <1>9 DEF ImportBegin, archive
      <4> QED
        BY <3>4, <4>1 DEF Publishes, EndsWithBook
    <3> QED
      BY <3>1, <3>3, <3>4, <3>5 DEF WorkOf, Working, Local, Remote, Begun
  <2>2. CASE a # b
    <3>1. UNCHANGED <<work[b], hourLocks[b], digestLocks[b]>>
      BY <1>9, <2>2 DEF ImportBegin, LocksHours, LocksDigests, TypeOK
    <3> QED
      BY <1>2, <1>9, <2>2, <3>1 DEF ImportBegin, history
  <2> QED
    BY <2>1, <2>2
<1>10. ASSUME NEW a \in Apps, NEW k \in Hours, DeleteBegin(a, k) PROVE WorkOf(b)'
  <2>1. CASE a = b
    BY <1>10, <2>1 DEF DeleteBegin, Becomes, TypeOK, WorkOf, Working, Local, Remote
  <2>2. CASE a # b
    <3>1. UNCHANGED <<work[b], hourLocks[b], digestLocks[b]>>
      BY <1>10, <2>2 DEF DeleteBegin, LocksHours, LocksDigests, TypeOK
    <3> QED
      BY <1>2, <1>10, <2>2, <3>1 DEF DeleteBegin, history
  <2> QED
    BY <2>1, <2>2
<1>11. ASSUME NEW h \in Hours, Acquire(h) \/ PruneRaw(h) PROVE WorkOf(b)'
  BY <1>0, <1>11, WorkKept DEF Acquire, PruneRaw, Keeps, locks, history
<1>12. ASSUME UNCHANGED vars PROVE WorkOf(b)'
  BY <1>0, <1>12, WorkKept DEF vars, Keeps, locks, history
<1> QED
  BY <1>3, <1>4, <1>5, <1>6, <1>7, <1>8, <1>9, <1>10, <1>11, <1>12, ManifestsArePlans
     DEF Next, Process, ImportRemote, Delete

-----------------------------------------------------------------------------
(* Ownership: what a commit owns it has published, and it lies outside what *)
(* any other session deletes.                                               *)

LEMMA OwnsItsOwn ==
  ASSUME NEW a \in Apps, WorkOf(a), Commit(a) \/ ImportCommit(a)
  PROVE  \E own \in SUBSET {work[a].hour} :
           /\ own \subseteq files
           /\ own \subseteq everOwned'
           /\ Owned' \subseteq Owned \union own
<1> DEFINE pl == work[a].plan
           h == work[a].hour
<1>1. CASE Publishes(pl, h)
  <2>1. h \in files
    BY <1>1 DEF Commit, ImportCommit, WorkOf, Working, Local, Remote
  <2>2. h \in everOwned' /\ Owned' \subseteq Owned \union {h}
    BY <1>1 DEF Commit, ImportCommit, Owned
  <2> QED
    BY <2>1, <2>2
<1>2. CASE ~Publishes(pl, h)
  <2>1. Owned' \subseteq Owned
    BY <1>2 DEF Commit, ImportCommit, Owned
  <2>2. {} \in SUBSET {work[a].hour} /\ {} \subseteq files /\ {} \subseteq everOwned'
    OBVIOUS
  <2>3. Owned' \subseteq Owned \union {}
    BY <2>1
  <2> QED
    BY <2>2, <2>3
<1> QED
  BY <1>1, <1>2

LEMMA OwnedStep ==
  /\ TypeOK /\ WorkInv /\ DeleteInv /\ OwnedCheckpointExists
  /\ Owned \subseteq everOwned /\ OrphansNeverBegin /\ [Next]_vars
  => /\ OwnedCheckpointExists'
     /\ (Owned \subseteq everOwned)'
     /\ OrphansNeverBegin'
<1> SUFFICES ASSUME TypeOK, WorkInv, DeleteInv, OwnedCheckpointExists,
                    Owned \subseteq everOwned, OrphansNeverBegin, [Next]_vars
             PROVE  /\ OwnedCheckpointExists'
                    /\ (Owned \subseteq everOwned)'
                    /\ OrphansNeverBegin'
  OBVIOUS
<1> USE DEF OwnedCheckpointExists, OrphansNeverBegin
<1>1. ASSUME UNCHANGED <<refs, history>>, files \subseteq files'
      PROVE  /\ OwnedCheckpointExists'
             /\ (Owned \subseteq everOwned)'
             /\ OrphansNeverBegin'
  BY <1>1 DEF Owned, refs, history
<1>2. ASSUME NEW a \in Apps, NEW h \in Hours, NEW p \in Presets, NEW pl \in Plan,
             Begin(a, h, p, pl) \/ ImportBegin(a, h, p, pl)
      PROVE  UNCHANGED <<refs, history>> /\ files \subseteq files'
  BY <1>2 DEF Begin, ImportBegin
<1>3. ASSUME NEW a \in Apps, LockSources(a) \/ Replan(a) \/ LockInput(a) \/ Abort(a)
      PROVE  UNCHANGED <<refs, history>> /\ files \subseteq files'
  BY <1>3 DEF LockSources, Replan, LockInput, Abort
<1>4. ASSUME NEW a \in Apps, Publish(a)
      PROVE  UNCHANGED <<refs, history>> /\ files \subseteq files'
  BY <1>4 DEF Publish
<1>5. ASSUME NEW a \in Apps, NEW k \in Hours, DeleteBegin(a, k)
      PROVE  UNCHANGED <<refs, history>> /\ files \subseteq files'
  BY <1>5 DEF DeleteBegin
<1>6. ASSUME NEW h \in Hours, Acquire(h) \/ PruneRaw(h)
      PROVE  UNCHANGED <<refs, history>> /\ files \subseteq files'
  BY <1>6 DEF Acquire, PruneRaw
<1>7. ASSUME UNCHANGED vars PROVE UNCHANGED <<refs, history>> /\ files \subseteq files'
  BY <1>7 DEF vars
<1>8. ASSUME NEW a \in Apps, Commit(a) \/ ImportCommit(a)
      PROVE  /\ OwnedCheckpointExists'
             /\ (Owned \subseteq everOwned)'
             /\ OrphansNeverBegin'
  <2>1. files' = files /\ everOwned \subseteq everOwned'
    BY <1>8 DEF Commit, ImportCommit
  <2>2. WorkOf(a)
    BY DEF WorkInv
  <2>3. OwnedCheckpointExists' /\ (Owned \subseteq everOwned)'
    BY <1>8, <2>1, <2>2, OwnsItsOwn
  <2>4. begunFrom' \subseteq everOwned'
    BY <1>8, <2>1, <2>2 DEF Commit, ImportCommit, WorkOf, Working, Local
  <2> QED
    BY <2>3, <2>4
<1>9. ASSUME NEW a \in Apps, DeleteUnlink(a)
      PROVE  /\ OwnedCheckpointExists'
             /\ (Owned \subseteq everOwned)'
             /\ OrphansNeverBegin'
  <2>1. digestLocks[a] \intersect Owned = {}
    BY <1>9 DEF DeleteUnlink, DeleteInv, References
  <2>2. UNCHANGED <<output, remoteOutput, everOwned, begunFrom>>
    BY <1>9 DEF DeleteUnlink, refs, history
  <2>3. files' = files \ digestLocks[a]
    BY <1>9 DEF DeleteUnlink
  <2> QED
    BY <2>1, <2>2, <2>3 DEF Owned
<1> QED
  BY <1>1, <1>2, <1>3, <1>4, <1>5, <1>6, <1>7, <1>8, <1>9, ManifestsArePlans
     DEF Next, Process, ImportRemote, Delete

-----------------------------------------------------------------------------
(* Deletion: a commit adds no reference outside its own locks.              *)

LEMMA ReferencesGrow ==
  ASSUME TypeOK, NEW a \in Apps, WorkOf(a), Commit(a) \/ ImportCommit(a)
  PROVE  References' \subseteq References \union hourLocks[a] \union digestLocks[a] \union {None}
<1> DEFINE new == hourLocks[a] \union digestLocks[a] \union {None}
<1>1. /\ work[a] \in Work /\ work[a].hour \in hourLocks[a]
      /\ {work[a].plan.input} \ {None} \subseteq digestLocks[a]
  BY DEF Commit, ImportCommit, WorkOf, Working, Begun, Local, Remote
<1>2. work[a].plan.input \in new
  BY <1>1
<1>3. Owned' \subseteq Owned \union new
  BY <1>1, OwnsItsOwn
<1>4. \A h \in Hours : input'[h] \in {input[h]} \union new
  BY <1>2 DEF Commit, ImportCommit, TypeOK
<1>5. \A h \in Hours : remoteInput'[h] \in {remoteInput[h]} \union new
  BY <1>2 DEF Commit, ImportCommit, TypeOK
<1>6. ASSUME NEW h \in Hours, NEW p \in Presets
      PROVE  series'[h][p] = series[h][p] \/ series'[h][p] = work[a].plan
  <2>1. series' = [series EXCEPT ![work[a].hour][work[a].preset] = work[a].plan]
    BY DEF Commit, ImportCommit, Writes
  <2> QED
    BY <2>1 DEF TypeOK
<1>7. ASSUME NEW x \in References', x \notin new
      PROVE  x \in References
  <2>1. CASE x \in Owned'
    BY <2>1, <1>3, <1>7 DEF References
  <2>2. CASE x \in {input'[h] : h \in Hours}
    BY <2>2, <1>4, <1>7 DEF References
  <2>3. CASE x \in {remoteInput'[h] : h \in Hours}
    BY <2>3, <1>5, <1>7 DEF References
  <2>4. CASE x \in {pl.input : pl \in {series'[h][p] : h \in Hours, p \in Presets} \ {Nothing}}
    <3>1. PICK h \in Hours, p \in Presets : series'[h][p] # Nothing /\ x = series'[h][p].input
      BY <2>4
    <3>2. series'[h][p] = series[h][p]
      BY <1>2, <1>6, <1>7, <3>1
    <3>3. series[h][p] \in {series[i][q] : i \in Hours, q \in Presets} \ {Nothing}
      BY <3>1, <3>2
    <3>4. x \in {pl.input : pl \in {series[i][q] : i \in Hours, q \in Presets} \ {Nothing}}
      BY <3>1, <3>2, <3>3
    <3> QED
      BY <3>4 DEF References
  <2> QED
    BY <1>7, <2>1, <2>2, <2>3, <2>4 DEF References
<1> QED
  BY <1>7

LEMMA DeleteStep ==
  TypeOK /\ Exclusive /\ WorkInv /\ DeleteInv /\ IdleInv /\ [Next]_vars => DeleteInv'
<1> SUFFICES ASSUME TypeOK, Exclusive, WorkInv, DeleteInv, IdleInv, [Next]_vars,
                    NEW b \in Apps, stage'[b] = "deleting"
             PROVE  hourLocks'[b] = digestLocks'[b]
                    /\ digestLocks'[b] \intersect References' = {}
  BY DEF DeleteInv
<1>1. ASSUME UNCHANGED refs PROVE References' = References
  BY <1>1 DEF References, Owned, refs
<1>2. ASSUME stage[b] = "deleting", UNCHANGED <<hourLocks[b], digestLocks[b]>>,
             digestLocks[b] \intersect References' = {}
      PROVE  hourLocks'[b] = digestLocks'[b]
             /\ digestLocks'[b] \intersect References' = {}
  BY <1>2 DEF DeleteInv
<1>3. ASSUME NEW a \in Apps, NEW s \in Stage \ {"deleting"}, Becomes(a, s)
      PROVE  a # b /\ stage[b] = "deleting"
  BY <1>3 DEF Becomes, TypeOK
<1>4. ASSUME NEW a \in Apps, NEW s \in Stage \ {"deleting"}, Becomes(a, s), UNCHANGED refs,
             a # b => UNCHANGED <<hourLocks[b], digestLocks[b]>>
      PROVE  hourLocks'[b] = digestLocks'[b]
             /\ digestLocks'[b] \intersect References' = {}
  BY <1>1, <1>2, <1>3, <1>4 DEF DeleteInv
<1>5. ASSUME NEW a \in Apps, NEW h \in Hours, NEW p \in Presets, NEW pl \in Plan,
             Begin(a, h, p, pl) \/ ImportBegin(a, h, p, pl)
      PROVE  hourLocks'[b] = digestLocks'[b]
             /\ digestLocks'[b] \intersect References' = {}
  <2>1. a # b => UNCHANGED <<hourLocks[b], digestLocks[b]>>
    BY <1>5 DEF Begin, ImportBegin, LocksHours, LocksDigests, TypeOK
  <2>2. (Becomes(a, "planned") \/ Becomes(a, "importing")) /\ UNCHANGED refs
    BY <1>5 DEF Begin, ImportBegin
  <2> QED
    BY <1>4, <2>1, <2>2 DEF Stage
<1>6. ASSUME NEW a \in Apps, LockSources(a) \/ Replan(a) \/ LockInput(a) \/ Publish(a)
      PROVE  hourLocks'[b] = digestLocks'[b]
             /\ digestLocks'[b] \intersect References' = {}
  <2>1. a # b => UNCHANGED <<hourLocks[b], digestLocks[b]>>
    BY <1>6 DEF LockSources, Replan, LockInput, Publish, LocksHours, LocksDigests, locks, TypeOK
  <2>2. /\ UNCHANGED refs
        /\ \E s \in Stage \ {"deleting"} : Becomes(a, s)
    BY <1>6 DEF LockSources, Replan, LockInput, Publish, Stage
  <2> QED
    BY <1>4, <2>1, <2>2
<1>7. ASSUME NEW a \in Apps, Abort(a) \/ DeleteUnlink(a)
      PROVE  hourLocks'[b] = digestLocks'[b]
             /\ digestLocks'[b] \intersect References' = {}
  <2>1. a # b => UNCHANGED <<hourLocks[b], digestLocks[b]>>
    BY <1>7 DEF Abort, DeleteUnlink, Ends, TypeOK
  <2>2. UNCHANGED refs /\ Becomes(a, "idle")
    BY <1>7 DEF Abort, DeleteUnlink, Ends
  <2> QED
    BY <1>4, <2>1, <2>2 DEF Stage
<1>8. ASSUME NEW a \in Apps, Commit(a) \/ ImportCommit(a)
      PROVE  hourLocks'[b] = digestLocks'[b]
             /\ digestLocks'[b] \intersect References' = {}
  <2>1. Ends(a)
    BY <1>8 DEF Commit, ImportCommit
  <2>2. a # b /\ stage[b] = "deleting"
    BY <1>3, <2>1 DEF Ends, Stage
  <2>3. UNCHANGED <<hourLocks[b], digestLocks[b]>>
    BY <2>1, <2>2 DEF Ends, TypeOK
  <2>4. /\ digestLocks[b] \intersect References = {}
        /\ digestLocks[b] = hourLocks[b]
        /\ digestLocks[b] \intersect digestLocks[a] = {}
        /\ digestLocks[b] \intersect hourLocks[a] = {}
    BY <2>2 DEF DeleteInv, Exclusive
  <2>5. None \notin digestLocks[b]
    BY DEF TypeOK, None, Hours
  <2>6. WorkOf(a)
    BY DEF WorkInv
  <2>7. References' \subseteq References \union hourLocks[a] \union digestLocks[a] \union {None}
    BY <1>8, <2>6, ReferencesGrow
  <2>8. digestLocks[b] \intersect References' = {}
    BY <2>4, <2>5, <2>7
  <2> QED
    BY <1>2, <2>2, <2>3, <2>8
<1>9. ASSUME NEW a \in Apps, NEW k \in Hours, DeleteBegin(a, k)
      PROVE  hourLocks'[b] = digestLocks'[b]
             /\ digestLocks'[b] \intersect References' = {}
  <2>1. References' = References
    BY <1>1, <1>9 DEF DeleteBegin
  <2>2. CASE a = b
    <3>1. hourLocks[b] = {} /\ digestLocks[b] = {}
      BY <1>9, <2>2 DEF DeleteBegin, IdleInv
    <3>2. hourLocks'[b] = {k} /\ digestLocks'[b] = {k}
      BY <1>9, <2>2, <3>1 DEF DeleteBegin, LocksHours, LocksDigests, TypeOK
    <3> QED
      BY <1>9, <2>1, <3>2 DEF DeleteBegin
  <2>3. CASE a # b
    <3>1. stage[b] = "deleting" /\ UNCHANGED <<hourLocks[b], digestLocks[b]>>
      BY <1>9, <2>3 DEF DeleteBegin, Becomes, LocksHours, LocksDigests, TypeOK
    <3> QED
      BY <1>2, <2>1, <3>1 DEF DeleteInv
  <2> QED
    BY <2>2, <2>3
<1>10. ASSUME UNCHANGED <<refs, stage, locks>>
       PROVE  hourLocks'[b] = digestLocks'[b]
              /\ digestLocks'[b] \intersect References' = {}
  BY <1>1, <1>2, <1>10 DEF DeleteInv, locks
<1>11. ASSUME NEW h \in Hours, Acquire(h) \/ PruneRaw(h) PROVE UNCHANGED <<refs, stage, locks>>
  BY <1>11 DEF Acquire, PruneRaw
<1>12. ASSUME UNCHANGED vars PROVE UNCHANGED <<refs, stage, locks>>
  BY <1>12 DEF vars
<1> QED
  BY <1>5, <1>6, <1>7, <1>8, <1>9, <1>10, <1>11, <1>12, ManifestsArePlans
     DEF Next, Process, ImportRemote, Delete

-----------------------------------------------------------------------------
(* The invariant and its consequences.                                      *)

LEMMA InvInit == Init => Inv
<1> SUFFICES ASSUME Init PROVE Inv
  OBVIOUS
<1>1. TypeOK
  BY DEF Init, TypeOK, Stage
<1>2. Exclusive /\ WorkInv /\ DeleteInv /\ IdleInv
  BY DEF Init, Exclusive, WorkInv, WorkOf, DeleteInv, IdleInv, Working, Local, Remote
<1>3. OwnedCheckpointExists /\ Owned \subseteq everOwned /\ OrphansNeverBegin
  BY DEF Init, Owned, OwnedCheckpointExists, OrphansNeverBegin
<1> QED
  BY <1>1, <1>2, <1>3 DEF Inv

LEMMA InvStep == Inv /\ [Next]_vars => Inv'
BY TypeStep, LockStep, WorkStep, DeleteStep, OwnedStep DEF Inv

LEMMA InvHolds == Spec => []Inv
BY InvInit, InvStep, PTL DEF Spec

\* Every variable keeps its type.
THEOREM TypeCorrect == Spec => []TypeOK
<1>1. Inv => TypeOK
  BY DEF Inv
<1> QED
  BY InvHolds, <1>1, PTL

\* A committed row's output checkpoint exists, however many processing runs,
\* imports and deletions overlap and wherever they die.
THEOREM OwnedCheckpointsExist == Spec => []OwnedCheckpointExists
<1>1. Inv => OwnedCheckpointExists
  BY DEF Inv
<1> QED
  BY InvHolds, <1>1, PTL

\* Only a checkpoint some committed row has owned starts a run that commits.
THEOREM OrphansStayOut == Spec => []OrphansNeverBegin
<1>1. Inv => OrphansNeverBegin
  BY DEF Inv
<1> QED
  BY InvHolds, <1>1, PTL

\* What any committed row or provenance names is not unlinked.
THEOREM ReferencesSpared == Spec => DeletionSparesReferences
<1>1. Inv /\ [Next]_vars => [(files \ files') \intersect References' = {}]_vars
  <2> SUFFICES ASSUME Inv, Next PROVE (files \ files') \intersect References' = {}
    OBVIOUS
  <2>1. ASSUME NEW a \in Apps, DeleteUnlink(a)
        PROVE  (files \ files') \intersect References' = {}
    <3>1. References' = References
      BY <2>1 DEF DeleteUnlink, References, Owned, refs
    <3>2. digestLocks[a] \intersect References = {} /\ files' = files \ digestLocks[a]
      BY <2>1 DEF DeleteUnlink, Inv, DeleteInv
    <3> QED
      BY <3>1, <3>2
  <2>2. (\E a \in Apps : DeleteUnlink(a)) \/ files \subseteq files'
    BY DEF Next, Process, ImportRemote, Delete, Begin, LockSources, Replan, LockInput,
           Publish, Commit, Abort, ImportBegin, ImportCommit, DeleteBegin, Acquire, PruneRaw
  <2> QED
    BY <2>1, <2>2
<1> QED
  BY InvHolds, <1>1, PTL DEF Spec, DeletionSparesReferences
================================================================================
