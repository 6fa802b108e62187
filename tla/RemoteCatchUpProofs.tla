--------------------------- MODULE RemoteCatchUpProofs ---------------------------
(***************************************************************************)
(* For every number of hours and of runs, every search bound and any number *)
(* of interruptions: a catch-up always advances, what is published is one    *)
(* sound chain, and it only grows, in order.                                *)
(***************************************************************************)
EXTENDS RemoteCatchUp, WellFoundedInduction, TLAPS

-----------------------------------------------------------------------------
(* The least and the greatest hour of a set.                                *)
LEMMA LeastHour ==
    ASSUME NEW S \in SUBSET Nat, S # {}
    PROVE  Min(S) \in S /\ \A y \in S : Min(S) =< y
<1>1. PICK x \in S : \A y \in S : <<y, x>> \notin OpToRel(<, Nat)
  BY NatLessThanWellFounded, WFMin
<1>2. \A y \in S : y < x => <<y, x>> \in OpToRel(<, Nat)
  BY Zenon DEF OpToRel
<1>3. \A y \in S : ~(y < x)
  BY <1>1, <1>2, Zenon
<1>4. \A y \in S : x =< y
  BY <1>3
<1> QED
  BY <1>4 DEF Min

LEMMA GreatestHour ==
    ASSUME NEW n \in Nat, NEW S \in SUBSET (0 .. n), S # {}
    PROVE  Max(S) \in S /\ \A y \in S : y =< Max(S)
<1> DEFINE T == {n - x : x \in S}
<1>1. T \in SUBSET Nat /\ T # {}
  <2>1. \A x \in S : n - x \in Nat
    OBVIOUS
  <2> QED
    BY <2>1
<1>2. Min(T) \in T /\ \A y \in T : Min(T) =< y
  BY <1>1, LeastHour
<1>3. PICK x \in S : Min(T) = n - x
  BY <1>2
<1>4. \A y \in S : x >= y
  BY <1>2, <1>3
<1> QED
  BY <1>4 DEF Max

-----------------------------------------------------------------------------
(* The inductive invariant.                                                 *)
Artifacts(k) == IF k[1] = "l2" THEN L2 ELSE Price
Optional(S)  == S \union {Absent}

(* The types, and when an hour's content becomes known.                      *)
Typed ==
    /\ backend \in {"hugging_face", "backblaze_b2"}
    /\ priced \in BOOLEAN
    /\ search \in Searches
    /\ content \in [Hours -> Content \union {Unknown}]
    /\ newest \in Hours
    /\ late \in SUBSET Hours
    /\ build \in Nat /\ asked \in Nat /\ faults \in Nat
    /\ store \in [Keys -> L2 \union Price \union {Absent}]
    /\ file \in [Keys -> L2 \union Price \union {Absent}]
    /\ manifest \in [Keys -> L2 \union Price \union {Absent}]
    /\ \A k \in Keys : /\ store[k] \in Optional(Artifacts(k))
                       /\ file[k] \in Optional(Artifacts(k))
                       /\ manifest[k] \in Optional(Artifacts(k))
    /\ run \in [Runs -> [stage : Stage, target : Hours, eligible : Hours,
                         l2 : Optional(L2), price : Optional(Price)]]
    /\ \A r \in Runs : run[r].target =< run[r].eligible /\ run[r].eligible =< newest

(* What must be true of the artifact of an hour before it is published.      *)
Sound(h, a) ==
    /\ content[h] \in Content
    /\ a.input => Input(h)
    /\ a.checkpoint => Replayed(content[h], a.input) /\ content[h] # "locked"
    /\ ~Replayed(content[h], a.input) => Behind(h)
    /\ content[h] = "updates" /\ ~a.input => ~Input(h)

ChainSound == \A h \in Hours : Exists(h) => Sound(h, store[<<"l2", h>>])

(* What a run still has to publish.                                          *)
Publishing == {"publish", "manifest", "descriptor"}

Pending(r) ==
    LET h == run[r].target IN
    /\ run[r].l2 # Absent => Sound(h, run[r].l2)
    /\ run[r].stage \in Publishing =>
         /\ run[r].l2 # Absent \/ run[r].price # Absent
         /\ run[r].l2 = Absent => Exists(h)
         /\ run[r].price = Absent => ~Unpriced(h)
    /\ run[r].stage \notin Publishing => run[r].l2 = Absent /\ run[r].price = Absent
    /\ run[r].stage \in {"done", "stuck"} => Exists(h) /\ ~Unpriced(h)

(* The single writer of a B2 bucket: nothing is completed behind its back.    *)
Alone(r) ==
    /\ run[r].stage # "idle" /\ backend = "backblaze_b2" =>
         /\ \A q \in Runs : run[q].stage # "idle" => q = r
         /\ run[r].l2 # Absent => store[<<"l2", run[r].target>>] = Absent
         /\ run[r].price # Absent => store[<<"price", run[r].target>>] = Absent
    /\ run[r].stage \in {"manifest", "descriptor"} => backend = "backblaze_b2"
    /\ run[r].stage = "descriptor" => manifest[Key(r)] = Own(r)

(* Why the target of a run was its turn: from the start of the window, or    *)
(* from some usable hour, every hour before it is there.                     *)
First(n)  == IF n < search THEN 0 ELSE n - search + 1
Closed(h) == Exists(h) /\ ~Unpriced(h)

ItsTurn(n, h) ==
    \E u \in Window(n) :
      /\ u =< h
      /\ u = First(n) \/ Usable(u)
      /\ \A k \in Window(n) : u =< k /\ k < h => Closed(k)

Planned(r) ==
    run[r].stage # "idle" =>
      \/ asked > 0 /\ run[r].target = run[r].eligible
      \/ ItsTurn(run[r].eligible, run[r].target)

ChainInv ==
    /\ Typed
    /\ ChainSound
    /\ \A r \in Runs : Pending(r) /\ Alone(r) /\ Planned(r)
    /\ RunsAdvance

-----------------------------------------------------------------------------
(* What is published, and what an archive holds, never changes.              *)
Grows ==
    /\ UNCHANGED chain
    /\ \A k \in Keys : store[k] # Absent => store'[k] = store[k]
    /\ \A h \in Hours : content[h] \in Content => content'[h] = content[h]
    /\ asked > 0 => asked' > 0

LEMMA HourKeys ==
    \A h \in Hours : <<"l2", h>> \in Keys /\ <<"price", h>> \in Keys
BY DEF Keys

LEMMA WindowIsOfHours ==
    ASSUME Typed, NEW n \in Hours
    PROVE  /\ Window(n) = First(n) .. n
           /\ Window(n) \subseteq Hours
           /\ First(n) \in Hours /\ First(n) =< n
BY HoursAssumption DEF Typed, Window, First, Hours

LEMMA HoursGrow ==
    ASSUME Typed, Grows, NEW h \in Hours
    PROVE  /\ Exists(h) => Exists(h)' /\ store'[<<"l2", h>>] = store[<<"l2", h>>]
           /\ Exists(h) => (Usable(h)' <=> Usable(h))
           /\ Usable(h) => Usable(h)'
           /\ ~Unpriced(h) => ~Unpriced(h)'
           /\ Closed(h) => Closed(h)'
BY HourKeys DEF Typed, Grows, chain, Exists, Usable, Unpriced, Closed

LEMMA SoundStays ==
    ASSUME Typed, Grows, NEW h \in Hours, NEW a, Sound(h, a)
    PROVE  Sound(h, a)'
<1>1. content'[h] = content[h] /\ content'[h] \in Content
  BY DEF Sound, Grows
<1>2. h > 0 => h - 1 \in Hours
  BY HoursAssumption DEF Hours
<1>3. /\ Behind(h) => Behind(h)'
      /\ Input(h) => Input(h)'
      /\ Behind(h) /\ ~Input(h) => ~Input(h)'
  BY <1>2, HoursGrow DEF Behind, Input
<1>4. content[h] = "updates" /\ ~a.input => Behind(h)
  BY DEF Sound, Replayed
<1> QED
  BY <1>1, <1>3, <1>4 DEF Sound, Replayed

LEMMA ItsTurnStays ==
    ASSUME Typed, Grows, NEW n \in Hours, NEW h \in Hours, ItsTurn(n, h)
    PROVE  ItsTurn(n, h)'
<1>1. Window(n)' = Window(n) /\ First(n)' = First(n)
  BY DEF Grows, chain, Window, First
<1>2. \A k \in Window(n) : /\ Usable(k) => Usable(k)'
                           /\ Closed(k) => Closed(k)'
  BY HoursGrow, WindowIsOfHours
<1> QED
  BY <1>1, <1>2 DEF ItsTurn

(* What one run does leaves the obligations of the others as they are.       *)
LEMMA OtherRuns ==
    ASSUME ChainInv, Grows, NEW r \in Runs,
           \A q \in Runs \ {r} : run'[q] = run[q],
           backend = "backblaze_b2" => \A q \in Runs \ {r} : run[q].stage = "idle",
           NEW q \in Runs \ {r}
    PROVE  Pending(q)' /\ Alone(q)' /\ Planned(q)'
<1>1. Typed /\ run[q].target \in Hours /\ run[q].eligible \in Hours /\ run'[q] = run[q]
  BY DEF ChainInv, Typed
<1>2. Pending(q) /\ Alone(q) /\ Planned(q)
  BY DEF ChainInv
<1>3. Pending(q)'
  BY <1>1, <1>2, SoundStays, HoursGrow DEF Pending
<1>4. Alone(q)'
  BY <1>1, <1>2 DEF Alone, Grows, chain
<1>5. Planned(q)'
  BY <1>1, <1>2, ItsTurnStays DEF Planned, Grows
<1> QED
  BY <1>3, <1>4, <1>5

LEMMA ChainStays ==
    ASSUME ChainInv, Grows, UNCHANGED store
    PROVE  ChainSound'
<1>1. ASSUME NEW h \in Hours, Exists(h)' PROVE Sound(h, store[<<"l2", h>>])'
  <2>1. Exists(h)
    BY <1>1 DEF Exists
  <2>2. Sound(h, store[<<"l2", h>>])
    BY <2>1 DEF ChainInv, ChainSound
  <2> QED
    BY <2>2, SoundStays DEF ChainInv, Sound, Replayed, Input, Behind, Usable, Exists
<1> QED
  BY <1>1 DEF ChainSound

-----------------------------------------------------------------------------
(* The plan: the hour is in the window, and every hour below it is there up  *)
(* from the start of the window or from some usable hour.                    *)
LEMMA CandidatesAreInTurn ==
    ASSUME Typed, NEW n \in Hours, NEW t \in Candidates(n),
           \A c \in Candidates(n) : t =< c
    PROVE  t \in Window(n) /\ ItsTurn(n, t)
<1> DEFINE usable == {h \in Window(n) : Usable(h)}
           open   == {h \in Window(n) : Exists(h) => Unpriced(h)}
           front  == Max(usable)
<1>1. /\ Window(n) = First(n) .. n /\ Window(n) \subseteq Hours
      /\ First(n) \in Window(n) /\ n \in Window(n) /\ n \in Nat
      /\ Window(n) \subseteq 0 .. n
  BY WindowIsOfHours, HoursAssumption DEF Hours
<1>2. \A h \in Window(n) : h \notin open => Closed(h)
  BY DEF Closed
<1>3. CASE usable = {}
  <2>1. Candidates(n) = open
    BY <1>3 DEF Candidates
  <2>2. t \in open /\ \A k \in Window(n) : k < t => Closed(k)
    BY <2>1, <1>1, <1>2 DEF Hours
  <2>3. First(n) =< t
    BY <2>2, <1>1
  <2> QED
    BY <2>2, <2>3, <1>1 DEF ItsTurn
<1>4. CASE usable # {}
  <2>1. front \in usable /\ \A y \in usable : y =< front
    <3>1. usable \in SUBSET (0 .. n)
      BY <1>1
    <3> HIDE DEF usable
    <3> QED
      BY <3>1, <1>1, <1>4, GreatestHour
  <2>2. Candidates(n) = IF Unpriced(front) THEN {front}
                        ELSE IF \E h \in open : h > front
                        THEN {h \in open : h > front}
                        ELSE {front} \intersect {n}
    BY <1>4 DEF Candidates
  <2> HIDE DEF front
  <2>3. front \in Window(n) /\ Usable(front) /\ front \in Hours
    BY <2>1, <1>1
  <2>4. CASE t = front
    BY <2>4, <2>3, <1>1 DEF ItsTurn, Hours
  <2>5. CASE t # front
    <3>1. Candidates(n) = {h \in open : h > front} /\ ~Unpriced(front)
      BY <2>5, <2>2
    <3>2. t \in Window(n) /\ t > front /\ front =< t
      BY <3>1, <2>3, <1>1 DEF Hours
    <3>3. \A k \in Window(n) : front =< k /\ k < t => Closed(k)
      <4> SUFFICES ASSUME NEW k \in Window(n), front =< k, k < t PROVE Closed(k)
        OBVIOUS
      <4>1. CASE k = front
        BY <4>1, <3>1, <2>3 DEF Closed, Usable
      <4>2. CASE k > front
        <5>1. k \notin open
          BY <4>2, <3>1, <3>2, <1>1 DEF Hours
        <5> QED
          BY <5>1, <1>2
      <4> QED
        BY <4>1, <4>2, <2>3, <1>1 DEF Hours
    <3> QED
      BY <3>2, <3>3, <2>3 DEF ItsTurn
  <2> QED
    BY <2>4, <2>5
<1> QED
  BY <1>3, <1>4

LEMMA PlanIsInTurn ==
    ASSUME Typed, NEW n \in Hours, Candidates(n) # {}
    PROVE  /\ Plan(n) \in Candidates(n) /\ Plan(n) \in Window(n)
           /\ Plan(n) \in Hours /\ Plan(n) =< n
           /\ ItsTurn(n, Plan(n))
<1>1. Candidates(n) \subseteq Window(n)
  <2>1. ASSUME {h \in Window(n) : Usable(h)} # {}
        PROVE  Max({h \in Window(n) : Usable(h)}) \in Window(n)
    <3> DEFINE usable == {h \in Window(n) : Usable(h)}
    <3>1. usable \in SUBSET (0 .. n) /\ n \in Nat
      BY WindowIsOfHours, HoursAssumption DEF Hours
    <3>2. usable \subseteq Window(n)
      OBVIOUS
    <3> HIDE DEF usable
    <3>3. Max(usable) \in usable
      BY <3>1, <2>1, GreatestHour DEF usable
    <3> QED
      BY <3>2, <3>3 DEF usable
  <2> QED
    BY <2>1 DEF Candidates
<1>2. Candidates(n) \in SUBSET Nat
  BY <1>1, WindowIsOfHours DEF Hours
<1>3. Plan(n) \in Candidates(n) /\ \A c \in Candidates(n) : Plan(n) =< c
  BY <1>2, LeastHour DEF Plan
<1> QED
  BY <1>1, <1>3, CandidatesAreInTurn, WindowIsOfHours DEF Hours

(* An hour that was in its turn and is complete is not planned again, nor is *)
(* any hour before it.                                                       *)
LEMMA PlanAdvances ==
    ASSUME Typed, NEW n \in Hours, NEW t \in Hours, t < n,
           ItsTurn(n, t), Closed(t), NEW c \in Candidates(n)
    PROVE  t < c
<1> DEFINE usable == {h \in Window(n) : Usable(h)}
           open   == {h \in Window(n) : Exists(h) => Unpriced(h)}
           front  == Max(usable)
<1>1. /\ Window(n) = First(n) .. n /\ Window(n) \subseteq Hours
      /\ n \in Nat /\ t \in Nat /\ First(n) \in Nat
      /\ Window(n) \subseteq 0 .. n
  BY WindowIsOfHours, HoursAssumption DEF Hours
<1>2. PICK u \in Window(n) : /\ u =< t
                             /\ u = First(n) \/ Usable(u)
                             /\ \A k \in Window(n) : u =< k /\ k < t => Closed(k)
  BY DEF ItsTurn
<1>3. \A k \in open : u =< k => t < k
  <2> SUFFICES ASSUME NEW k \in open, u =< k PROVE t < k
    OBVIOUS
  <2>1. ~Closed(k) /\ k \in Nat
    BY <1>1 DEF Closed
  <2>2. k # t /\ ~(k < t)
    BY <2>1, <1>2
  <2> QED
    BY <2>1, <2>2, <1>1
<1>4. CASE usable = {}
  <2>1. c \in open
    BY <1>4 DEF Candidates
  <2>2. u = First(n)
    BY <1>2, <1>4
  <2> QED
    BY <2>1, <2>2, <1>3, <1>1
<1>5. CASE usable # {}
  <2>1. front \in usable /\ \A y \in usable : y =< front
    <3>1. usable \in SUBSET (0 .. n)
      BY <1>1
    <3> HIDE DEF usable
    <3> QED
      BY <3>1, <1>1, <1>5, GreatestHour
  <2>2. c \in IF Unpriced(front) THEN {front}
             ELSE IF \E h \in open : h > front
             THEN {h \in open : h > front}
             ELSE {front} \intersect {n}
    BY <1>5 DEF Candidates
  <2> HIDE DEF front
  <2>3. front \in Window(n) /\ front \in Nat /\ Usable(front)
    BY <2>1, <1>1
  <2>4. u =< front
    BY <2>1, <2>3, <1>1, <1>2
  <2>5. CASE Unpriced(front)
    BY <2>5, <2>2, <2>3, <2>4, <1>3
  <2>6. CASE ~Unpriced(front) /\ \E h \in open : h > front
    <3>1. c \in open /\ c > front
      BY <2>6, <2>2
    <3> QED
      BY <3>1, <2>3, <2>4, <1>3, <1>1
  <2>7. CASE ~Unpriced(front) /\ ~(\E h \in open : h > front)
    BY <2>7, <2>2
  <2> QED
    BY <2>5, <2>6, <2>7
<1> QED
  BY <1>4, <1>5

-----------------------------------------------------------------------------
LEMMA InitInv == Init => ChainInv
<1> SUFFICES ASSUME Init PROVE ChainInv
  OBVIOUS
<1>1. Typed
  BY HoursAssumption DEF Init, Typed, Hours, Idle, Stage, Optional, Artifacts, Keys
<1>2. ChainSound
  BY HourKeys DEF Init, ChainSound, Exists
<1>3. \A r \in Runs : Pending(r) /\ Alone(r) /\ Planned(r)
  BY DEF Init, Pending, Alone, Planned, Idle, Publishing
<1>4. RunsAdvance
  BY DEF Init, RunsAdvance, Idle
<1> QED
  BY <1>1, <1>2, <1>3, <1>4 DEF ChainInv

(* What is left to show of a step of one run.                                *)
LEMMA OneRun ==
    ASSUME ChainInv, Grows, NEW r \in Runs,
           \A q \in Runs \ {r} : run'[q] = run[q],
           backend = "backblaze_b2" => \A q \in Runs \ {r} : run[q].stage = "idle",
           Typed', ChainSound', Pending(r)', Alone(r)', Planned(r)', run'[r].stage # "stuck"
    PROVE  ChainInv'
<1>1. \A q \in Runs : Pending(q)' /\ Alone(q)' /\ Planned(q)'
  BY OtherRuns
<1>2. RunsAdvance'
  BY DEF RunsAdvance, ChainInv
<1> QED
  BY <1>1, <1>2 DEF ChainInv

LEMMA OthersIdle ==
    ASSUME ChainInv, NEW r \in Runs, run[r].stage # "idle", backend = "backblaze_b2"
    PROVE  \A q \in Runs \ {r} : run[q].stage = "idle"
BY DEF ChainInv, Alone

LEMMA EndsInv ==
    ASSUME ChainInv, NEW r \in Runs, run[r].stage # "idle", Ends(r), Grows,
           UNCHANGED <<backend, priced, search, newest, late, build, store, file, manifest>>,
           content' \in [Hours -> Content \union {Unknown}], asked' \in Nat, faults' \in Nat
    PROVE  ChainInv'
<1>1. Typed'
  BY HoursAssumption DEF ChainInv, Typed, Ends, Idle, Hours, Stage, Optional
<1>2. run'[r] = Idle /\ \A q \in Runs \ {r} : run'[q] = run[q]
  BY DEF ChainInv, Typed, Ends
<1>3. Pending(r)' /\ Alone(r)' /\ Planned(r)' /\ run'[r].stage # "stuck"
  BY <1>2 DEF Pending, Alone, Planned, Idle, Publishing
<1>4. ChainSound'
  BY ChainStays
<1> QED
  BY <1>1, <1>2, <1>3, <1>4, OthersIdle, OneRun

LEMMA NothingGrows ==
    ASSUME UNCHANGED <<chain, content, store>>, asked > 0 => asked' > 0
    PROVE  Grows
BY DEF Grows, chain

(* The types after a step that changes one run.                              *)
Invocation == [stage : Stage, target : Hours, eligible : Hours,
               l2 : Optional(L2), price : Optional(Price)]

LEMMA TypedRun ==
    ASSUME Typed, NEW r \in Runs, NEW new \in Invocation,
           new.target =< new.eligible, new.eligible =< newest,
           run' = [run EXCEPT ![r] = new],
           UNCHANGED <<backend, priced, search, newest, late, build>>,
           content' \in [Hours -> Content \union {Unknown}], asked' \in Nat, faults' \in Nat,
           store' \in [Keys -> L2 \union Price \union {Absent}],
           file' \in [Keys -> L2 \union Price \union {Absent}],
           manifest' \in [Keys -> L2 \union Price \union {Absent}],
           \A k \in Keys : /\ store'[k] \in Optional(Artifacts(k))
                           /\ file'[k] \in Optional(Artifacts(k))
                           /\ manifest'[k] \in Optional(Artifacts(k))
    PROVE  Typed' /\ run'[r] = new /\ \A q \in Runs \ {r} : run'[q] = run[q]
<1>1. run' \in [Runs -> Invocation]
  BY DEF Typed, Invocation
<1>2. run'[r] = new /\ \A q \in Runs \ {r} : run'[q] = run[q]
  BY DEF Typed
<1>3. \A q \in Runs : run'[q].target =< run'[q].eligible /\ run'[q].eligible =< newest'
  BY <1>2 DEF Typed
<1> QED
  BY <1>1, <1>2, <1>3 DEF Typed, Invocation

LEMMA StartCatchUpInv ==
    ASSUME ChainInv, NEW r \in Runs, StartCatchUp(r)
    PROVE  ChainInv'
<1>1. /\ UNCHANGED <<backend, priced, search, content, newest, late, build, store, file,
                     manifest, asked, faults>>
      /\ run[r].stage = "idle" /\ MayStart(r)
      /\ newest \in Hours /\ Candidates(newest) # {} /\ Typed
  BY DEF StartCatchUp, MayStart, ChainInv, Typed, chain, world, objects, upsets
<1>2. /\ Plan(newest) \in Hours /\ Plan(newest) =< newest
      /\ ItsTurn(newest, Plan(newest))
  BY <1>1, PlanIsInTurn
<1>3. PICK new : new = [run[r] EXCEPT !.stage = "planned", !.target = Plan(newest),
                                      !.eligible = newest]
  OBVIOUS
<1>4. /\ run' = [run EXCEPT ![r] = new]
      /\ new \in Invocation
      /\ new.stage = "planned" /\ new.target = Plan(newest) /\ new.eligible = newest
      /\ new.l2 = Absent /\ new.price = Absent
  BY <1>1, <1>2, <1>3
     DEF StartCatchUp, Starts, ChainInv, Typed, Pending, Publishing, Invocation, Stage
<1>5. Typed' /\ run'[r] = new /\ \A q \in Runs \ {r} : run'[q] = run[q]
  <2>1. newest =< newest
    BY <1>1, HoursAssumption DEF Hours
  <2> QED
    BY <1>1, <1>2, <1>4, <2>1, TypedRun DEF Typed
<1>6. Grows /\ ChainSound'
  BY <1>1, NothingGrows, ChainStays DEF chain
<1>7. Pending(r)'
  BY <1>4, <1>5 DEF Pending, Publishing
<1>8. Alone(r)'
  BY <1>1, <1>4, <1>5 DEF Alone, MayStart
<1>9. Planned(r)'
  BY <1>1, <1>2, <1>4, <1>5, <1>6, ItsTurnStays DEF Planned
<1> QED
  BY <1>1, <1>4, <1>5, <1>6, <1>7, <1>8, <1>9, OneRun DEF MayStart

LEMMA StartHourInv ==
    ASSUME ChainInv, NEW r \in Runs, NEW h \in Hours, StartHour(r, h)
    PROVE  ChainInv'
<1>1. /\ UNCHANGED <<backend, priced, search, content, newest, late, build, store, file,
                     manifest, faults>>
      /\ asked' = asked + 1 /\ asked \in Nat
      /\ run[r].stage = "idle" /\ MayStart(r)
      /\ newest \in Hours /\ h =< newest /\ Typed
  BY DEF StartHour, MayStart, ChainInv, Typed, chain, world, objects
<1>2. PICK new : new = [run[r] EXCEPT !.stage = "planned", !.target = h, !.eligible = h]
  OBVIOUS
<1>3. /\ run' = [run EXCEPT ![r] = new]
      /\ new \in Invocation
      /\ new.stage = "planned" /\ new.target = h /\ new.eligible = h
      /\ new.l2 = Absent /\ new.price = Absent
  BY <1>1, <1>2
     DEF StartHour, Starts, ChainInv, Typed, Pending, Publishing, Invocation, Stage
<1>4. Typed' /\ run'[r] = new /\ \A q \in Runs \ {r} : run'[q] = run[q]
  <2>1. h =< h /\ asked' \in Nat
    BY <1>1, HoursAssumption DEF Hours
  <2>2. faults' \in Nat
    BY <1>1 DEF Typed
  <2> QED
    BY <1>1, <1>3, <2>1, <2>2, TypedRun DEF Typed
<1>5. Grows /\ ChainSound'
  BY <1>1, NothingGrows, ChainStays DEF chain
<1>6. Pending(r)'
  BY <1>3, <1>4 DEF Pending, Publishing
<1>7. Alone(r)'
  BY <1>1, <1>3, <1>4 DEF Alone, MayStart
<1>8. Planned(r)'
  BY <1>1, <1>3, <1>4 DEF Planned
<1> QED
  BY <1>1, <1>3, <1>4, <1>5, <1>6, <1>7, <1>8, OneRun DEF MayStart

-----------------------------------------------------------------------------
(* What a replay makes of an hour is sound when the hour may be published.   *)
LEMMA ArtifactIsSound ==
    ASSUME NEW h \in Hours, NEW c \in Content, content'[h] = c, UNCHANGED store,
           Replayed(c, Input(h)) \/ Behind(h)
    PROVE  Sound(h, Artifact(c, Input(h)))'
BY DEF Sound, Artifact, Replayed, Input, Behind, Usable, Exists

LEMMA ProcessHourInv ==
    ASSUME ChainInv, NEW r \in Runs, ProcessHour(r)
    PROVE  ChainInv'
<1>0. PICK h \in Hours : h = run[r].target
  BY DEF ChainInv, Typed
<1>1. /\ UNCHANGED <<backend, priced, search, newest, late, build, store, file,
                     manifest, asked, faults>>
      /\ run[r].stage = "planned" /\ Typed
      /\ run[r].l2 = Absent /\ run[r].price = Absent
  <2>1. /\ UNCHANGED <<backend, priced, search, newest, late, build, store, file,
                       manifest, asked, faults>>
        /\ run[r].stage = "planned"
    BY DEF ProcessHour, chain, world, objects, upsets
  <2> QED
    BY <2>1 DEF ChainInv, Pending, Publishing
<1>2. PICK c \in IF content[h] = Unknown THEN Content ELSE {content[h]} :
        /\ content' = IF Exists(h) \/ h \in late THEN content
                      ELSE [content EXCEPT ![h] = c]
        /\ IF GivesUp(h, c) THEN Ends(r)
           ELSE IF Exists(h) /\ ~Unpriced(h) THEN Becomes(r, "done")
           ELSE run' = [run EXCEPT ![r].stage = "publish",
                  ![r].l2 = IF Exists(h) THEN Absent ELSE Artifact(c, Input(h)),
                  ![r].price = IF Unpriced(h) THEN [build |-> build] ELSE Absent]
  BY <1>0 DEF ProcessHour
<1>3. c \in Content /\ (content[h] \in Content => content[h] = c)
  BY <1>1, <1>2, NothingAssumption DEF Typed
<1>4. content' \in [Hours -> Content \union {Unknown}] /\ Grows
  BY <1>1, <1>2, <1>3 DEF Typed, Grows, chain
<1>5. ChainSound'
  BY <1>1, <1>4, ChainStays
<1>6. CASE GivesUp(h, c)
  BY <1>1, <1>2, <1>4, <1>6, EndsInv DEF ChainInv, Typed
<1>7. CASE ~GivesUp(h, c) /\ Exists(h) /\ ~Unpriced(h)
  <2>1. PICK new : new = [run[r] EXCEPT !.stage = "done"]
    OBVIOUS
  <2>2. /\ run' = [run EXCEPT ![r] = new]
        /\ new \in Invocation
        /\ new.stage = "done" /\ new.target = h /\ new.eligible = run[r].eligible
        /\ new.l2 = Absent /\ new.price = Absent
    BY <1>0, <1>1, <1>2, <1>7, <2>1 DEF Becomes, Typed, Invocation, Stage
  <2>3. Typed' /\ run'[r] = new /\ \A q \in Runs \ {r} : run'[q] = run[q]
    BY <1>0, <1>1, <1>4, <2>2, TypedRun DEF Typed
  <2>4. Pending(r)'
    BY <1>1, <1>7, <2>2, <2>3 DEF Pending, Publishing, Exists, Unpriced
  <2>5. Alone(r)'
    BY <1>1, <2>2, <2>3 DEF ChainInv, Alone
  <2>6. Planned(r)'
    BY <1>0, <1>1, <1>4, <2>2, <2>3, ItsTurnStays DEF ChainInv, Planned, Typed
  <2> QED
    BY <1>1, <1>4, <1>5, <2>2, <2>3, <2>4, <2>5, <2>6, OneRun, OthersIdle
<1>8. CASE ~GivesUp(h, c) /\ ~(Exists(h) /\ ~Unpriced(h))
  <2>0. PICK a, b : /\ a = IF Exists(h) THEN Absent ELSE Artifact(c, Input(h))
                    /\ b = IF Unpriced(h) THEN [build |-> build] ELSE Absent
    OBVIOUS
  <2>1. PICK new : new = [run[r] EXCEPT !.stage = "publish", !.l2 = a, !.price = b]
    OBVIOUS
  <2>2. /\ a \in Optional(L2) /\ b \in Optional(Price)
        /\ ~Exists(h) => a \in L2 /\ a # Absent
        /\ Unpriced(h) => b # Absent
    <3>1. Artifact(c, Input(h)) \in L2 /\ [build |-> build] \in Price
      <4>1. Input(h) \in BOOLEAN /\ build \in Nat
        BY <1>1 DEF Input, Typed
      <4>2. (Replayed(c, Input(h)) /\ c # "locked") \in BOOLEAN
        BY DEF Replayed
      <4> QED
        BY <4>1, <4>2 DEF Artifact, L2, Price
    <3> QED
      BY <2>0, <3>1, NothingAssumption DEF Optional
  <2>3. /\ run' = [run EXCEPT ![r] = new]
        /\ new \in Invocation
        /\ new.stage = "publish" /\ new.target = h /\ new.eligible = run[r].eligible
        /\ new.l2 = a /\ new.price = b
    BY <1>0, <1>1, <1>2, <1>8, <2>0, <2>1, <2>2 DEF Typed, Invocation, Stage
  <2>4. Typed' /\ run'[r] = new /\ \A q \in Runs \ {r} : run'[q] = run[q]
    BY <1>0, <1>1, <1>4, <2>3, TypedRun DEF Typed
  <2>5. Pending(r)'
    <3>1. a # Absent => Sound(h, a)'
      <4> SUFFICES ASSUME a # Absent PROVE Sound(h, a)'
        OBVIOUS
      <4>1. ~Exists(h) /\ a = Artifact(c, Input(h))
        BY <2>0
      <4>2. h \notin late /\ (Replayed(c, Input(h)) \/ Behind(h))
        BY <1>8, <4>1 DEF GivesUp
      <4>3. content'[h] = c
        BY <1>1, <1>2, <4>1, <4>2 DEF Typed
      <4>4. Sound(h, Artifact(c, Input(h)))'
        BY <1>1, <1>3, <4>2, <4>3, ArtifactIsSound
      <4>5. Artifact(c, Input(h))' = a
        BY <1>1, <4>1 DEF Artifact, Replayed, Input, Usable, Exists
      <4> QED
        BY <4>4, <4>5 DEF Sound, Replayed, Input, Behind, Usable, Exists
    <3>2. /\ a = Absent => Exists(h)
          /\ b = Absent => ~Unpriced(h)
      BY <2>2
    <3>3. a # Absent \/ b # Absent
      BY <1>8, <2>2
    <3> QED
      BY <1>1, <2>3, <2>4, <3>1, <3>2, <3>3 DEF Pending, Publishing, Exists, Unpriced
  <2>6. Alone(r)'
    <3>1. a # Absent => store[<<"l2", h>>] = Absent
      BY <2>0, <1>1 DEF Exists
    <3>2. b # Absent => store[<<"price", h>>] = Absent
      BY <2>0 DEF Unpriced
    <3> QED
      BY <1>1, <2>3, <2>4, <3>1, <3>2, OthersIdle DEF Alone
  <2>7. Planned(r)'
    BY <1>0, <1>1, <1>4, <2>3, <2>4, ItsTurnStays DEF ChainInv, Planned, Typed
  <2> QED
    BY <1>1, <1>4, <1>5, <2>3, <2>4, <2>5, <2>6, <2>7, OneRun, OthersIdle
<1> QED
  BY <1>6, <1>7, <1>8

-----------------------------------------------------------------------------
(* The object a run publishes next.                                          *)
LEMMA OwnIsTyped ==
    ASSUME ChainInv, NEW r \in Runs, run[r].stage \in Publishing
    PROVE  /\ Key(r) \in Keys /\ Own(r) \in Artifacts(Key(r))
           /\ Own(r) \in L2 \union Price /\ Own(r) # Absent
           /\ Key(r) = IF run[r].l2 # Absent THEN <<"l2", run[r].target>>
                       ELSE <<"price", run[r].target>>
           /\ run[r].l2 # Absent => Own(r) = run[r].l2
           /\ run[r].l2 = Absent => Own(r) = run[r].price /\ run[r].price # Absent
<1>1. run[r].target \in Hours /\ run[r].l2 \in Optional(L2) /\ run[r].price \in Optional(Price)
  BY DEF ChainInv, Typed
<1>2. run[r].l2 # Absent \/ run[r].price # Absent
  BY DEF ChainInv, Pending
<1>3. CASE run[r].l2 # Absent
  BY <1>1, <1>3, HourKeys, NothingAssumption DEF Key, Own, Artifacts, Optional
<1>4. CASE run[r].l2 = Absent
  BY <1>1, <1>2, <1>4, HourKeys, NothingAssumption DEF Key, Own, Artifacts, Optional
<1> QED
  BY <1>3, <1>4

(* A completed publication, of either backend.                               *)
LEMMA PublishedInv ==
    ASSUME ChainInv, NEW r \in Runs, run[r].stage \in Publishing,
           store[Key(r)] \in {Absent, Own(r)},
           store' = [store EXCEPT ![Key(r)] = Own(r)],
           Published(r),
           UNCHANGED <<chain, content, world, file, manifest, upsets>>
    PROVE  ChainInv'
<1>0. PICK h \in Hours : h = run[r].target
  BY DEF ChainInv, Typed
<1>1. /\ UNCHANGED <<backend, priced, search, content, newest, late, build, file,
                     manifest, asked, faults>>
      /\ Typed
  BY DEF chain, world, upsets, ChainInv
<1>2. PICK key, own : key = Key(r) /\ own = Own(r)
  OBVIOUS
<1>3. /\ key \in Keys /\ own \in Artifacts(key) /\ own \in L2 \union Price /\ own # Absent
      /\ key = IF run[r].l2 # Absent THEN <<"l2", h>> ELSE <<"price", h>>
      /\ run[r].l2 # Absent => own = run[r].l2
      /\ run[r].l2 = Absent => own = run[r].price /\ run[r].price # Absent
  BY <1>0, <1>2, OwnIsTyped
<1>4. /\ store' = [store EXCEPT ![key] = own] /\ store[key] \in {Absent, own}
      /\ store \in [Keys -> L2 \union Price \union {Absent}]
  BY <1>1, <1>2 DEF Typed
<1>5. /\ store' \in [Keys -> L2 \union Price \union {Absent}]
      /\ \A k \in Keys : store'[k] = IF k = key THEN own ELSE store[k]
  BY <1>3, <1>4
<1>6. /\ \A k \in Keys : store'[k] \in Optional(Artifacts(k))
      /\ \A k \in Keys : store[k] # Absent => store'[k] = store[k]
  BY <1>1, <1>3, <1>4, <1>5 DEF Typed, Optional
<1>7. Grows
  BY <1>1, <1>6 DEF Grows, chain
<1>8. PICK new : new = [run[r] EXCEPT
        !.stage = IF run[r].l2 # Absent /\ run[r].price # Absent THEN "publish" ELSE "done",
        !.l2 = Absent,
        !.price = IF run[r].l2 # Absent THEN run[r].price ELSE Absent]
  OBVIOUS
<1>9. /\ run' = [run EXCEPT ![r] = new]
      /\ new \in Invocation
      /\ new.stage = IF run[r].l2 # Absent /\ run[r].price # Absent THEN "publish" ELSE "done"
      /\ new.target = h /\ new.eligible = run[r].eligible
      /\ new.l2 = Absent
      /\ new.price = IF run[r].l2 # Absent THEN run[r].price ELSE Absent
  BY <1>0, <1>1, <1>8 DEF Published, Typed, Invocation, Stage, Optional
<1>10. Typed' /\ run'[r] = new /\ \A q \in Runs \ {r} : run'[q] = run[q]
  BY <1>0, <1>1, <1>5, <1>6, <1>9, TypedRun DEF Typed
<1>11. ChainSound'
  <2>1. ASSUME NEW g \in Hours, NEW a, store'[<<"l2", g>>] = a, a # Absent
        PROVE  Sound(g, a)'
    <3>1. Sound(g, a)
      <4>1. CASE Exists(g)
        <5>1. a = store[<<"l2", g>>]
          BY <2>1, <4>1, <1>6, HourKeys DEF Exists
        <5> QED
          BY <4>1, <5>1 DEF ChainInv, ChainSound
      <4>2. CASE ~Exists(g)
        <5>1. <<"l2", g>> = key
          BY <2>1, <4>2, <1>5, HourKeys DEF Exists
        <5>2. g = h /\ run[r].l2 # Absent /\ a = run[r].l2
          BY <2>1, <5>1, <1>3, <1>5
        <5> QED
          BY <1>0, <5>2 DEF ChainInv, Pending
      <4> QED
        BY <4>1, <4>2
    <3> QED
      BY <3>1, <1>1, <1>7, SoundStays
  <2> QED
    BY <2>1 DEF ChainSound, Exists, Sound
<1>12. /\ (Exists(h)' <=> store'[<<"l2", h>>] # Absent)
       /\ (Unpriced(h)' <=> priced /\ store'[<<"price", h>>] = Absent)
  BY <1>1 DEF Exists, Unpriced
<1>13. /\ run[r].l2 = Absent => Exists(h)
       /\ run[r].price = Absent => ~Unpriced(h)
  BY <1>0 DEF ChainInv, Pending
<1>14. /\ Exists(h)'
       /\ run[r].l2 = Absent \/ run[r].price = Absent => ~Unpriced(h)'
  <2>1. CASE run[r].l2 # Absent
    <3>1. Exists(h)'
      BY <2>1, <1>3, <1>5, <1>12
    <3>2. run[r].price = Absent => ~Unpriced(h)'
      BY <1>1, <1>7, <1>13, HoursGrow
    <3> QED
      BY <2>1, <3>1, <3>2
  <2>2. CASE run[r].l2 = Absent
    <3>1. Exists(h)'
      BY <2>2, <1>1, <1>7, <1>13, HoursGrow
    <3>2. ~Unpriced(h)'
      BY <2>2, <1>3, <1>5, <1>12
    <3> QED
      BY <3>1, <3>2
  <2> QED
    BY <2>1, <2>2
<1>15. Pending(r)'
  BY <1>9, <1>10, <1>14 DEF Pending, Publishing
<1>16. Alone(r)'
  <2>1. ASSUME backend = "backblaze_b2", new.price # Absent PROVE store'[<<"price", h>>] = Absent
    <3>1. run[r].l2 # Absent /\ run[r].price # Absent
      BY <2>1, <1>9
    <3>2. store[<<"price", h>>] = Absent
      BY <2>1, <3>1, <1>0 DEF ChainInv, Alone, Publishing
    <3> QED
      BY <3>1, <3>2, <1>3, <1>5, HourKeys
  <2>2. backend = "backblaze_b2" => \A q \in Runs \ {r} : run[q].stage = "idle"
    BY OthersIdle DEF Publishing
  <2> QED
    BY <2>1, <2>2, <1>1, <1>9, <1>10 DEF Alone
<1>17. Planned(r)'
  <2>1. Planned(r) /\ run[r].stage # "idle" /\ run[r].eligible \in Hours
    BY <1>1 DEF ChainInv, Publishing, Typed
  <2> QED
    BY <2>1, <1>0, <1>1, <1>7, <1>9, <1>10, ItsTurnStays DEF Planned
<1>18. run[r].stage # "idle" /\ new.stage # "stuck"
  BY <1>9 DEF Publishing
<1> QED
  BY <1>7, <1>10, <1>11, <1>15, <1>16, <1>17, <1>18, OthersIdle, OneRun

LEMMA CommitInv ==
    ASSUME ChainInv, NEW r \in Runs, Commit(r)
    PROVE  ChainInv'
<1>1. run[r].stage \in Publishing /\ run[r].stage # "idle"
  BY DEF Commit, Publishing
<1>2. CASE store[Key(r)] \in {Absent, Own(r)}
  BY <1>1, <1>2, PublishedInv DEF Commit
<1>3. CASE store[Key(r)] \notin {Absent, Own(r)}
  <2>1. UNCHANGED <<backend, priced, search, content, newest, late, build, store, file,
                    manifest, asked, faults>> /\ Ends(r)
    BY <1>3 DEF Commit, chain, world, upsets
  <2>2. Grows
    BY <2>1, NothingGrows DEF chain
  <2> QED
    BY <1>1, <2>1, <2>2, EndsInv DEF ChainInv, Typed
<1> QED
  BY <1>2, <1>3

LEMMA PutDescriptorInv ==
    ASSUME ChainInv, NEW r \in Runs, PutDescriptor(r)
    PROVE  ChainInv'
<1>1. /\ run[r].stage \in Publishing /\ run[r].stage # "idle"
      /\ backend = "backblaze_b2" /\ manifest[Key(r)] = Own(r)
  BY DEF PutDescriptor, Publishing, ChainInv, Alone
<1>2. store[Key(r)] = Absent
  BY <1>1, OwnIsTyped DEF ChainInv, Alone
<1> QED
  BY <1>1, <1>2, PublishedInv DEF PutDescriptor

(* The steps of a run that publish nothing: the run changes its stage.       *)
LEMMA BecomesInv ==
    ASSUME ChainInv, NEW r \in Runs, run[r].stage # "idle", NEW s \in Stage, s # "stuck",
           s # "idle", Becomes(r, s),
           UNCHANGED <<backend, priced, search, content, newest, late, build, store, asked, faults>>,
           file' \in [Keys -> L2 \union Price \union {Absent}],
           manifest' \in [Keys -> L2 \union Price \union {Absent}],
           \A k \in Keys : /\ file'[k] \in Optional(Artifacts(k))
                           /\ manifest'[k] \in Optional(Artifacts(k)),
           run[r].stage \in Publishing, s \in Publishing,
           s \in {"manifest", "descriptor"} => backend = "backblaze_b2",
           s = "descriptor" => manifest'[Key(r)] = Own(r)
    PROVE  ChainInv'
<1>1. PICK new : new = [run[r] EXCEPT !.stage = s]
  OBVIOUS
<1>2. /\ run' = [run EXCEPT ![r] = new] /\ new \in Invocation
      /\ new.stage = s /\ new.target = run[r].target /\ new.eligible = run[r].eligible
      /\ new.l2 = run[r].l2 /\ new.price = run[r].price
  BY <1>1 DEF Becomes, ChainInv, Typed, Invocation
<1>3. Typed' /\ run'[r] = new /\ \A q \in Runs \ {r} : run'[q] = run[q]
  BY <1>2, TypedRun DEF ChainInv, Typed
<1>4. Grows
  BY NothingGrows DEF chain, ChainInv, Typed
<1>5. ChainSound'
  BY <1>4, ChainStays
<1>6. run[r].target \in Hours /\ run[r].eligible \in Hours /\ Typed
  BY DEF ChainInv, Typed
<1>7. Pending(r)'
  <2>1. run[r].l2 # Absent => Sound(run[r].target, run[r].l2)
    BY DEF ChainInv, Pending
  <2>2. PICK h, a : h = run[r].target /\ a = run[r].l2
    OBVIOUS
  <2>3. a # Absent => Sound(h, a)'
    BY <2>1, <2>2, <1>4, <1>6, SoundStays
  <2> QED
    BY <1>2, <1>3, <2>2, <2>3 DEF ChainInv, Pending, Publishing, Exists, Unpriced, Sound
<1>8. Alone(r)'
  BY <1>2, <1>3 DEF ChainInv, Alone, Key, Own
<1>9. Planned(r)'
  <2>1. PICK h, n : h = run[r].target /\ n = run[r].eligible
    OBVIOUS
  <2> QED
    BY <1>2, <1>3, <1>4, <1>6, <2>1, ItsTurnStays DEF ChainInv, Planned
<1> QED
  BY <1>2, <1>3, <1>4, <1>5, <1>7, <1>8, <1>9, OthersIdle, OneRun

LEMMA PutFileInv ==
    ASSUME ChainInv, NEW r \in Runs, PutFile(r)
    PROVE  ChainInv'
<1>1. /\ run[r].stage \in Publishing /\ run[r].stage # "idle" /\ backend = "backblaze_b2"
      /\ UNCHANGED <<backend, priced, search, content, newest, late, build, store,
                     manifest, asked, faults>>
  BY DEF PutFile, Publishing, chain, world, upsets
<1>2. CASE {file[Key(r)], manifest[Key(r)]} \subseteq {Absent, Own(r)}
  <2>1. file' = [file EXCEPT ![Key(r)] = Own(r)] /\ Becomes(r, "manifest")
    BY <1>2 DEF PutFile
  <2>2. /\ file' \in [Keys -> L2 \union Price \union {Absent}]
        /\ \A k \in Keys : file'[k] \in Optional(Artifacts(k))
    BY <1>1, <2>1, OwnIsTyped DEF ChainInv, Typed, Optional
  <2> QED
    BY <1>1, <2>1, <2>2, BecomesInv DEF ChainInv, Typed, Publishing, Stage
<1>3. CASE ~({file[Key(r)], manifest[Key(r)]} \subseteq {Absent, Own(r)})
  <2>1. Ends(r) /\ UNCHANGED file
    BY <1>3 DEF PutFile
  <2>2. Grows
    BY <1>1, NothingGrows DEF chain
  <2> QED
    BY <1>1, <2>1, <2>2, EndsInv DEF ChainInv, Typed
<1> QED
  BY <1>2, <1>3

LEMMA PutManifestInv ==
    ASSUME ChainInv, NEW r \in Runs, PutManifest(r)
    PROVE  ChainInv'
<1>1. /\ run[r].stage \in Publishing /\ run[r].stage # "idle" /\ backend = "backblaze_b2"
      /\ UNCHANGED <<backend, priced, search, content, newest, late, build, store,
                     file, asked, faults>>
      /\ manifest' = [manifest EXCEPT ![Key(r)] = Own(r)] /\ Becomes(r, "descriptor")
  BY DEF PutManifest, Publishing, chain, world, upsets, ChainInv, Alone
<1>2. /\ manifest' \in [Keys -> L2 \union Price \union {Absent}]
      /\ \A k \in Keys : manifest'[k] \in Optional(Artifacts(k))
      /\ manifest'[Key(r)] = Own(r)
  BY <1>1, OwnIsTyped DEF ChainInv, Typed, Optional
<1> QED
  BY <1>1, <1>2, BecomesInv DEF ChainInv, Typed, Publishing, Stage

-----------------------------------------------------------------------------
LEMMA ReplanInv ==
    ASSUME ChainInv, NEW r \in Runs, Replan(r)
    PROVE  ChainInv'
<1>0. PICK t \in Hours, n \in Hours : t = run[r].target /\ n = run[r].eligible
  BY DEF ChainInv, Typed
<1>1. /\ UNCHANGED <<backend, priced, search, content, newest, late, build, store, file,
                     manifest, asked, faults>>
      /\ run[r].stage = "done" /\ t # n /\ Typed
  BY <1>0 DEF Replan, chain, world, objects, upsets, ChainInv
<1>2. t < n /\ n =< newest
  <2>1. t =< n /\ n =< newest
    BY <1>0 DEF ChainInv, Typed
  <2> QED
    BY <2>1, <1>1, HoursAssumption DEF Hours
<1>3. Grows /\ ChainSound'
  BY <1>1, NothingGrows, ChainStays DEF chain
<1>4. CASE Candidates(n) = {}
  <2>1. Ends(r)
    BY <1>0, <1>4 DEF Replan
  <2> QED
    BY <1>1, <1>3, <2>1, EndsInv DEF ChainInv, Typed
<1>5. CASE Candidates(n) # {}
  <2>1. /\ Plan(n) \in Candidates(n) /\ Plan(n) \in Hours /\ Plan(n) =< n
        /\ ItsTurn(n, Plan(n))
    BY <1>1, <1>5, PlanIsInTurn
  <2>2. ItsTurn(n, t) /\ Closed(t)
    BY <1>0, <1>1 DEF ChainInv, Planned, Pending, Closed
  <2>3. t < Plan(n)
    BY <1>1, <1>2, <2>1, <2>2, PlanAdvances
  <2>4. Starts(r, Plan(n), n)
    <3>1. ~(Plan(n) =< t)
      BY <2>1, <2>3, HoursAssumption DEF Hours
    <3> QED
      BY <1>0, <1>5, <3>1 DEF Replan
  <2>5. PICK new : new = [run[r] EXCEPT !.stage = "planned", !.target = Plan(n), !.eligible = n]
    OBVIOUS
  <2>6. /\ run' = [run EXCEPT ![r] = new]
        /\ new \in Invocation
        /\ new.stage = "planned" /\ new.target = Plan(n) /\ new.eligible = n
        /\ new.l2 = Absent /\ new.price = Absent
    BY <1>1, <2>1, <2>4, <2>5
       DEF Starts, ChainInv, Typed, Pending, Publishing, Invocation, Stage
  <2>7. Typed' /\ run'[r] = new /\ \A q \in Runs \ {r} : run'[q] = run[q]
    BY <1>1, <1>2, <2>1, <2>6, TypedRun DEF Typed
  <2>8. Pending(r)'
    BY <2>6, <2>7 DEF Pending, Publishing
  <2>9. Alone(r)'
    BY <1>1, <2>6, <2>7, OthersIdle DEF Alone
  <2>10. Planned(r)'
    BY <1>1, <1>3, <2>1, <2>6, <2>7, ItsTurnStays DEF Planned
  <2> QED
    BY <1>1, <1>3, <2>6, <2>7, <2>8, <2>9, <2>10, OthersIdle, OneRun
<1> QED
  BY <1>4, <1>5

LEMMA FinishInv ==
    ASSUME ChainInv, NEW r \in Runs, Finish(r) \/ Interrupted(r)
    PROVE  ChainInv'
<1>1. /\ UNCHANGED <<backend, priced, search, content, newest, late, build, store, file,
                     manifest, asked>>
      /\ run[r].stage # "idle" /\ Ends(r) /\ faults' \in {faults, faults + 1}
  BY DEF Finish, Interrupted, chain, world, objects, upsets
<1>2. faults' \in Nat
  BY <1>1 DEF ChainInv, Typed
<1>3. Grows
  BY <1>1, NothingGrows DEF chain
<1> QED
  BY <1>1, <1>2, <1>3, EndsInv DEF ChainInv, Typed

(* The world goes on: releases, served hours and deployments.                *)
LEMMA WorldInv ==
    ASSUME ChainInv, UNCHANGED <<chain, content, objects, run, upsets>>,
           newest' \in Hours, newest =< newest', late' \in SUBSET Hours, build' \in Nat
    PROVE  ChainInv'
<1>1. UNCHANGED <<backend, priced, search, store, file, manifest, asked, faults>>
  BY DEF chain, objects, upsets
<1>2. Typed'
  <2>1. \A r \in Runs : run[r].target =< run[r].eligible /\ run[r].eligible =< newest'
    <3>1. \A r \in Runs : run[r].eligible \in Nat /\ newest \in Nat /\ newest' \in Nat
      BY HoursAssumption DEF ChainInv, Typed, Hours
    <3> QED
      BY <3>1 DEF ChainInv, Typed
  <2> QED
    BY <1>1, <2>1 DEF ChainInv, Typed
<1>3. Grows /\ ChainSound'
  BY <1>1, NothingGrows, ChainStays
<1>4. ASSUME NEW r \in Runs PROVE Pending(r)' /\ Alone(r)' /\ Planned(r)'
  <2>1. PICK h, n, a : /\ h \in Hours /\ h = run[r].target
                       /\ n \in Hours /\ n = run[r].eligible
                       /\ a = run[r].l2
    BY DEF ChainInv, Typed
  <2>2. a # Absent => Sound(h, a)'
    BY <2>1, <1>3, SoundStays DEF ChainInv, Pending
  <2>3. Pending(r)'
    BY <1>1, <2>1, <2>2 DEF ChainInv, Pending, Publishing, Exists, Unpriced
  <2>4. Alone(r)'
    BY <1>1 DEF ChainInv, Alone, Key, Own
  <2>5. Planned(r)'
    BY <1>1, <1>3, <2>1, ItsTurnStays DEF ChainInv, Planned
  <2> QED
    BY <2>3, <2>4, <2>5
<1>5. RunsAdvance'
  BY DEF ChainInv, RunsAdvance
<1> QED
  BY <1>2, <1>3, <1>4, <1>5 DEF ChainInv

LEMMA NextInv == ChainInv /\ [Next]_vars => ChainInv'
<1> SUFFICES ASSUME ChainInv, [Next]_vars PROVE ChainInv'
  OBVIOUS
<1>0. newest \in Nat /\ build \in Nat /\ newest =< newest /\ Typed
  BY HoursAssumption DEF ChainInv, Typed, Hours
<1>1. ASSUME NEW r \in Runs, StartCatchUp(r) \/ (\E h \in Hours : StartHour(r, h))
      PROVE  ChainInv'
  BY <1>1, StartCatchUpInv, StartHourInv
<1>2. ASSUME NEW r \in Runs, Step(r) PROVE ChainInv'
  BY <1>2, ProcessHourInv, CommitInv, PutFileInv, PutManifestInv, PutDescriptorInv DEF Step
<1>3. ASSUME NEW r \in Runs, Replan(r) \/ Finish(r) \/ Interrupted(r) PROVE ChainInv'
  BY <1>3, ReplanInv, FinishInv
<1>4. ASSUME Release PROVE ChainInv'
  <2>1. newest' \in Hours /\ newest =< newest'
    BY <1>0, <1>4, HoursAssumption DEF Release, Hours
  <2> QED
    BY <1>0, <1>4, <2>1, WorldInv DEF Release, Typed
<1>5. ASSUME NEW h \in Hours, Serve(h) PROVE ChainInv'
  BY <1>0, <1>5, WorldInv DEF Serve, Typed
<1>6. ASSUME Deploy PROVE ChainInv'
  BY <1>0, <1>6, WorldInv DEF Deploy, Typed
<1>7. ASSUME UNCHANGED vars PROVE ChainInv'
  BY <1>0, <1>7, WorldInv DEF vars, world, Typed
<1> QED
  BY <1>1, <1>2, <1>3, <1>4, <1>5, <1>6, <1>7 DEF Next

-----------------------------------------------------------------------------
(* A run that has an hour to publish has it in its turn.                     *)
LEMMA InOrder ==
    ASSUME ChainInv, NEW r \in Runs
    PROVE  PublishesInOrder(r)
<1>0. PICK j \in Hours, n \in Hours : j = run[r].target /\ n = run[r].eligible
  BY DEF ChainInv, Typed
<1> SUFFICES ASSUME asked = 0 \/ j < n, run[r].l2 # Absent, ~Exists(j),
                    NEW i \in Window(n), NEW k \in Hours, i < k, k < j, Usable(i)
             PROVE  Exists(k) \/ \E u \in Hours : k < u /\ u < j /\ Usable(u)
  BY <1>0 DEF PublishesInOrder
<1>1. run[r].stage # "idle"
  BY DEF ChainInv, Pending, Publishing
<1>2. /\ Typed /\ j \in Nat /\ n \in Nat /\ k \in Nat /\ asked \in Nat
      /\ i \in Nat /\ First(n) \in Nat /\ First(n) =< i /\ i =< n /\ j =< n
      /\ Window(n) = First(n) .. n /\ Window(n) \subseteq Hours
  <2>1. Typed /\ asked \in Nat /\ j =< n
    BY <1>0 DEF ChainInv, Typed
  <2>2. /\ Window(n) = First(n) .. n /\ Window(n) \subseteq Hours
        /\ First(n) \in Hours
    BY <2>1, WindowIsOfHours
  <2> QED
    BY <2>1, <2>2, HoursAssumption DEF Hours
<1>3. ItsTurn(n, j)
  BY <1>0, <1>1, <1>2 DEF ChainInv, Planned
<1>4. PICK u \in Window(n) : /\ u =< j
                             /\ u = First(n) \/ Usable(u)
                             /\ \A g \in Window(n) : u =< g /\ g < j => Closed(g)
  BY <1>3 DEF ItsTurn
<1>5. CASE u =< k
  <2>1. k \in Window(n)
    BY <1>2
  <2> QED
    BY <2>1, <1>4, <1>5 DEF Closed
<1>6. CASE k < u
  <2>1. u # First(n) /\ u \in Hours
    BY <1>2, <1>6
  <2>2. Usable(u) /\ u # j
    BY <2>1, <1>4 DEF Usable
  <2>3. u < j
    BY <2>1, <2>2, <1>2, <1>4
  <2> QED
    BY <1>6, <2>1, <2>2, <2>3
<1> QED
  BY <1>2, <1>5, <1>6

LEMMA StoreGrows ==
    ASSUME ChainInv, [Next]_vars
    PROVE  \A k \in Keys : store[k] # Absent => store'[k] = store[k]
<1>1. ASSUME NEW r \in Runs, Commit(r) \/ PutDescriptor(r)
      PROVE  \A k \in Keys : store[k] # Absent => store'[k] = store[k]
  <2>1. \/ UNCHANGED store
        \/ /\ store' = [store EXCEPT ![Key(r)] = Own(r)]
           /\ store[Key(r)] \in {Absent, Own(r)}
    <3>1. CASE Commit(r)
      BY <3>1 DEF Commit
    <3>2. CASE PutDescriptor(r)
      <4>1. /\ run[r].stage \in Publishing /\ run[r].stage # "idle"
            /\ backend = "backblaze_b2" /\ manifest[Key(r)] = Own(r)
        BY <3>2 DEF PutDescriptor, Publishing, ChainInv, Alone
      <4>2. store[Key(r)] = Absent
        BY <4>1, OwnIsTyped DEF ChainInv, Alone
      <4> QED
        BY <3>2, <4>1, <4>2 DEF PutDescriptor
    <3> QED
      BY <1>1, <3>1, <3>2
  <2> QED
    BY <2>1 DEF ChainInv, Typed
<1>2. CASE \E r \in Runs : Commit(r) \/ PutDescriptor(r)
  BY <1>1, <1>2
<1>3. CASE ~ \E r \in Runs : Commit(r) \/ PutDescriptor(r)
  BY <1>3 DEF Next, vars, objects, Step, StartCatchUp, StartHour, ProcessHour, PutFile,
     PutManifest, Replan, Finish, Interrupted, Release, Serve, Deploy
<1> QED
  BY <1>2, <1>3

-----------------------------------------------------------------------------
LEMMA ChainInvariant == Spec => []ChainInv
<1>1. Init => ChainInv
  BY InitInv
<1>2. ChainInv /\ [Next]_vars => ChainInv'
  BY NextInv
<1> QED
  BY <1>1, <1>2, PTL DEF Spec

(* Every variable of the chain, its storage and its runs keeps its type, and *)
(* no run works past the release boundary (remote_worker.py).                *)
THEOREM TypeCorrect == Spec => []TypeOK
<1>1. ChainInv => TypeOK
  BY DEF ChainInv, Typed, TypeOK, Optional, Artifacts
<1> QED
  BY <1>1, ChainInvariant, PTL

(* process_remote_catch_up never raises "did not advance", and every         *)
(* published hour is what its archive and the published checkpoint before it *)
(* come to, whichever runs overlapped, failed or were given their hour.      *)
THEOREM CatchUpSound == Spec => []CatchUpIsSound
<1>1. ChainInv => CatchUpIsSound
  BY DEF ChainInv, ChainSound, Sound, CatchUpIsSound, ChainIsSound
<1> QED
  BY <1>1, ChainInvariant, PTL

(* The storage is append-only, and a catch-up run publishes an hour only with *)
(* every hour there since the usable one it continues.                       *)
THEOREM StoreInOrder == Spec => StoreGrowsInOrder
<1>1. ChainInv /\ [Next]_vars =>
        /\ \A k \in Keys : store[k] # Absent => store'[k] = store[k]
        /\ \A r \in Runs : PublishesInOrder(r)
  BY StoreGrows, InOrder
<1> QED
  BY <1>1, ChainInvariant, PTL DEF Spec, StoreGrowsInOrder
================================================================================
