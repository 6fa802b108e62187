--------------------------- MODULE ApplicationProofs ---------------------------
(***************************************************************************)
(* For every set of owners of the operation lock: exclusive work is of one   *)
(* owner, what is reserved has a live owner, and the engine is disposed only *)
(* when nothing can use it. For every length of the window, any number of    *)
(* hours, presses, restarts and faults: Stop is final, and the rotation       *)
(* through the incomplete hours of a window passes no hour over. For any      *)
(* number of files, runs, faults and deaths: what a fetch run leaves behind   *)
(* says what happened.                                                       *)
(***************************************************************************)
EXTENDS Application, FiniteSetTheorems, WellFoundedInduction, TLAPS

(* What the application does, each of its parts does or sleeps through.       *)
LEMMA AdmissionInside == (AppInit => Init) /\ ([AppNext]_all => [Next]_vars)
BY DEF AppInit, AppNext, all

LEMMA PollingInside ==
    (AppInit => Polling!Init) /\ ([AppNext]_all => [Polling!Next]_Polling!vars)
BY DEF AppInit, AppNext, all, automaticVars, Polling!vars

LEMMA FetchingInside ==
    (AppInit => Fetching!Init) /\ ([AppNext]_all => [Fetching!Next]_Fetching!vars)
BY DEF AppInit, AppNext, all, fetchVars, Fetching!vars

-----------------------------------------------------------------------------
(* The order of the stages, as facts.                                       *)
LEMMA StageNames ==
    Stages = {"automatic_fetch", "manual_fetch", "remote_import", "manual_processing",
              "manual_analysis_load", "lock", "tasks", "readers", "decide"}
BY DEF Stages, StageOrder

LEMMA StageAfter ==
    /\ After("automatic_fetch") = "manual_fetch"
    /\ After("manual_fetch") = "remote_import"
    /\ After("remote_import") = "manual_processing"
    /\ After("manual_processing") = "manual_analysis_load"
    /\ After("manual_analysis_load") = "lock"
    /\ After("lock") = "tasks"
    /\ After("tasks") = "readers"
    /\ After("readers") = "decide"
<1> DEFINE At(s) == CHOOSE i \in DOMAIN StageOrder : StageOrder[i] = s
<1>1. DOMAIN StageOrder = 1 .. 9
  BY DEF StageOrder
<1>2. /\ StageOrder[1] = "automatic_fetch" /\ StageOrder[2] = "manual_fetch"
      /\ StageOrder[3] = "remote_import" /\ StageOrder[4] = "manual_processing"
      /\ StageOrder[5] = "manual_analysis_load" /\ StageOrder[6] = "lock"
      /\ StageOrder[7] = "tasks" /\ StageOrder[8] = "readers" /\ StageOrder[9] = "decide"
  BY DEF StageOrder
<1>3. \A i, j \in 1 .. 9 : StageOrder[i] = StageOrder[j] => i = j
  BY <1>2
<1>4. \A i \in 1 .. 9 : At(StageOrder[i]) = i
  BY <1>1, <1>3
<1>5. \A i \in 1 .. 9 : After(StageOrder[i]) = StageOrder[i + 1]
  BY <1>4 DEF After
<1> QED
  BY <1>2, <1>5

-----------------------------------------------------------------------------
(* The inductive invariant.                                                 *)

(* Who holds the name and the lock. The name is of the one owner that works; *)
(* a task of the other owners has it from its creation, the automatic loop   *)
(* only around an attempt.                                                  *)
Reserved ==
    /\ \A o \in Owners : task[o] = "running" /\ phase[o] = "exclusive" => name = o
    /\ \A o \in Owners \ {AutoLoop} : IsRunning(o) => name = o
    /\ name # Nobody => task[name] # "none"
    /\ name = AutoLoop => task[AutoLoop] = "running" /\ phase[AutoLoop] = "exclusive"
    /\ lock # Nobody => task[lock] = "running"
    /\ "settings" \in Owners => /\ task["settings"] \in {"none", "running"}
                                /\ task["settings"] = "running" => lock = "settings"

(* A worker thread has a task that waits for it.                             *)
Joined == \A o \in thread : task[o] = "running"

(* The stages an owner's own stage comes before.                             *)
Later(o) ==
    CASE o = "automatic_fetch" -> Stages \ {"automatic_fetch"}
      [] o = "manual_fetch" -> Stages \ {"automatic_fetch", "manual_fetch"}
      [] o = "remote_import" -> Stages \ {"automatic_fetch", "manual_fetch", "remote_import"}
      [] o = "manual_processing" -> {"manual_analysis_load", "lock", "tasks", "readers", "decide"}
      [] o = "manual_analysis_load" -> {"lock", "tasks", "readers", "decide"}
      [] o = "settings" -> {"tasks", "readers", "decide"}

(* What a shutdown that proved everything so far has left behind.            *)
Proved ==
    /\ shut.stage # "idle" \/ shut.complete => shut.started
    /\ shut.complete => shut.stage = "idle"
    /\ ~shut.unproved => \A o \in Owners : shut.stage \in Later(o) => ~IsRunning(o)
    /\ ~shut.unproved /\ shut.stage = "decide" => readers = {}
    /\ shut.complete => readers = {} /\ \A o \in Owners : ~IsRunning(o)

AdmissionInv == TypeOK /\ Reserved /\ Joined /\ Proved

-----------------------------------------------------------------------------
LEMMA NobodyOwns == Nobody \notin Owners
BY OwnersAssumption DEF Nobody, AllOwners, Manual

LEMMA InitInv == Init => AdmissionInv
<1> SUFFICES ASSUME Init PROVE AdmissionInv
  OBVIOUS
<1>1. TypeOK
  BY StageNames, BoundsAssumption DEF Init, TypeOK
<1>2. Reserved /\ Joined /\ Proved
  BY OwnersAssumption DEF Init, Reserved, Joined, Proved, IsRunning, AllOwners, Manual, Nobody,
     AutoLoop
<1> QED
  BY <1>1, <1>2 DEF AdmissionInv

(* An owner that leaves gives back what it has, whatever the shutdown does.  *)
LEMMA LeaveInv ==
    ASSUME AdmissionInv, NEW o \in Owners, Leave(o), UNCHANGED <<readers, shut>>
    PROVE  AdmissionInv'
<1>1. TypeOK'
  BY BoundsAssumption DEF AdmissionInv, TypeOK, Leave
<1>2. Reserved'
  BY DEF AdmissionInv, TypeOK, Reserved, Leave, IsRunning, Nobody, AutoLoop
<1>3. Joined'
  BY DEF AdmissionInv, TypeOK, Joined, Leave
<1>4. \A p \in Owners : IsRunning(p)' => IsRunning(p)
  BY DEF AdmissionInv, TypeOK, Leave, IsRunning
<1>5. Proved'
  BY <1>4 DEF AdmissionInv, Proved
<1> QED
  BY <1>1, <1>2, <1>3, <1>5 DEF AdmissionInv

(* A task is created only while no shutdown has begun, under the name.       *)
LEMMA ReserveInv ==
    ASSUME AdmissionInv, NEW o \in Owners \ {AutoLoop, "settings"}, ~IsRunning(o), Reserve(o)
    PROVE  AdmissionInv'
<1>1. TypeOK'
  BY DEF AdmissionInv, TypeOK, Reserve
<1>2. Reserved'
  BY NobodyOwns DEF AdmissionInv, TypeOK, Reserved, Reserve, IsRunning
<1>3. Joined'
  BY DEF AdmissionInv, TypeOK, Joined, Reserve, IsRunning
<1>4. Proved'
  <2>1. ~shut.complete /\ shut.stage = "idle"
    BY DEF AdmissionInv, Proved, Reserve
  <2>2. \A p \in Owners : shut.stage \notin Later(p)
    BY <2>1, StageNames, OwnersAssumption DEF Later, AllOwners, Manual
  <2> QED
    BY <2>1, <2>2 DEF Proved, Reserve
<1> QED
  BY <1>1, <1>2, <1>3, <1>4 DEF AdmissionInv

(* The steps of one owner's task that leave the shutdown and the readers      *)
(* alone: it runs afterwards only if it was there before.                    *)
LEMMA ProvedOfTasks ==
    ASSUME AdmissionInv, UNCHANGED <<readers, shut>>,
           \A o \in Owners : IsRunning(o)' => IsRunning(o)
    PROVE  Proved'
BY DEF AdmissionInv, Proved

LEMMA StartsInv == AdmissionInv /\ Starts => AdmissionInv'
<1> SUFFICES ASSUME AdmissionInv, Starts PROVE AdmissionInv'
  OBVIOUS
<1>1. PICK o \in Manual : Reserve(o) /\ ~IsRunning(o)
  BY DEF Starts, StartFetch, StartImport, StartProcessing, StartAnalysis, Manual, IsRunning
<1>2. o \in Owners \ {AutoLoop, "settings"}
  BY <1>1 DEF Reserve, Manual, AutoLoop
<1> QED
  BY <1>1, <1>2, ReserveInv

LEMMA UnenteredInv ==
    ASSUME AdmissionInv, NEW o \in Owners, o # "settings", Unentered(o)
    PROVE  AdmissionInv'
<1>1. TypeOK'
  BY DEF AdmissionInv, TypeOK, Unentered
<1>2. Reserved'
  BY DEF AdmissionInv, TypeOK, Reserved, Unentered, IsRunning, Nobody, AutoLoop
<1>3. Joined'
  BY DEF AdmissionInv, TypeOK, Joined, Unentered
<1>4. Proved'
  BY ProvedOfTasks DEF AdmissionInv, TypeOK, Unentered, IsRunning
<1> QED
  BY <1>1, <1>2, <1>3, <1>4 DEF AdmissionInv

LEMMA EnterInv ==
    ASSUME AdmissionInv, NEW o \in Owners \cap Manual, Enter(o)
    PROVE  AdmissionInv'
<1>1. CASE Leave(o) /\ UNCHANGED <<readers, shut>>
  BY <1>1, LeaveInv
<1>2. CASE ~Leave(o)
  <2>1. PICK n \in 0 .. MaxCalls - 1 :
          /\ task[o] = "scheduled" /\ lock = Nobody /\ lock' = o
          /\ task' = [task EXCEPT ![o] = "running"]
          /\ Call(o, n, "exclusive")
          /\ UNCHANGED <<name, stop, cancelled, readers, shut>>
    BY <1>2 DEF Enter
  <2>2. TypeOK'
    BY <2>1, BoundsAssumption DEF AdmissionInv, TypeOK, Call
  <2>3. Reserved'
    BY <2>1 DEF AdmissionInv, TypeOK, Reserved, Call, IsRunning, Nobody, AutoLoop, Manual
  <2>4. Joined'
    BY <2>1 DEF AdmissionInv, TypeOK, Joined, Call
  <2>5. Proved'
    BY <2>1, ProvedOfTasks DEF AdmissionInv, TypeOK, IsRunning
  <2> QED
    BY <2>2, <2>3, <2>4, <2>5 DEF AdmissionInv
<1> QED
  BY <1>1, <1>2 DEF Enter

LEMMA ResumeInv ==
    ASSUME AdmissionInv, NEW o \in Owners \cap Manual, Resume(o)
    PROVE  AdmissionInv'
<1>1. CASE Leave(o) /\ UNCHANGED <<readers, shut>>
  BY <1>1, LeaveInv
<1>2. CASE ~Leave(o)
  <2>1. PICK n \in 0 .. MaxCalls :
          /\ task[o] = "running" /\ Call(o, n, "exclusive")
          /\ UNCHANGED <<name, lock, task, stop, cancelled, readers, shut>>
    BY <1>2, BoundsAssumption DEF Resume, AdmissionInv, TypeOK
  <2>2. TypeOK'
    BY <2>1 DEF AdmissionInv, TypeOK, Call
  <2>3. Reserved'
    BY <2>1 DEF AdmissionInv, TypeOK, Reserved, Call, IsRunning, Nobody, AutoLoop, Manual
  <2>4. Joined'
    BY <2>1 DEF AdmissionInv, TypeOK, Joined, Call
  <2>5. Proved'
    BY <2>1, ProvedOfTasks DEF IsRunning
  <2> QED
    BY <2>2, <2>3, <2>4, <2>5 DEF AdmissionInv
<1> QED
  BY <1>1, <1>2 DEF Resume

(* What a manual operation does.                                            *)
LEMMA OperationInv ==
    ASSUME AdmissionInv, NEW o \in Owners \cap Manual, Operation(o)
    PROVE  AdmissionInv'
<1>1. o # "settings"
  BY DEF Manual
<1> QED
  BY <1>1, UnenteredInv, EnterInv, ResumeInv, LeaveInv DEF Operation, Finalize

(* A thread that ends, and a stop that is asked for, change no reservation.  *)
LEMMA ThreadEndsInv ==
    ASSUME AdmissionInv, NEW o \in Owners, ThreadEnds(o)
    PROVE  AdmissionInv'
BY DEF AdmissionInv, TypeOK, Reserved, Joined, Proved, ThreadEnds, IsRunning

LEMMA RequestStopInv ==
    ASSUME AdmissionInv, NEW o \in Owners, RequestStop(o)
    PROVE  AdmissionInv'
BY DEF AdmissionInv, TypeOK, Reserved, Joined, Proved, RequestStop, IsRunning

-----------------------------------------------------------------------------
(* Settings: the refresh of the presets is the one reader that starts during *)
(* a shutdown, while the lock is still held.                                *)
LEMMA SettingsInv == AdmissionInv /\ Settings => AdmissionInv'
<1> SUFFICES ASSUME AdmissionInv, Settings PROVE AdmissionInv'
  OBVIOUS
<1>1. CASE SettingsStart
  <2>1. PICK n \in {0, 1} : Call("settings", n, "exclusive")
    BY <1>1 DEF SettingsStart
  <2>2. TypeOK'
    BY <1>1, <2>1, BoundsAssumption DEF AdmissionInv, TypeOK, SettingsStart, Call
  <2>3. Reserved'
    BY <1>1, <2>1, NobodyOwns DEF AdmissionInv, TypeOK, Reserved, SettingsStart, Call, IsRunning,
       AutoLoop
  <2>4. Joined'
    BY <1>1, <2>1 DEF AdmissionInv, TypeOK, Joined, SettingsStart, Call
  <2>5. Proved'
    <3>1. ~shut.complete /\ shut.stage = "idle"
      BY <1>1 DEF AdmissionInv, Proved, SettingsStart
    <3>2. \A p \in Owners : shut.stage \notin Later(p)
      BY <3>1, StageNames, OwnersAssumption DEF Later, AllOwners, Manual
    <3> QED
      BY <1>1, <3>1, <3>2 DEF Proved, SettingsStart
  <2> QED
    BY <2>2, <2>3, <2>4, <2>5 DEF AdmissionInv
<1>2. CASE SettingsRefresh
  <2>1. TypeOK'
    BY <1>2, BoundsAssumption DEF AdmissionInv, TypeOK, SettingsRefresh, Readers
  <2>2. Reserved' /\ Joined'
    BY <1>2 DEF AdmissionInv, Reserved, Joined, SettingsRefresh, IsRunning
  <2>3. Proved'
    BY <1>2 DEF AdmissionInv, Proved, SettingsRefresh, IsRunning, Later
  <2> QED
    BY <2>1, <2>2, <2>3 DEF AdmissionInv
<1>3. CASE SettingsEnd
  BY <1>3, LeaveInv DEF SettingsEnd
<1>4. CASE SettingsCancelled
  BY <1>4 DEF AdmissionInv, TypeOK, Reserved, Joined, Proved, SettingsCancelled, IsRunning
<1> QED
  BY <1>1, <1>2, <1>3, <1>4 DEF Settings

-----------------------------------------------------------------------------
(* The automatic loop.                                                      *)
LEMMA AutomaticInv == AdmissionInv /\ Automatic => AdmissionInv'
<1> SUFFICES ASSUME AdmissionInv, Automatic PROVE AdmissionInv'
  OBVIOUS
<1>1. CASE AutoStart
  <2>1. TypeOK'
    BY <1>1 DEF AdmissionInv, TypeOK, AutoStart
  <2>2. Reserved'
    BY <1>1, NobodyOwns DEF AdmissionInv, TypeOK, Reserved, AutoStart, IsRunning, AutoLoop, Nobody
  <2>3. Joined'
    BY <1>1 DEF AdmissionInv, TypeOK, Joined, AutoStart, IsRunning
  <2>4. Proved'
    <3>1. ~shut.complete /\ shut.stage = "idle"
      BY <1>1 DEF AdmissionInv, Proved, AutoStart
    <3>2. \A p \in Owners : shut.stage \notin Later(p)
      BY <3>1, StageNames, OwnersAssumption DEF Later, AllOwners, Manual
    <3> QED
      BY <1>1, <3>1, <3>2 DEF Proved, AutoStart
  <2> QED
    BY <2>1, <2>2, <2>3, <2>4 DEF AdmissionInv
<1>2. CASE AutoPoll
  <2>1. TypeOK'
    BY <1>2, BoundsAssumption DEF AdmissionInv, TypeOK, AutoPoll, Call
  <2>2. Reserved'
    BY <1>2, NobodyOwns DEF AdmissionInv, TypeOK, Reserved, AutoPoll, Call, IsRunning, AutoLoop
  <2>3. Joined'
    BY <1>2 DEF AdmissionInv, TypeOK, Joined, AutoPoll, Call
  <2>4. Proved'
    BY <1>2, ProvedOfTasks DEF AdmissionInv, TypeOK, AutoPoll, Call, IsRunning
  <2> QED
    BY <2>1, <2>2, <2>3, <2>4 DEF AdmissionInv
<1>3. CASE AutoAttempt
  <2>1. TypeOK'
    BY <1>3, BoundsAssumption DEF AdmissionInv, TypeOK, AutoAttempt, Call
  <2>2. Reserved'
    BY <1>3, NobodyOwns DEF AdmissionInv, TypeOK, Reserved, AutoAttempt, Call, IsRunning, AutoLoop
  <2>3. Joined'
    BY <1>3 DEF AdmissionInv, TypeOK, Joined, AutoAttempt, Call
  <2>4. Proved'
    BY <1>3, ProvedOfTasks DEF AutoAttempt, IsRunning
  <2> QED
    BY <2>1, <2>2, <2>3, <2>4 DEF AdmissionInv
<1>4. CASE AutoFetch
  <2>1. TypeOK'
    BY <1>4, BoundsAssumption DEF AdmissionInv, TypeOK, AutoFetch, Call
  <2>2. Reserved'
    BY <1>4, NobodyOwns DEF AdmissionInv, TypeOK, Reserved, AutoFetch, Call, IsRunning, AutoLoop
  <2>3. Joined'
    BY <1>4 DEF AdmissionInv, TypeOK, Joined, AutoFetch, Call
  <2>4. Proved'
    BY <1>4, ProvedOfTasks DEF AutoFetch, IsRunning
  <2> QED
    BY <2>1, <2>2, <2>3, <2>4 DEF AdmissionInv
<1>5. CASE AutoRest
  <2>1. TypeOK'
    BY <1>5, BoundsAssumption DEF AdmissionInv, TypeOK, AutoRest
  <2>2. Reserved'
    BY <1>5, NobodyOwns DEF AdmissionInv, TypeOK, Reserved, AutoRest, IsRunning, AutoLoop
  <2>3. Joined'
    BY <1>5 DEF AdmissionInv, TypeOK, Joined, AutoRest
  <2>4. Proved'
    BY <1>5, ProvedOfTasks DEF AutoRest, IsRunning
  <2> QED
    BY <2>1, <2>2, <2>3, <2>4 DEF AdmissionInv
<1>6. CASE AutoLeave
  BY <1>6, LeaveInv DEF AutoLeave
<1>7. CASE AutoLoop \in Owners /\ (Unentered(AutoLoop) \/ Finalize(AutoLoop))
  BY <1>7, UnenteredInv, LeaveInv DEF Finalize, AutoLoop
<1> QED
  BY <1>1, <1>2, <1>3, <1>4, <1>5, <1>6, <1>7 DEF Automatic

-----------------------------------------------------------------------------
(* Readers start before a shutdown only, and end at any time.                *)
LEMMA ReadingInv == AdmissionInv /\ Reading => AdmissionInv'
<1> SUFFICES ASSUME AdmissionInv, Reading PROVE AdmissionInv'
  OBVIOUS
<1>1. Reserved' /\ Joined'
  BY DEF AdmissionInv, Reserved, Joined, Reading, ReaderStarts, ReaderEnds, IsRunning
<1>2. TypeOK' /\ Proved'
  <2>1. CASE ReaderStarts
    BY <2>1 DEF AdmissionInv, TypeOK, Proved, ReaderStarts, Readers, IsRunning
  <2>2. CASE \E r \in Readers : ReaderEnds(r)
    BY <2>2 DEF AdmissionInv, TypeOK, Proved, ReaderEnds, IsRunning
  <2> QED
    BY <2>1, <2>2 DEF Reading
<1> QED
  BY <1>1, <1>2 DEF AdmissionInv

-----------------------------------------------------------------------------
(* The shutdown. Its steps but the last change no reservation.               *)
LEMMA ReservationsStay ==
    ASSUME AdmissionInv, UNCHANGED <<name, lock, task, phase, thread>>
    PROVE  Reserved' /\ Joined'
BY DEF AdmissionInv, Reserved, Joined, IsRunning

ShutType == [started : BOOLEAN, complete : BOOLEAN, stage : Stages \cup {"idle"},
             waiting : BOOLEAN, forced : BOOLEAN, unproved : BOOLEAN, left : Nat]

(* A stage is left when its owner is proved to be gone, or without proof.    *)
LEMMA StageLeft ==
    ASSUME AdmissionInv, shut.stage \in Stages \ {"decide"}, UNCHANGED <<task, readers>>,
           NEW unproved \in BOOLEAN,
           shut' = [Moved(shut) EXCEPT !.unproved = unproved],
           ~unproved =>
              /\ ~shut.unproved
              /\ \A o \in Owners : /\ After(shut.stage) \in Later(o)
                                   /\ shut.stage \notin Later(o)
                                   => ~IsRunning(o)
              /\ shut.stage = "readers" => readers = {}
    PROVE  shut' \in ShutType /\ Proved'
<1>1. shut \in ShutType
  BY DEF AdmissionInv, TypeOK, ShutType
<1>2. After(shut.stage) \in Stages
  BY StageAfter, StageNames
<1>3. /\ shut'.started = shut.started /\ shut'.complete = shut.complete
      /\ shut'.stage = After(shut.stage) /\ shut'.unproved = unproved
      /\ shut' \in ShutType
  BY <1>1, <1>2 DEF Moved, ShutType
<1>4. ~shut.complete /\ shut.started
  BY StageNames DEF AdmissionInv, Proved
<1>5. CASE unproved
  BY <1>3, <1>4, <1>5, StageNames, <1>2 DEF Proved
<1>6. CASE ~unproved
  <2>1. \A o \in Owners : After(shut.stage) \in Later(o) => ~IsRunning(o)
    BY <1>6 DEF AdmissionInv, Proved
  <2>2. After(shut.stage) = "decide" => shut.stage = "readers"
    BY StageAfter, StageNames
  <2> QED
    BY <1>2, <1>3, <1>4, <1>6, <2>1, <2>2, StageNames DEF Proved, IsRunning
<1> QED
  BY <1>3, <1>5, <1>6

LEMMA ShutdownInv == AdmissionInv /\ (ShutdownBegins \/ ShutdownProgress) => AdmissionInv'
<1> SUFFICES ASSUME AdmissionInv, ShutdownBegins \/ ShutdownProgress PROVE AdmissionInv'
  OBVIOUS
<1> USE DEF ShutType
<1>0. shut \in ShutType /\ TypeOK
  BY DEF AdmissionInv, TypeOK
<1>1. CASE ShutdownBegins
  <2>1. TypeOK'
    <3>1. StageOrder[1] \in Stages
      BY StageNames DEF StageOrder
    <3>2. shut.left - 1 \in Nat
      BY <1>0, <1>1 DEF ShutdownBegins
    <3>3. shut' \in ShutType
      BY <1>0, <1>1, <3>1, <3>2 DEF ShutdownBegins
    <3> QED
      BY <1>0, <1>1, <3>3 DEF TypeOK, ShutdownBegins, work
  <2>2. Reserved' /\ Joined'
    BY <1>1, ReservationsStay DEF ShutdownBegins, work
  <2>3. shut'.started /\ ~shut'.complete /\ shut'.stage = "automatic_fetch"
    BY <1>0, <1>1 DEF ShutdownBegins, StageOrder
  <2>4. \A o \in Owners : "automatic_fetch" \notin Later(o)
    BY StageNames, OwnersAssumption DEF Later, AllOwners, Manual
  <2> QED
    BY <2>1, <2>2, <2>3, <2>4 DEF AdmissionInv, Proved
<1>2. CASE ShutdownAsks
  <2>1. TypeOK'
    BY <1>0, <1>2 DEF TypeOK, ShutdownAsks
  <2>2. Reserved' /\ Joined'
    BY <1>2, ReservationsStay DEF ShutdownAsks
  <2>3. Proved'
    BY <1>0, <1>2 DEF AdmissionInv, Proved, ShutdownAsks, IsRunning
  <2> QED
    BY <2>1, <2>2, <2>3 DEF AdmissionInv
<1>3. CASE ShutdownMovesOn
  <2>1. shut.stage \in Stages \ {"decide"}
    BY <1>3, StageNames DEF ShutdownMovesOn, OwnerStages, Manual, AutoLoop
  <2>2. shut' = [Moved(shut) EXCEPT !.unproved = shut.unproved]
    BY <1>0, <1>3 DEF ShutdownMovesOn, Moved
  <2>3. \A o \in Owners : /\ After(shut.stage) \in Later(o)
                          /\ shut.stage \notin Later(o)
                          => ~IsRunning(o)
    BY <1>3, StageAfter, StageNames, OwnersAssumption
       DEF ShutdownMovesOn, OwnerStages, Later, AllOwners, Manual, AutoLoop
  <2>4. shut' \in ShutType /\ Proved'
    BY <1>0, <1>3, <2>1, <2>2, <2>3, StageLeft DEF ShutdownMovesOn, work, OwnerStages, Manual,
       AutoLoop
  <2>5. TypeOK' /\ Reserved' /\ Joined'
    BY <1>0, <1>3, <2>4, ReservationsStay DEF ShutdownMovesOn, work, TypeOK
  <2> QED
    BY <2>4, <2>5 DEF AdmissionInv
<1>4. CASE ShutdownTimesOut
  <2>1. shut.stage \in Stages \ {"decide"}
    BY <1>4, StageNames DEF ShutdownTimesOut, OwnerStages, Manual, AutoLoop
  <2>2. CASE shut.forced \/ shut.stage = "manual_analysis_load"
    <3>1. shut' \in ShutType /\ Proved'
      BY <1>0, <1>4, <2>1, <2>2, StageLeft DEF ShutdownTimesOut, work
    <3> QED
      BY <1>0, <1>4, <3>1, ReservationsStay DEF ShutdownTimesOut, work, TypeOK, AdmissionInv
  <2>3. CASE ~(shut.forced \/ shut.stage = "manual_analysis_load")
    BY <1>0, <1>4, <2>3, ReservationsStay
       DEF ShutdownTimesOut, work, TypeOK, AdmissionInv, Proved, IsRunning
  <2> QED
    BY <2>2, <2>3
<1>5. CASE ShutdownLock
  <2>1. shut.stage \in Stages \ {"decide"} /\ After(shut.stage) = "tasks"
    BY <1>5, StageNames, StageAfter DEF ShutdownLock
  <2>2. PICK u \in BOOLEAN : /\ shut' = [Moved(shut) EXCEPT !.unproved = u]
                             /\ ~u => ~shut.unproved /\ lock = Nobody
    BY <1>0, <1>5 DEF ShutdownLock, Moved
  <2>3. ASSUME NEW o \in Owners, lock = Nobody, "tasks" \in Later(o), "lock" \notin Later(o)
        PROVE  ~IsRunning(o)
    <3>1. o = "settings"
      BY <2>3, StageNames, OwnersAssumption DEF Later, AllOwners, Manual
    <3> QED
      BY <2>3, <3>1, NobodyOwns DEF AdmissionInv, Reserved, IsRunning
  <2>4. shut' \in ShutType /\ Proved'
    BY <1>5, <2>1, <2>2, <2>3, StageLeft DEF ShutdownLock, work
  <2> QED
    BY <1>0, <1>5, <2>4, ReservationsStay DEF ShutdownLock, work, TypeOK, AdmissionInv
<1>6. CASE ShutdownTasks
  <2>1. CASE ~shut.waiting
    <3>1. TypeOK'
      BY <1>0, <1>6, <2>1 DEF TypeOK, ShutdownTasks, Tracked
    <3>2. Proved'
      BY <1>0, <1>6, <2>1 DEF AdmissionInv, Proved, ShutdownTasks, IsRunning
    <3> QED
      BY <1>6, <3>1, <3>2, ReservationsStay DEF ShutdownTasks, AdmissionInv
  <2>2. CASE shut.waiting
    <3>1. shut.stage \in Stages \ {"decide"} /\ After(shut.stage) = "readers"
      BY <1>6, StageNames, StageAfter DEF ShutdownTasks
    <3>2. PICK u \in BOOLEAN : /\ shut' = [Moved(shut) EXCEPT !.unproved = u]
                               /\ ~u => ~shut.unproved
      BY <1>0, <1>6, <2>2 DEF ShutdownTasks, Moved
    <3>3. \A o \in Owners : "readers" \in Later(o) => "tasks" \in Later(o)
      BY StageNames, OwnersAssumption DEF Later, AllOwners, Manual
    <3>4. shut' \in ShutType /\ Proved'
      BY <1>6, <3>1, <3>2, <3>3, StageLeft DEF ShutdownTasks
    <3> QED
      BY <1>0, <1>6, <2>2, <3>4, ReservationsStay DEF ShutdownTasks, TypeOK, AdmissionInv
  <2> QED
    BY <2>1, <2>2
<1>7. CASE ShutdownReaders
  <2>1. shut.stage \in Stages \ {"decide"} /\ After(shut.stage) = "decide"
    BY <1>7, StageNames, StageAfter DEF ShutdownReaders
  <2>2. PICK u \in BOOLEAN : /\ shut' = [Moved(shut) EXCEPT !.unproved = u]
                             /\ ~u => ~shut.unproved /\ readers = {}
    BY <1>0, <1>7 DEF ShutdownReaders, Moved
  <2>3. \A o \in Owners : "decide" \in Later(o) => "readers" \in Later(o)
    BY StageNames, OwnersAssumption DEF Later, AllOwners, Manual
  <2>4. shut' \in ShutType /\ Proved'
    BY <1>7, <2>1, <2>2, <2>3, StageLeft DEF ShutdownReaders, work
  <2> QED
    BY <1>0, <1>7, <2>4, ReservationsStay DEF ShutdownReaders, work, TypeOK, AdmissionInv
<1>8. CASE ShutdownDecides
  <2>1. TypeOK'
    BY <1>0, <1>8 DEF TypeOK, ShutdownDecides
  <2>2. \A o \in Owners : "decide" \in Later(o)
    BY StageNames, OwnersAssumption DEF Later, AllOwners, Manual
  <2>3. ~shut.unproved => \A o \in Owners : ~IsRunning(o)
    BY <1>8, <2>2 DEF AdmissionInv, Proved, ShutdownDecides
  <2>4. Reserved' /\ Joined'
    BY <1>8, <2>3, NobodyOwns
       DEF AdmissionInv, Reserved, Joined, ShutdownDecides, IsRunning, AutoLoop, Nobody
  <2>5. Proved'
    <3>1. shut'.stage = "idle" /\ shut'.complete = ~shut.unproved /\ shut'.started
      BY <1>0, <1>8 DEF AdmissionInv, Proved, ShutdownDecides
    <3>2. \A o \in Owners : "idle" \notin Later(o)
      BY StageNames, OwnersAssumption DEF Later, AllOwners, Manual
    <3> QED
      BY <1>8, <2>3, <3>1, <3>2 DEF AdmissionInv, Proved, ShutdownDecides, IsRunning
  <2> QED
    BY <2>1, <2>4, <2>5 DEF AdmissionInv
<1> QED
  BY <1>1, <1>2, <1>3, <1>4, <1>5, <1>6, <1>7, <1>8 DEF ShutdownProgress

-----------------------------------------------------------------------------
LEMMA NextInv == AdmissionInv /\ [Next]_vars => AdmissionInv'
<1> SUFFICES ASSUME AdmissionInv, [Next]_vars PROVE AdmissionInv'
  OBVIOUS
<1>1. CASE UNCHANGED vars
  BY <1>1 DEF AdmissionInv, TypeOK, Reserved, Joined, Proved, vars, IsRunning
<1>2. CASE Next
  BY <1>2, StartsInv, OperationInv, ThreadEndsInv, RequestStopInv, SettingsInv, AutomaticInv,
     ReadingInv, ShutdownInv DEF Next
<1> QED
  BY <1>1, <1>2

(* The engine is disposed only when no operation, worker thread or registered *)
(* reader is left that could use it, however the owners, their threads and    *)
(* the attempts to shut down interleave (ui/shutdown.py).                     *)
THEOREM DisposalSafe == AppSpec => []DisposalIsSafe
<1>1. AdmissionInv => DisposalIsSafe
  BY DEF AdmissionInv, TypeOK, Joined, Proved, DisposalIsSafe, IsRunning
<1> QED
  BY <1>1, InitInv, NextInv, AdmissionInside, PTL DEF AppSpec

(* Exclusive work is of one owner at a time, and a reserved name and a held   *)
(* lock have an owner that will give them back (ui/state.py).                *)
THEOREM WorkExclusive == AppSpec => []WorkIsExclusive
<1>1. AdmissionInv => WorkIsExclusive
  BY DEF AdmissionInv, TypeOK, Reserved, Joined, WorkIsExclusive
<1> QED
  BY <1>1, InitInv, NextInv, AdmissionInside, PTL DEF AppSpec

-----------------------------------------------------------------------------
(* The inductive invariant of the switch.                                   *)

(* Whose write is in flight, and when a write belongs to a loop.             *)
WritesOwned ==
    /\ <<"stop", TRUE>> \notin writes
    /\ <<"loop", TRUE>> \in writes => loop = "enabling"
    /\ <<"loop", FALSE>> \in writes => loop = "undoing"
    /\ process \in {"down", "crashed"} => loop = "none" /\ writes = {}

(* A loop that is still to enable the switch has been told of the Stop, and  *)
(* a loop that is cancelled while it writes is on record.                    *)
Told ==
    /\ loop \in {"admitted", "enabling"} /\ ~wanted => loopStop
    /\ loop = "admitted" => ~cancel
    /\ loop \in {"enabling", "undoing"} /\ cancel => spoiled

(* What is still on is going to be switched off.                            *)
OffComes ==
    ~wanted /\ ~spoiled /\ saved =>
      \/ <<"stop", FALSE>> \in writes
      \/ loop = "enabling"
      \/ loop = "undoing" /\ <<"loop", FALSE>> \in writes

Flags == saved \in BOOLEAN /\ loopStop \in BOOLEAN /\ cancel \in BOOLEAN
         /\ wanted \in BOOLEAN /\ spoiled \in BOOLEAN

SwitchInv == Flags /\ WritesOwned /\ Told /\ OffComes

-----------------------------------------------------------------------------
(* The inductive invariant of the rotation.                                 *)

(* Attempts go from the newest hour to older ones and start again at the     *)
(* newest. k had its turn after h and not after c: h, k, c is their order.   *)
Between(h, k, c) == IF c < h THEN c =< k /\ k < h ELSE k < h \/ c =< k

(* An hour which waits has stayed incomplete since the others had their      *)
(* turns, and was so in what the loop read for its next choice.              *)
StillWaits ==
    \A p \in skipped :
      /\ p[1] \notin complete
      /\ loop \in {"choosing", "attempting", "advancing"} => p[1] \notin poll.complete

InTurn ==
    cursor # Polling!NoCursor =>
      \A p \in skipped : /\ p[1] \in Polling!Window(cursor.newest) /\ p[1] # cursor.hour
                         /\ Between(p[1], p[2], cursor.hour)

(* What the loop attempts is what follows the cursor, in its window.          *)
Chosen ==
    /\ loop \in {"reading", "choosing", "attempting", "advancing"} => poll.newest \in Polling!Hours
    /\ loop \in {"attempting", "advancing"} =>
         /\ poll.target # Polling!NoHour
         /\ poll.target = Polling!Target(poll.newest, poll.complete, Polling!ReadCursor(poll.newest))

(* A shutdown that has begun is one of those the bound allows.               *)
Counted == process = "closing" => presses.restarts > 0

RotationInv == Polling!TypeOK /\ StillWaits /\ InTurn /\ Chosen /\ Counted

-----------------------------------------------------------------------------
(* The switch.                                                              *)
LEMMA SwitchInit == Polling!Init => SwitchInv
BY DEF Polling!Init, SwitchInv, Flags, WritesOwned, Told, OffComes

LEMMA CommitSwitch ==
    ASSUME SwitchInv, NEW by \in {"loop", "stop"}, NEW v \in BOOLEAN, Polling!Commit(by, v)
    PROVE  SwitchInv'
<1> USE DEF SwitchInv
<1>1. <<by, v>> \in {<<"stop", FALSE>>, <<"loop", TRUE>>, <<"loop", FALSE>>}
  BY DEF WritesOwned, Polling!Commit
<1>2. Flags'
  BY DEF Flags, Polling!Commit
<1>4. WritesOwned'
  BY DEF WritesOwned, Polling!Commit
<1>5. Told'
  <2>1. spoiled => spoiled'
    BY DEF Flags, Polling!Commit
  <2>2. UNCHANGED <<loop, loopStop, cancel, wanted>>
    BY DEF Polling!Commit
  <2> QED
    BY <2>1, <2>2 DEF Told
<1>3. OffComes'
  <2>1. CASE <<by, v>> = <<"loop", TRUE>>
    BY <2>1 DEF WritesOwned, OffComes, Polling!Commit
  <2>2. CASE v = FALSE
    <3>1. ~saved' \/ spoiled'
      BY <2>2 DEF Polling!Commit
    <3> QED
      BY <3>1 DEF OffComes
  <2> QED
    BY <1>1, <2>1, <2>2
<1> QED
  BY <1>2, <1>3, <1>4, <1>5

LEMMA PressSwitch == SwitchInv /\ (Polling!PressStart \/ Polling!PressStop) => SwitchInv'
<1> SUFFICES ASSUME SwitchInv, Polling!PressStart \/ Polling!PressStop PROVE SwitchInv'
  OBVIOUS
<1> USE DEF SwitchInv, Flags, WritesOwned, Told, OffComes
<1>1. CASE Polling!PressStart
  BY <1>1 DEF Polling!PressStart
<1>2. CASE Polling!PressStop
  BY <1>2 DEF Polling!PressStop
<1> QED
  BY <1>1, <1>2

LEMMA LoopSwitch == SwitchInv /\ (Polling!Loop \/ Polling!EnableFailed \/ Polling!IterationFails) => SwitchInv'
<1> SUFFICES ASSUME SwitchInv, Polling!Loop \/ Polling!EnableFailed \/ Polling!IterationFails PROVE SwitchInv'
  OBVIOUS
<1> USE DEF SwitchInv, Flags, WritesOwned, Told, OffComes, Polling!switch, Polling!window
<1>1. CASE Polling!Enable
  BY <1>1 DEF Polling!Enable
<1>2. CASE Polling!Enabled
  <2>1. <<"loop", TRUE>> \notin writes /\ loop = "enabling"
    BY <1>2 DEF Polling!Enabled, Polling!LoopWrites
  <2>2. UNCHANGED <<saved, loopStop, cancel, wanted, spoiled, process>>
    BY <1>2 DEF Polling!Enabled
  <2>3. CASE loopStop
    <3>1. loop' = "undoing" /\ writes' = writes \cup {<<"loop", FALSE>>}
      BY <1>2, <2>3 DEF Polling!Enabled
    <3>2. <<"loop", TRUE>> # <<"loop", FALSE>> /\ <<"stop", TRUE>> # <<"loop", FALSE>>
      OBVIOUS
    <3>3. WritesOwned'
      BY <2>1, <2>2, <3>1, <3>2
    <3>4. Flags' /\ Told' /\ OffComes'
      BY <2>1, <2>2, <3>1
    <3> QED
      BY <3>3, <3>4
  <2>4. CASE ~loopStop
    BY <1>2, <2>1, <2>2, <2>4 DEF Polling!Enabled
  <2> QED
    BY <2>3, <2>4
<1>3. CASE Polling!Leave
  <2>1. <<"loop", TRUE>> \notin writes /\ <<"loop", FALSE>> \notin writes
    BY <1>3 DEF Polling!Leave, Polling!LoopWrites
  <2>2. loop = "enabling" => cancel
    BY <1>3 DEF Polling!Leave
  <2>3. /\ loop # "none" /\ loop' = "none" /\ loopStop' = FALSE /\ cancel' = FALSE
        /\ UNCHANGED <<saved, writes, wanted, spoiled, process>>
    BY <1>3 DEF Polling!Leave, Polling!Ended
  <2> QED
    BY <2>1, <2>2, <2>3
<1>4. CASE Polling!Poll \/ Polling!ReadComplete \/ Polling!Choose \/ Polling!Clear \/ Polling!Attempt \/ Polling!Advance \/ Polling!IterationFails
  BY <1>4 DEF Polling!Poll, Polling!ReadComplete, Polling!Choose, Polling!Clear, Polling!Attempt,
     Polling!Advance, Polling!IterationFails, Polling!Rest
<1>5. CASE Polling!EnableFailed
  <2>1. loop = "enabling" /\ process \notin {"down", "crashed"}
    BY <1>5 DEF Polling!EnableFailed
  <2>2. /\ loop' = "none" /\ loopStop' = FALSE /\ cancel' = FALSE /\ spoiled' = TRUE
        /\ writes' \subseteq writes /\ <<"loop", TRUE>> \notin writes'
        /\ UNCHANGED <<saved, wanted, process>>
    BY <1>5 DEF Polling!EnableFailed, Polling!Ended
  <2> QED
    BY <2>1, <2>2
<1> QED
  BY <1>1, <1>2, <1>3, <1>4, <1>5 DEF Polling!Loop

LEMMA WorldSwitch == SwitchInv /\ Polling!World => SwitchInv'
<1> SUFFICES ASSUME SwitchInv, Polling!World PROVE SwitchInv'
  OBVIOUS
<1>1. UNCHANGED <<Polling!switch, loop, loopStop, cancel, process>>
  BY DEF Polling!World, Polling!HourReleased, Polling!OtherFetch, Polling!ArchiveRots,
     Polling!OtherOperation
<1> QED
  BY <1>1 DEF SwitchInv, Flags, WritesOwned, Told, OffComes, Polling!switch

LEMMA ProcessSwitch ==
    SwitchInv /\ (Polling!ShutdownBegins \/ Polling!ForceCancel \/ Polling!Down \/ Polling!Crash \/ Polling!Restart) => SwitchInv'
<1> SUFFICES ASSUME SwitchInv, Polling!ShutdownBegins \/ Polling!ForceCancel \/ Polling!Down \/ Polling!Crash \/ Polling!Restart
             PROVE  SwitchInv'
  OBVIOUS
<1> USE DEF SwitchInv, Flags, WritesOwned, Told, OffComes, Polling!switch
<1>1. CASE Polling!ShutdownBegins
  BY <1>1 DEF Polling!ShutdownBegins
<1>2. CASE Polling!ForceCancel
  BY <1>2 DEF Polling!ForceCancel
<1>3. CASE Polling!Down
  BY <1>3 DEF Polling!Down
<1>4. CASE Polling!Crash
  BY <1>4 DEF Polling!Crash, Polling!Ended
<1>5. CASE Polling!Restart
  BY <1>5 DEF Polling!Restart
<1> QED
  BY <1>1, <1>2, <1>3, <1>4, <1>5

LEMMA NextSwitch == SwitchInv /\ [Polling!Next]_Polling!vars => SwitchInv'
<1> SUFFICES ASSUME SwitchInv, [Polling!Next]_Polling!vars PROVE SwitchInv'
  OBVIOUS
<1>1. CASE UNCHANGED Polling!vars
  BY <1>1 DEF SwitchInv, Flags, WritesOwned, Told, OffComes, Polling!vars
<1>2. CASE Polling!Commits
  BY <1>2, CommitSwitch DEF Polling!Commits
<1> QED
  BY <1>1, <1>2, PressSwitch, LoopSwitch, WorldSwitch, ProcessSwitch DEF Polling!Next

(* Stop is final: once the last press was Stop and no write is in flight,    *)
(* automatic fetch is off in app_settings, whichever of the loop and the     *)
(* Stop handler committed last, over crashes, restarts and forced shutdowns, *)
(* unless a write of the switch failed or was interrupted.                  *)
THEOREM StopFinal == AppSpec => []StopIsFinal
<1>1. SwitchInv => StopIsFinal
  BY DEF SwitchInv, OffComes, StopIsFinal, Polling!StopIsFinal
<1> QED
  BY <1>1, SwitchInit, NextSwitch, PollingInside, PTL DEF AppSpec

-----------------------------------------------------------------------------
(* The types.                                                               *)
Bounded ==
    LastHour \in Nat /\ MaxPresses \in Nat /\ MaxRestarts \in Nat /\ AutoFaults \in Nat

LEMMA InitTyped == Bounded /\ Polling!Init => Polling!TypeOK
<1> SUFFICES ASSUME Bounded, Polling!Init PROVE Polling!TypeOK
  OBVIOUS
<1>1. newest \in Polling!Hours /\ complete \subseteq Polling!Hours /\ skipped \subseteq Polling!Hours \X Polling!Hours
  BY DEF Bounded, Polling!Init, Polling!Hours
<1>2. poll \in [newest : Polling!Hours \cup {Polling!NoHour}, complete : SUBSET Polling!Hours,
                target : Polling!Hours \cup {Polling!NoHour}]
  BY DEF Polling!Init, Polling!NoPoll
<1>3. presses \in [presses : 0 .. MaxPresses, restarts : 0 .. MaxRestarts, faults : 0 .. AutoFaults]
  BY DEF Bounded, Polling!Init
<1> QED
  BY <1>1, <1>2, <1>3 DEF Polling!Init, Polling!TypeOK

LEMMA GreatestHour ==
    ASSUME Bounded, NEW S \in SUBSET Polling!Hours, S # {}
    PROVE  Polling!Newest(S) \in S /\ \A y \in S : y =< Polling!Newest(S)
<1> DEFINE T == {LastHour - x : x \in S}
<1>1. \A x \in S : x \in Nat /\ LastHour - x \in Nat
  BY DEF Bounded, Polling!Hours
<1>2. T \in SUBSET Nat /\ T # {}
  BY <1>1
<1>3. PICK t \in T : \A u \in T : <<u, t>> \notin OpToRel(<, Nat)
  BY <1>2, NatLessThanWellFounded, WFMin
<1>4. \A u \in T : u < t => <<u, t>> \in OpToRel(<, Nat)
  BY <1>2, Zenon DEF OpToRel
<1>5. \A u \in T : ~(u < t)
  BY <1>3, <1>4, Zenon
<1>6. PICK x \in S : t = LastHour - x
  BY <1>3
<1>7. \A y \in S : LastHour - y \in T
  OBVIOUS
<1>8. \A y \in S : x >= y
  <2> TAKE y \in S
  <2>1. ~(LastHour - y < LastHour - x)
    BY <1>5, <1>6, <1>7
  <2> QED
    BY <1>1, <2>1 DEF Bounded
<1> QED
  BY <1>8 DEF Polling!Newest, Polling!Max

(* A target is an incomplete hour of the window: the newest of the older     *)
(* ones after the cursor, and without any the newest of all.                *)
LEMMA TargetFollows ==
    ASSUME Bounded, NEW n \in Polling!Hours, NEW done, NEW after,
           Polling!Target(n, done, after) # Polling!NoHour
    PROVE  LET t == Polling!Target(n, done, after) IN
           /\ t \in Polling!Window(n) \ done
           /\ \/ /\ after # Polling!NoHour /\ t < after
                 /\ \A h \in Polling!Window(n) \ done : h < after => h =< t
              \/ /\ \A h \in Polling!Window(n) \ done : h =< t
                 /\ after # Polling!NoHour => \A h \in Polling!Window(n) \ done : ~(h < after)
<1> DEFINE incomplete == Polling!Window(n) \ done
           older == {h \in incomplete : after # Polling!NoHour /\ h < after}
<1>1. incomplete \in SUBSET Polling!Hours /\ older \in SUBSET Polling!Hours
  BY DEF Polling!Window
<1>2. CASE older # {}
  BY <1>1, <1>2, GreatestHour DEF Polling!Target
<1>3. CASE older = {}
  <2>1. Polling!Target(n, done, after) = Polling!Newest(incomplete)
    BY <1>3 DEF Polling!Target
  <2>2. incomplete # {}
    BY <2>1 DEF Polling!Newest
  <2> QED
    BY <1>1, <1>3, <2>1, <2>2, GreatestHour
<1> QED
  BY <1>2, <1>3

LEMMA TargetIsAnHour ==
    ASSUME Bounded, NEW n \in Polling!Hours, NEW done, NEW after
    PROVE  Polling!Target(n, done, after) \in Polling!Hours \cup {Polling!NoHour}
BY TargetFollows DEF Polling!Window

-----------------------------------------------------------------------------
(* The rotation, action by action.                                          *)
PollType == [newest : Polling!Hours \cup {Polling!NoHour}, complete : SUBSET Polling!Hours,
             target : Polling!Hours \cup {Polling!NoHour}]

LeftType == [presses : 0 .. MaxPresses, restarts : 0 .. MaxRestarts, faults : 0 .. AutoFaults]

Choosing == {"choosing", "attempting", "advancing"}

LEMMA NoPollIsTyped == Polling!NoPoll \in PollType
BY DEF Polling!NoPoll, PollType

LEMMA OneFewer ==
    ASSUME Bounded, presses \in LeftType
    PROVE  /\ presses.presses > 0 => [presses EXCEPT !.presses = @ - 1] \in LeftType
           /\ presses.restarts > 0 => [presses EXCEPT !.restarts = @ - 1] \in LeftType
           /\ presses.faults > 0 => [presses EXCEPT !.faults = @ - 1] \in LeftType
BY DEF Bounded, LeftType

(* A step after which no hour waits that did not wait before, and none of     *)
(* those that wait is complete.                                             *)
LEMMA WaitsStay ==
    ASSUME StillWaits, InTurn, UNCHANGED cursor,
           \A p \in skipped' : p \in skipped /\ p[1] \notin complete',
           \/ loop' \notin Choosing
           \/ loop \in Choosing /\ poll'.complete = poll.complete
           \/ poll'.complete = complete
    PROVE  StillWaits' /\ InTurn'
<1>1. StillWaits'
  BY DEF StillWaits, Choosing
<1>2. InTurn'
  BY DEF InTurn, Polling!NoCursor, Polling!Window, Between
<1> QED
  BY <1>1, <1>2

(* What is chosen stays so while the loop does not look at the cursor.        *)
LEMMA ChosenStays ==
    ASSUME Chosen, UNCHANGED cursor,
           \/ loop' \notin Choosing \cup {"reading"}
           \/ /\ UNCHANGED poll
              /\ loop' = loop \/ (loop = "attempting" /\ loop' = "advancing")
    PROVE  Chosen'
BY DEF Chosen, Choosing, Polling!Target, Polling!ReadCursor, Polling!Window, Polling!Newest

LEMMA InitRotation == Bounded /\ Polling!Init => RotationInv
<1> SUFFICES ASSUME Bounded, Polling!Init PROVE RotationInv
  OBVIOUS
<1>1. Polling!TypeOK
  BY InitTyped
<1>2. StillWaits /\ InTurn /\ Chosen
  BY DEF Polling!Init, StillWaits, InTurn, Chosen
<1>3. Counted
  BY DEF Polling!Init, Counted
<1> QED
  BY <1>1, <1>2, <1>3 DEF RotationInv

(* Presses, commits and ends of the process read and write no hour.           *)
LEMMA SwitchRotation ==
    ASSUME Bounded, RotationInv,
           Polling!PressStart \/ Polling!PressStop \/ Polling!Commits \/ Polling!EnableFailed \/ Polling!Enable \/ Polling!Enabled \/ Polling!Leave
    PROVE  RotationInv'
<1> USE DEF RotationInv
<1>1. Polling!TypeOK'
  <2>0. presses \in LeftType
    BY DEF Polling!TypeOK, LeftType
  <2>1. CASE Polling!PressStart
    <3>1. presses' \in LeftType
      BY <2>0, <2>1, OneFewer DEF Polling!PressStart
    <3> QED
      BY <2>1, <3>1 DEF Polling!TypeOK, LeftType, Polling!PressStart, Polling!window
  <2>2. CASE Polling!PressStop
    <3>1. presses' \in LeftType
      BY <2>0, <2>2, OneFewer DEF Polling!PressStop
    <3>2. writes' \subseteq {"loop", "stop"} \X BOOLEAN
      <4>1. <<"stop", FALSE>> \in {"loop", "stop"} \X BOOLEAN
        OBVIOUS
      <4> QED
        BY <2>2, <4>1 DEF Polling!TypeOK, Polling!PressStop
    <3> QED
      BY <2>2, <3>1, <3>2 DEF Polling!TypeOK, LeftType, Polling!PressStop, Polling!window
  <2>3. CASE Polling!Commits
    <3>1. presses' \in LeftType
      BY <2>0, <2>3, OneFewer DEF Polling!Commits, Polling!Commit
    <3>2. /\ writes' \subseteq {"loop", "stop"} \X BOOLEAN
          /\ saved' \in BOOLEAN /\ spoiled' \in BOOLEAN
          /\ UNCHANGED <<Polling!window, cursor, loop, poll, loopStop, cancel, process, wanted, skipped>>
      BY <2>3 DEF Polling!TypeOK, Polling!Commits, Polling!Commit
    <3> QED
      BY <3>1, <3>2 DEF Polling!TypeOK, LeftType, Polling!window
  <2>4. CASE Polling!EnableFailed
    <3>1. presses' \in LeftType /\ poll' \in PollType
      BY <2>0, <2>4, OneFewer, NoPollIsTyped DEF Polling!EnableFailed, Polling!Ended
    <3>2. writes' \subseteq {"loop", "stop"} \X BOOLEAN
      BY <2>4 DEF Polling!TypeOK, Polling!EnableFailed
    <3> QED
      BY <2>4, <3>1, <3>2 DEF Polling!TypeOK, LeftType, PollType, Polling!EnableFailed,
         Polling!Ended, Polling!window
  <2>5. CASE Polling!Enable \/ Polling!Enabled
    <3>1. writes' \subseteq {"loop", "stop"} \X BOOLEAN
      <4>1. <<"loop", TRUE>> \in {"loop", "stop"} \X BOOLEAN
            /\ <<"loop", FALSE>> \in {"loop", "stop"} \X BOOLEAN
        OBVIOUS
      <4>2. writes' \subseteq writes \cup {<<"loop", TRUE>>, <<"loop", FALSE>>}
        BY <2>5 DEF Polling!Enable, Polling!Enabled
      <4> QED
        BY <4>1, <4>2 DEF Polling!TypeOK
    <3>3. loop' \in {"enabling", "undoing", "waiting"}
      BY <2>5 DEF Polling!Enable, Polling!Enabled
    <3>2. UNCHANGED <<Polling!window, saved, wanted, spoiled, cursor, poll, loopStop, cancel, process,
                      skipped, presses>>
      BY <2>5 DEF Polling!Enable, Polling!Enabled
    <3> QED
      BY <3>1, <3>2, <3>3 DEF Polling!TypeOK, Polling!window
  <2>6. CASE Polling!Leave
    <3>1. poll' \in PollType
      BY <2>6, NoPollIsTyped DEF Polling!Leave, Polling!Ended
    <3> QED
      BY <2>6, <3>1 DEF Polling!TypeOK, PollType, Polling!Leave, Polling!Ended, Polling!window,
         Polling!switch
  <2> QED
    BY <2>1, <2>2, <2>3, <2>4, <2>5, <2>6
<1>2. /\ UNCHANGED <<cursor, skipped, complete>>
      /\ \/ loop' = loop /\ UNCHANGED poll
         \/ loop' \notin Choosing \cup {"reading"}
  BY DEF Polling!PressStart, Polling!PressStop, Polling!Commits, Polling!Commit,
     Polling!EnableFailed, Polling!Enable, Polling!Enabled, Polling!Leave, Polling!Ended,
     Choosing, Polling!window
<1>3. StillWaits' /\ InTurn'
  BY <1>2, WaitsStay DEF StillWaits
<1>4. Chosen'
  BY <1>2, ChosenStays
<1>5. Counted'
  BY DEF Polling!TypeOK, Counted, Polling!PressStart, Polling!PressStop, Polling!Commits,
     Polling!Commit, Polling!EnableFailed, Polling!Enable, Polling!Enabled,
     Polling!Leave
<1> QED
  BY <1>1, <1>3, <1>4, <1>5

LEMMA ProcessRotation ==
    ASSUME Bounded, RotationInv,
           Polling!ShutdownBegins \/ Polling!ForceCancel \/ Polling!Down \/ Polling!Crash \/ Polling!Restart
    PROVE  RotationInv'
<1> USE DEF RotationInv
<1>1. Polling!TypeOK'
  <2>1. CASE Polling!ShutdownBegins
    BY <2>1 DEF Polling!TypeOK, Polling!ShutdownBegins, Polling!window, Polling!switch
  <2>2. CASE Polling!ForceCancel
    BY <2>2 DEF Polling!TypeOK, Polling!ForceCancel, Polling!window
  <2>3. CASE Polling!Down
    <3>1. presses' \in LeftType
      BY <2>3, OneFewer DEF Polling!TypeOK, LeftType, Counted, Polling!Down
    <3> QED
      BY <2>3, <3>1 DEF Polling!TypeOK, LeftType, Polling!Down, Polling!switch
  <2>4. CASE Polling!Crash
    <3>1. presses' \in LeftType /\ poll' \in PollType
      BY <2>4, OneFewer, NoPollIsTyped DEF Polling!TypeOK, LeftType, Polling!Crash, Polling!Ended
    <3> QED
      BY <2>4, <3>1 DEF Polling!TypeOK, LeftType, PollType, Polling!Crash, Polling!Ended
  <2>5. CASE Polling!Restart
    BY <2>5 DEF Polling!TypeOK, Polling!Restart, Polling!window, Polling!switch
  <2> QED
    BY <2>1, <2>2, <2>3, <2>4, <2>5
<1>2. /\ UNCHANGED <<cursor, skipped, complete>>
      /\ \/ loop' = loop /\ UNCHANGED poll
         \/ loop' \notin Choosing \cup {"reading"}
  BY DEF Polling!ShutdownBegins, Polling!ForceCancel, Polling!Down, Polling!Crash,
     Polling!Restart, Polling!Ended, Choosing, Polling!window
<1>3. StillWaits' /\ InTurn'
  BY <1>2, WaitsStay DEF StillWaits
<1>4. Chosen'
  BY <1>2, ChosenStays
<1>5. Counted'
  BY DEF Counted, Polling!ShutdownBegins, Polling!ForceCancel, Polling!Down, Polling!Crash,
     Polling!Restart
<1> QED
  BY <1>1, <1>3, <1>4, <1>5

LEMMA WorldRotation ==
    ASSUME Bounded, RotationInv, Polling!World
    PROVE  RotationInv'
<1> USE DEF RotationInv
<1>1. Polling!TypeOK'
  <2>1. CASE Polling!HourReleased
    <3>1. newest' \in Polling!Hours
      BY <2>1 DEF Bounded, Polling!TypeOK, Polling!HourReleased, Polling!Hours
    <3> QED
      BY <2>1, <3>1 DEF Polling!TypeOK, Polling!HourReleased, Polling!switch
  <2>2. CASE Polling!OtherFetch
    <3>1. complete' \subseteq Polling!Hours /\ skipped' \subseteq Polling!Hours \X Polling!Hours
      BY <2>2 DEF Polling!TypeOK, Polling!OtherFetch, Polling!Forget
    <3> QED
      BY <2>2, <3>1 DEF Polling!TypeOK, Polling!OtherFetch, Polling!switch
  <2>3. CASE Polling!ArchiveRots
    <3>1. presses' \in LeftType
      BY <2>3, OneFewer DEF Polling!TypeOK, LeftType, Polling!ArchiveRots
    <3> QED
      BY <2>3, <3>1 DEF Polling!TypeOK, LeftType, Polling!ArchiveRots, Polling!switch
  <2>4. CASE Polling!OtherOperation
    BY <2>4 DEF Polling!TypeOK, Polling!OtherOperation, Polling!switch
  <2> QED
    BY <2>1, <2>2, <2>3, <2>4 DEF Polling!World
<1>2. /\ UNCHANGED <<cursor, loop, poll>>
      /\ \A p \in skipped' : p \in skipped /\ p[1] \notin complete'
  <2>1. CASE Polling!OtherFetch
    BY <2>1 DEF Polling!OtherFetch, Polling!Forget, StillWaits
  <2>2. CASE ~Polling!OtherFetch
    BY <2>2 DEF Polling!World, Polling!HourReleased, Polling!ArchiveRots, Polling!OtherOperation,
       StillWaits
  <2> QED
    BY <2>1, <2>2
<1>3. StillWaits' /\ InTurn'
  BY <1>2, WaitsStay
<1>4. Chosen'
  BY <1>2, ChosenStays
<1>5. Counted'
  BY DEF Polling!TypeOK, Counted, Polling!World, Polling!HourReleased, Polling!OtherFetch,
     Polling!ArchiveRots, Polling!OtherOperation
<1> QED
  BY <1>1, <1>3, <1>4, <1>5

-----------------------------------------------------------------------------
(* The iteration of the loop.                                               *)
LEMMA RestsRotation ==
    ASSUME Bounded, RotationInv, Polling!IterationFails
    PROVE  RotationInv'
<1> USE DEF RotationInv
<1>1. Polling!TypeOK'
  <2>1. presses' \in LeftType /\ poll' \in PollType
    BY OneFewer, NoPollIsTyped DEF Polling!TypeOK, LeftType, Polling!IterationFails, Polling!Rest
  <2> QED
    BY <2>1 DEF Polling!TypeOK, LeftType, PollType, Polling!IterationFails, Polling!Rest,
       Polling!window, Polling!switch
<1>2. UNCHANGED <<cursor, skipped, complete, process>> /\ loop' = "waiting"
  BY DEF Polling!IterationFails, Polling!Rest, Polling!window
<1>3. StillWaits' /\ InTurn'
  BY <1>2, WaitsStay DEF StillWaits, Choosing
<1>4. Chosen'
  BY <1>2, ChosenStays DEF Choosing
<1>5. Counted'
  BY DEF Polling!TypeOK, Counted, Polling!IterationFails
<1> QED
  BY <1>1, <1>3, <1>4, <1>5

LEMMA ReadRotation ==
    ASSUME Bounded, RotationInv, Polling!Poll \/ Polling!ReadComplete
    PROVE  RotationInv'
<1> USE DEF RotationInv
<1>1. /\ UNCHANGED <<cursor, skipped, complete, newest, busy, saved, writes, wanted, spoiled,
                     loopStop, cancel, process, presses>>
      /\ loop' \in {"reading", "choosing"}
  BY DEF Polling!Poll, Polling!ReadComplete, Polling!window, Polling!switch
<1>2. poll' \in PollType
  <2>1. poll \in PollType
    BY DEF Polling!TypeOK, PollType
  <2>2. CASE Polling!Poll
    BY <2>2, NoPollIsTyped DEF Polling!TypeOK, Polling!Poll, PollType
  <2>3. CASE Polling!ReadComplete
    BY <2>1, <2>3 DEF Polling!TypeOK, Polling!ReadComplete, PollType
  <2> QED
    BY <2>2, <2>3
<1>3. poll'.newest \in Polling!Hours
  <2>1. CASE Polling!Poll
    BY <2>1 DEF Polling!TypeOK, Polling!Poll, Polling!NoPoll
  <2>2. CASE Polling!ReadComplete
    BY <2>2 DEF Polling!TypeOK, Polling!ReadComplete, Chosen
  <2> QED
    BY <2>1, <2>2
<1>4. Polling!TypeOK'
  BY <1>1, <1>2 DEF Polling!TypeOK, PollType
<1>5. StillWaits' /\ InTurn'
  <2>1. loop' \notin Choosing \/ poll'.complete = complete
    BY DEF Polling!TypeOK, Polling!Poll, Polling!ReadComplete, Choosing
  <2> QED
    BY <1>1, <2>1, WaitsStay DEF StillWaits
<1>6. Chosen'
  BY <1>1, <1>3 DEF Chosen
<1>7. Counted'
  BY <1>1 DEF Counted
<1> QED
  BY <1>4, <1>5, <1>6, <1>7

LEMMA ChooseRotation ==
    ASSUME Bounded, RotationInv, Polling!Choose
    PROVE  RotationInv'
<1> USE DEF RotationInv
<1>1. PICK h : h = Polling!Target(poll.newest, poll.complete, Polling!ReadCursor(poll.newest))
  OBVIOUS
<1>2. /\ loop = "choosing"
      /\ UNCHANGED <<cursor, skipped, complete, newest, busy, saved, writes, wanted, spoiled,
                     loopStop, cancel, process, presses>>
      /\ \/ loop' = "clearing" /\ poll' = poll
         \/ loop' = "waiting" /\ poll' = Polling!NoPoll
         \/ loop' = "attempting" /\ h # Polling!NoHour /\ poll' = [poll EXCEPT !.target = h]
  BY <1>1 DEF Polling!Choose, Polling!Rest, Polling!window, Polling!switch
<1>3. poll \in PollType /\ poll.newest \in Polling!Hours
  BY <1>2 DEF Polling!TypeOK, PollType, Chosen
<1>4. h \in Polling!Hours \cup {Polling!NoHour}
  BY <1>1, <1>3, TargetIsAnHour
<1>5. poll' \in PollType
  BY <1>2, <1>3, <1>4, NoPollIsTyped DEF PollType
<1>6. Polling!TypeOK'
  BY <1>2, <1>5 DEF Polling!TypeOK, PollType
<1>7. StillWaits' /\ InTurn'
  <2>1. loop' \notin Choosing \/ poll'.complete = poll.complete
    BY <1>2, <1>3 DEF Choosing, PollType
  <2> QED
    BY <1>2, <2>1, WaitsStay DEF StillWaits, Choosing
<1>8. Chosen'
  <2>1. CASE loop' = "attempting"
    <3>1. /\ poll'.newest = poll.newest /\ poll'.complete = poll.complete
          /\ poll'.target = h /\ h # Polling!NoHour
      BY <1>2, <1>3, <2>1 DEF PollType
    <3>2. PICK n, done, after :
            n = poll.newest /\ done = poll.complete /\ after = Polling!ReadCursor(poll.newest)
      OBVIOUS
    <3>3. Polling!ReadCursor(poll.newest)' = after
      BY <1>2, <3>1, <3>2 DEF Polling!ReadCursor
    <3>4. h = Polling!Target(n, done, after)
      BY <1>1, <3>2
    <3>5. poll'.target = Polling!Target(poll.newest, poll.complete, Polling!ReadCursor(poll.newest))'
      BY <3>1, <3>2, <3>3, <3>4 DEF Polling!Target, Polling!Window, Polling!Newest
    <3> QED
      BY <1>3, <3>1, <3>5, <2>1 DEF Chosen
  <2>2. CASE loop' # "attempting"
    BY <1>2, <2>2 DEF Chosen
  <2> QED
    BY <2>1, <2>2
<1>9. Counted'
  BY <1>2 DEF Counted
<1> QED
  BY <1>6, <1>7, <1>8, <1>9

LEMMA ClearRotation ==
    ASSUME Bounded, RotationInv, Polling!Clear
    PROVE  RotationInv'
<1> USE DEF RotationInv
<1>1. poll' \in PollType /\ loop' = "waiting" /\ cursor' = Polling!NoCursor
      /\ UNCHANGED <<skipped, complete, process, presses>>
  BY NoPollIsTyped DEF Polling!Clear, Polling!Rest, Polling!window
<1>2. Polling!TypeOK'
  BY <1>1 DEF Polling!TypeOK, PollType, Polling!Clear, Polling!window, Polling!switch
<1>3. StillWaits' /\ InTurn' /\ Chosen' /\ Counted'
  BY <1>1 DEF StillWaits, InTurn, Chosen, Counted
<1> QED
  BY <1>2, <1>3

LEMMA AttemptRotation ==
    ASSUME Bounded, RotationInv, Polling!Attempt
    PROVE  RotationInv'
<1> USE DEF RotationInv
<1>1. /\ loop = "attempting"
      /\ UNCHANGED <<cursor, newest, busy, saved, writes, wanted, spoiled, loopStop, cancel,
                     process, presses>>
      /\ \/ loop' = "advancing" /\ poll' = poll
         \/ loop' = "waiting" /\ poll' = Polling!NoPoll
  BY DEF Polling!Attempt, Polling!Rest, Polling!switch
<1>2. poll \in PollType /\ poll.newest \in Polling!Hours /\ poll.target \in Polling!Hours
  BY <1>1 DEF Polling!TypeOK, PollType, Chosen
<1>3. /\ complete' \subseteq Polling!Hours
      /\ \A p \in skipped' : p \in skipped /\ p[1] \notin complete'
  <2>1. CASE UNCHANGED <<complete, skipped>>
    BY <2>1 DEF Polling!TypeOK, StillWaits
  <2>2. CASE complete' = complete \cup {poll.target} /\ skipped' = Polling!Forget({poll.target})
    BY <1>2, <2>2 DEF Polling!TypeOK, StillWaits, Polling!Forget
  <2> QED
    BY <2>1, <2>2 DEF Polling!Attempt
<1>4. Polling!TypeOK'
  <2>1. poll' \in PollType
    BY <1>1, <1>2, NoPollIsTyped
  <2>2. skipped' \subseteq Polling!Hours \X Polling!Hours
    BY <1>3 DEF Polling!TypeOK
  <2> QED
    BY <1>1, <1>3, <2>1, <2>2 DEF Polling!TypeOK, PollType
<1>5. StillWaits' /\ InTurn'
  BY <1>1, <1>3, WaitsStay DEF Choosing
<1>6. Chosen'
  BY <1>1, ChosenStays DEF Choosing
<1>7. Counted'
  BY <1>1 DEF Counted
<1> QED
  BY <1>4, <1>5, <1>6, <1>7

(* Where the next attempt stands to the hours that wait, in one window: each  *)
(* of them is of the same window, was incomplete when the target was chosen,  *)
(* and had not its turn between the cursor and the target.                   *)
LEMMA NextInTurn ==
    ASSUME Bounded, RotationInv, loop \in {"attempting", "advancing"},
           cursor # Polling!NoCursor, cursor.newest = poll.newest,
           NEW p \in skipped
    PROVE  /\ p[2] # poll.target
           /\ p[1] # poll.target => Between(p[1], p[2], poll.target)
<1> USE DEF RotationInv
<1>1. PICK c : c = cursor.hour
  OBVIOUS
<1>2. PICK t : t = poll.target
  OBVIOUS
<1>3. PICK h, k : h = p[1] /\ k = p[2]
  OBVIOUS
<1>4. h \in Nat /\ k \in Nat /\ c \in Polling!Hours /\ c \in Nat /\ poll.newest \in Polling!Hours
  BY <1>1, <1>3 DEF Polling!TypeOK, Polling!Hours, Bounded
<1>5. c # Polling!NoHour
  BY <1>4 DEF Polling!Hours, Polling!NoHour, Bounded
<1>6. t = Polling!Target(poll.newest, poll.complete, c) /\ t # Polling!NoHour
  BY <1>1, <1>2 DEF Chosen, Polling!ReadCursor
<1>7. /\ t \in Polling!Window(poll.newest) \ poll.complete
      /\ \/ t < c /\ \A i \in Polling!Window(poll.newest) \ poll.complete : i < c => i =< t
         \/ \A i \in Polling!Window(poll.newest) \ poll.complete : i =< t /\ ~(i < c)
  BY <1>4, <1>5, <1>6, TargetFollows
<1>8. t \in Nat
  BY <1>7 DEF Polling!Window, Polling!Hours, Bounded
<1>9. h \in Polling!Window(poll.newest) \ poll.complete
  BY <1>3 DEF StillWaits, InTurn
<1>10. h # c /\ Between(h, k, c)
  BY <1>1, <1>3 DEF InTurn
<1>11. k # t /\ (h # t => Between(h, k, t))
  BY <1>4, <1>7, <1>8, <1>9, <1>10 DEF Between
<1> QED
  BY <1>2, <1>3, <1>11

LEMMA AdvanceRotation ==
    ASSUME Bounded, RotationInv, Polling!Advance
    PROVE  RotationInv'
<1> USE DEF RotationInv
<1>1. /\ loop = "advancing" /\ loop' = "waiting" /\ poll' = Polling!NoPoll
      /\ UNCHANGED <<newest, busy, complete, saved, writes, wanted, spoiled, loopStop, cancel,
                     process>>
  BY DEF Polling!Advance, Polling!Rest, Polling!window, Polling!switch
<1>2. /\ poll \in PollType /\ poll.newest \in Polling!Hours /\ poll.target \in Polling!Hours
      /\ poll.target \in Polling!Window(poll.newest)
  <2>1. poll \in PollType /\ poll.newest \in Polling!Hours /\ poll.target \in Polling!Hours
    BY <1>1 DEF Polling!TypeOK, PollType, Chosen
  <2> QED
    BY <1>1, <2>1, TargetFollows DEF Chosen
<1>3. Chosen'
  BY <1>1 DEF Chosen
<1>4. CASE UNCHANGED <<cursor, skipped>>
  <2>1. presses' \in LeftType /\ (presses.restarts > 0 => presses'.restarts > 0)
    BY <1>4, OneFewer DEF Polling!Advance, Polling!TypeOK, LeftType
  <2>2. Polling!TypeOK'
    BY <1>1, <1>4, <2>1, NoPollIsTyped DEF Polling!TypeOK, PollType, LeftType
  <2>3. StillWaits' /\ InTurn'
    BY <1>1, <1>4, WaitsStay DEF StillWaits, Choosing
  <2>4. Counted'
    BY <1>1, <2>1 DEF Counted
  <2> QED
    BY <1>3, <2>2, <2>3, <2>4
<1>5. CASE ~UNCHANGED <<cursor, skipped>>
  <2>1. PICK k \in Polling!Hours :
          /\ k = poll.target
          /\ cursor' = [newest |-> poll.newest, hour |-> k]
          /\ skipped' = {p \in skipped : cursor.newest = poll.newest /\ p[1] # k}
                        \cup {<<h, k>> : h \in Polling!Window(poll.newest) \ (complete \cup {k})}
          /\ UNCHANGED presses
    BY <1>2, <1>5 DEF Polling!Advance
  <2>2. cursor' \in [newest : Polling!Hours, hour : Polling!Hours] /\ cursor'.newest = poll.newest
        /\ cursor'.hour = k
    BY <1>2, <2>1
  <2>3. skipped' \subseteq Polling!Hours \X Polling!Hours
    BY <2>1 DEF Polling!TypeOK, Polling!Window
  <2>4. Polling!TypeOK'
    BY <1>1, <2>1, <2>2, <2>3, NoPollIsTyped DEF Polling!TypeOK, PollType
  <2>5. \A p \in skipped' :
          /\ p[1] \notin complete /\ p[1] \in Polling!Window(poll.newest) /\ p[1] # k
          /\ Between(p[1], p[2], k)
    <3> TAKE p \in skipped'
    <3>1. CASE p \in skipped /\ cursor.newest = poll.newest /\ p[1] # k
      <4>1. cursor # Polling!NoCursor
        BY <1>2, <3>1 DEF Polling!NoCursor, Polling!NoHour, Polling!Hours, Bounded
      <4> QED
        BY <1>1, <2>1, <3>1, <4>1, NextInTurn DEF StillWaits, InTurn
    <3>2. CASE \E h \in Polling!Window(poll.newest) \ (complete \cup {k}) : p = <<h, k>>
      BY <3>2 DEF Polling!Window, Polling!Hours, Between, Bounded
    <3> QED
      BY <2>1, <3>1, <3>2
  <2>6. StillWaits'
    BY <1>1, <2>5 DEF StillWaits
  <2>7. InTurn'
    BY <2>2, <2>5 DEF InTurn, Polling!Window, Between
  <2>8. Counted'
    BY <1>1, <2>1 DEF Counted
  <2> QED
    BY <1>3, <2>4, <2>6, <2>7, <2>8
<1> QED
  BY <1>4, <1>5

LEMMA NextRotation == Bounded /\ RotationInv /\ [Polling!Next]_Polling!vars => RotationInv'
<1> SUFFICES ASSUME Bounded, RotationInv, [Polling!Next]_Polling!vars PROVE RotationInv'
  OBVIOUS
<1>1. CASE UNCHANGED Polling!vars
  <2>1. Polling!TypeOK' /\ StillWaits' /\ Counted'
    BY <1>1 DEF RotationInv, Polling!TypeOK, StillWaits, Counted, Polling!vars
  <2>2. InTurn' /\ Chosen'
    BY <1>1, WaitsStay, ChosenStays DEF RotationInv, StillWaits, Choosing, Polling!vars
  <2> QED
    BY <2>1, <2>2 DEF RotationInv
<1>2. CASE Polling!Loop
  BY <1>2, SwitchRotation, ReadRotation, ChooseRotation, ClearRotation, AttemptRotation,
     AdvanceRotation DEF Polling!Loop
<1>3. CASE Polling!IterationFails
  BY <1>3, RestsRotation
<1> QED
  BY <1>1, <1>2, <1>3, SwitchRotation, ProcessRotation, WorldRotation DEF Polling!Next

-----------------------------------------------------------------------------
(* The rotation is fair: in one window of the catch-up, between two attempts *)
(* of an hour every hour that stayed incomplete has its turn, over deferrals,*)
(* skipped hours, new releases, crashes and restarts.                       *)
THEOREM Rotation == AppSpec => Polling!RotationIsFair
<1>1. ASSUME Bounded, RotationInv, [Polling!Next]_Polling!vars,
             NEW k \in Polling!Hours, cursor' # cursor, cursor'.hour = k, cursor'.newest = cursor.newest,
             NEW h \in Polling!Window(cursor.newest) \ complete, h # k
      PROVE  <<h, k>> \notin skipped
  <2>1. CASE Polling!Advance
    <3>1. cursor' = [newest |-> poll.newest, hour |-> poll.target] /\ loop = "advancing"
      BY <1>1, <2>1 DEF Polling!Advance
    <3>2. k = poll.target /\ cursor.newest = poll.newest
      BY <1>1, <3>1
    <3>3. cursor # Polling!NoCursor
      <4>1. poll.newest \in Polling!Hours
        BY <1>1, <3>1 DEF RotationInv, Chosen
      <4> QED
        BY <1>1, <3>2, <4>1 DEF Polling!NoCursor, Polling!NoHour, Polling!Hours, Bounded
    <3>4. \A p \in skipped : p[2] # k
      BY <1>1, <3>1, <3>2, <3>3, NextInTurn
    <3> QED
      BY <3>4
  <2>2. CASE Polling!Clear
    BY <1>1, <2>2 DEF Polling!Clear, Polling!NoCursor, Polling!NoHour, Polling!Hours, Bounded
  <2>3. CASE ~Polling!Advance /\ ~Polling!Clear
    <3>1. UNCHANGED cursor
      BY <1>1, <2>3 DEF Polling!Next, Polling!vars, Polling!PressStart, Polling!PressStop,
         Polling!Commits, Polling!Commit, Polling!EnableFailed,
         Polling!IterationFails, Polling!Loop, Polling!Enable, Polling!Enabled, Polling!Leave,
         Polling!Poll, Polling!ReadComplete, Polling!Choose, Polling!Attempt,
         Polling!World, Polling!HourReleased, Polling!OtherFetch, Polling!ArchiveRots,
         Polling!OtherOperation,
         Polling!ShutdownBegins, Polling!ForceCancel, Polling!Down, Polling!Crash, Polling!Restart
    <3> QED
      BY <1>1, <3>1
  <2> QED
    BY <2>1, <2>2, <2>3
<1>2. Bounded /\ RotationInv /\ [Polling!Next]_Polling!vars =>
        [\A k \in Polling!Hours : cursor' # cursor /\ cursor'.hour = k /\ cursor'.newest = cursor.newest
           => \A h \in Polling!Window(cursor.newest) \ complete : h # k => <<h, k>> \notin skipped]_Polling!vars
  BY <1>1
<1>3. Bounded
  BY SizesAssumption DEF Bounded
<1> QED
  BY <1>2, <1>3, InitRotation, NextRotation, PollingInside, PTL DEF AppSpec, Polling!RotationIsFair

-----------------------------------------------------------------------------
(* One fetch after another.                                                 *)

(* What is counted there is counted here.                                   *)
LEMMA SameCardinality == \A S : Fetching!Cardinality(S) = Cardinality(S)
BY DEF Fetching!Cardinality, Cardinality, Fetching!IsFiniteSet, IsFiniteSet

(* The bounds are numbers, and a plan has any number of files.               *)
Sizes == Planned \in Nat /\ MaxRuns \in Nat /\ MaxFaults \in Nat /\ MaxDeaths \in Nat

(* Files are taken in order, and each gets its disposition once.              *)
InOrder ==
    /\ step # "idle" => at # 0
    /\ step \in {"admitting", "fetching", "recording", "closing", "interrupting"} => at \in Fetching!Files
    /\ \A f \in Fetching!Files : item[f] = "none" <=> at =< f
    /\ step = "recording" => outcome \in Fetching!Outcomes

(* A file reported as available is on record.                                *)
OnRecord == \A f \in Fetching!Files : item[f] \in Fetching!Available => row[f] \in {"downloaded", "processed"}

(* A source in downloading state is the one at hand, or the one whose closing *)
(* failed; one at hand that is not, is processed.                            *)
AtHand ==
    \A f \in Fetching!Files : row[f] = "downloading" =>
      \/ f \in open
      \/ f = at /\ step \in {"fetching", "recording", "closing", "interrupting"}

(* A run that ends before its last file was stopped or failed.               *)
Ending ==
    /\ native /\ step \notin {"idle", "creating", "completing"} => stopped
    /\ step = "interrupting" => stopped
    /\ step = "completing" /\ ~stopped /\ ~fatal => Planned < at

(* The row of a run, from its creation to its end.                            *)
RowKept ==
    /\ \A r \in Fetching!Runs : current < r => run[r] = Fetching!NoRun
    /\ step # "idle" => current \in Fetching!Runs
    /\ step = "creating" => run[current] = Fetching!NoRun
    /\ step \notin {"idle", "creating"} => run[current].status = "running"
    /\ \A r \in Fetching!Runs :
         run[r].status = "running" => r \in unclosed \/ (r = current /\ step # "idle")

(* What the row of the last run says, if it was closed.                       *)
RowTrue ==
    step = "idle" /\ current > 0 /\ run[current].status \in Fetching!Closed =>
      /\ run[current].available = Fetching!Count(Fetching!Available)
      /\ run[current].failed = Fetching!Count({"missing", "error"})
      /\ run[current].status \in {"ok", "partial_ok"} => \A f \in Fetching!Files : item[f] # "none"
      /\ run[current].status = "ok" => \A f \in Fetching!Files : item[f] \in Fetching!Available

(* A cancellation is remembered until the run ends, unless it came while an   *)
(* interrupted source was closed.                                            *)
Remembered == (native => called) /\ (called => native \/ swallowed)

RunInv ==
    /\ Fetching!TypeOK /\ InOrder /\ OnRecord /\ AtHand /\ Ending /\ RowKept /\ RowTrue
    /\ Remembered /\ Fetching!CancellationKept

-----------------------------------------------------------------------------
LEMMA FilesAreFinite ==
    ASSUME Sizes
    PROVE  IsFiniteSet(Fetching!Files) /\ Cardinality(Fetching!Files) = Planned
BY FS_Interval DEF Sizes, Fetching!Files

LEMMA CountType ==
    ASSUME Sizes, NEW S
    PROVE  Fetching!Count(S) \in 0 .. Planned
<1>1. {f \in Fetching!Files : item[f] \in S} \in SUBSET Fetching!Files
  OBVIOUS
<1> QED
  BY <1>1, SameCardinality, FilesAreFinite, FS_Subset, FS_CardinalityType
  DEF Fetching!Count, Sizes

RunType == [status : Fetching!Closed \cup {"none", "running"}, available : 0 .. Planned,
            failed : 0 .. Planned]

RunLeftType == [faults : 0 .. MaxFaults, deaths : 0 .. MaxDeaths]

LEMMA OneFewerLeft ==
    ASSUME Sizes, faults \in RunLeftType
    PROVE  /\ faults.faults > 0 => [faults EXCEPT !.faults = @ - 1] \in RunLeftType
           /\ faults.deaths > 0 => [faults EXCEPT !.deaths = @ - 1] \in RunLeftType
BY DEF Sizes, RunLeftType

LEMMA Parts ==
    ASSUME Fetching!TypeOK
    PROVE  /\ row \in [Fetching!Files -> {"expected", "downloading", "downloaded", "missing", "error",
                                 "processed"}]
           /\ run \in [Fetching!Runs -> RunType]
           /\ event \in BOOLEAN /\ stopped \in BOOLEAN /\ native \in BOOLEAN /\ fatal \in BOOLEAN
           /\ called \in BOOLEAN /\ swallowed \in BOOLEAN /\ ended \in Fetching!Ends
           /\ item \in [Fetching!Files -> Fetching!Outcomes \cup {"none"}]
           /\ faults \in RunLeftType
BY DEF Fetching!TypeOK, RunType, RunLeftType

LEMMA InitRuns == Sizes /\ Fetching!Init => RunInv
<1> SUFFICES ASSUME Sizes, Fetching!Init PROVE RunInv
  OBVIOUS
<1>1. Fetching!TypeOK
  <2>1. Fetching!NoRun \in RunType /\ faults \in RunLeftType
    BY DEF Fetching!NoRun, RunType, Fetching!Init, RunLeftType, Sizes
  <2>2. row \in [Fetching!Files -> {"expected", "downloading", "downloaded", "missing", "error",
                           "processed"}]
        /\ item \in [Fetching!Files -> Fetching!Outcomes \cup {"none"}] /\ run \in [Fetching!Runs -> RunType]
    BY <2>1 DEF Fetching!Init
  <2>3. current \in 0 .. MaxRuns /\ at \in 0 .. Planned + 1 /\ open \subseteq Fetching!Files
        /\ unclosed \subseteq Fetching!Runs
    BY DEF Fetching!Init, Sizes
  <2>4. event \in BOOLEAN /\ stopped \in BOOLEAN /\ native \in BOOLEAN /\ fatal \in BOOLEAN
        /\ called \in BOOLEAN /\ swallowed \in BOOLEAN /\ ended \in Fetching!Ends
    BY DEF Fetching!Init, Fetching!Ends
  <2>5. step = "idle" /\ outcome = "none"
    BY DEF Fetching!Init
  <2> QED
    BY <2>1, <2>2, <2>3, <2>4, <2>5 DEF Fetching!TypeOK, RunType, RunLeftType
<1>2. InOrder /\ OnRecord /\ AtHand /\ Ending
  BY DEF Fetching!Init, InOrder, OnRecord, AtHand, Ending, Fetching!Available, Fetching!Files, Sizes
<1>3. RowKept /\ RowTrue /\ Remembered /\ Fetching!CancellationKept
  BY DEF Fetching!Init, RowKept, RowTrue, Remembered, Fetching!CancellationKept, Fetching!NoRun
<1> QED
  BY <1>1, <1>2, <1>3 DEF RunInv

(* Steps that neither write a run row nor report a file.                      *)
LEMMA BeginRuns ==
    ASSUME Sizes, RunInv, Fetching!Begin
    PROVE  RunInv'
<1> USE DEF RunInv
<1>1. Fetching!TypeOK'
  <2>1. item' \in [Fetching!Files -> Fetching!Outcomes \cup {"none"}] /\ current' \in 0 .. MaxRuns
        /\ at' \in 0 .. Planned + 1
    BY DEF Fetching!Begin, Fetching!TypeOK, Sizes
  <2> QED
    BY <2>1 DEF Fetching!TypeOK, Fetching!Begin, Fetching!rows, Fetching!Ends
<1>2. InOrder'
  BY DEF Fetching!Begin, InOrder, Fetching!Files, Sizes
<1>3. OnRecord'
  BY DEF Fetching!Begin, OnRecord, Fetching!Available
<1>4. AtHand'
  BY DEF Fetching!Begin, AtHand, Fetching!rows
<1>5. Ending'
  BY DEF Fetching!Begin, Ending
<1>6. RowKept'
  BY DEF Fetching!Begin, RowKept, Fetching!rows, Fetching!TypeOK, Fetching!Runs, Sizes,
     Fetching!NoRun
<1>7. RowTrue' /\ Remembered' /\ Fetching!CancellationKept'
  BY DEF Fetching!Begin, RowTrue, Remembered, Fetching!CancellationKept
<1> QED
  BY <1>1, <1>2, <1>3, <1>4, <1>5, <1>6, <1>7

LEMMA CreateRuns ==
    ASSUME Sizes, RunInv, Fetching!Create
    PROVE  RunInv'
<1> USE DEF RunInv
<1>0. current \in Fetching!Runs /\ run[current] = Fetching!NoRun /\ run \in [Fetching!Runs -> RunType]
  BY Parts DEF Fetching!Create, RowKept
<1>1. /\ step = "creating"
      /\ UNCHANGED <<row, open, unclosed, current, at, outcome, item, event, native, fatal, called,
                     swallowed>>
      /\ \/ /\ run' = [run EXCEPT ![current].status = "running"]
            /\ stopped' = (stopped \/ native) /\ faults' = faults
            /\ step' = IF native THEN "completing" ELSE "next"
            /\ ended' = ended
         \/ /\ faults.faults > 0 /\ faults' = [faults EXCEPT !.faults = @ - 1]
            /\ step' = "idle" /\ ended' = "failed" /\ UNCHANGED <<run, stopped>>
  BY DEF Fetching!Create, Fetching!Fault, Fetching!Raised
<1>2. run' \in [Fetching!Runs -> RunType] /\ (step' # "idle" => run'[current].status = "running")
      /\ \A r \in Fetching!Runs : r # current => run'[r] = run[r]
  <2>1. [Fetching!NoRun EXCEPT !.status = "running"] \in RunType
        /\ [Fetching!NoRun EXCEPT !.status = "running"].status = "running"
    BY DEF Fetching!NoRun, RunType, Sizes
  <2> QED
    BY <1>0, <1>1, <2>1
<1>3. Fetching!TypeOK'
  <2>1. faults' \in RunLeftType
    BY <1>1, OneFewerLeft, Parts
  <2>2. stopped' \in BOOLEAN /\ step' \in {"completing", "next", "idle"}
        /\ ended' \in Fetching!Ends
    BY <1>1, Parts DEF Fetching!Ends
  <2> QED
    BY <1>1, <1>2, <2>1, <2>2, Parts DEF Fetching!TypeOK, RunType, RunLeftType
<1>4. InOrder' /\ OnRecord' /\ AtHand'
  BY <1>1 DEF InOrder, OnRecord, AtHand
<1>5. Ending'
  BY <1>1, Parts DEF Ending
<1>6. RowKept'
  <2>1. \A r \in Fetching!Runs : current' < r => r # current /\ run'[r] = Fetching!NoRun
    BY <1>0, <1>1, <1>2 DEF RowKept, Fetching!Runs
  <2>2. \A r \in Fetching!Runs : run'[r].status = "running" =>
          r \in unclosed' \/ (r = current' /\ step' # "idle")
    BY <1>0, <1>1, <1>2 DEF RowKept, Fetching!NoRun
  <2>3. step' \in {"completing", "next", "idle"}
    BY <1>1
  <2> QED
    BY <1>0, <1>1, <1>2, <2>1, <2>2, <2>3 DEF RowKept
<1>7. RowTrue' /\ Remembered' /\ Fetching!CancellationKept'
  BY <1>0, <1>1 DEF RowTrue, Remembered, Fetching!CancellationKept, Fetching!NoRun, Fetching!Closed
<1> QED
  BY <1>3, <1>4, <1>5, <1>6, <1>7

LEMMA NextFileRuns ==
    ASSUME Sizes, RunInv, Fetching!NextFile
    PROVE  RunInv'
<1> USE DEF RunInv
<1>1. /\ step = "next"
      /\ UNCHANGED <<row, run, open, unclosed, current, at, outcome, item, event, native, called,
                     swallowed, ended>>
      /\ \/ at > Planned /\ step' = "completing" /\ UNCHANGED <<stopped, fatal>>
         \/ at =< Planned /\ stopped' = TRUE /\ step' = "completing" /\ UNCHANGED fatal
         \/ at =< Planned /\ step' = "admitting" /\ UNCHANGED <<stopped, fatal>>
         \/ at = 1 /\ fatal' = TRUE /\ step' = "completing" /\ UNCHANGED stopped
      /\ faults' = faults \/ Fetching!Fault
  BY DEF Fetching!NextFile, Fetching!rows
<1>2. Fetching!TypeOK'
  <2>1. faults' \in RunLeftType
    BY <1>1, OneFewerLeft, Parts DEF Fetching!Fault
  <2> QED
    BY <1>1, <2>1, Parts DEF Fetching!TypeOK, RunLeftType
<1>3. InOrder'
  <2>1. at =< Planned => at \in Fetching!Files
    <3>1. at # 0
      BY <1>1 DEF InOrder
    <3> QED
      BY <3>1 DEF Fetching!TypeOK, Fetching!Files, Sizes
  <2> QED
    BY <1>1, <2>1 DEF InOrder
<1>4. OnRecord' /\ AtHand'
  BY <1>1 DEF OnRecord, AtHand
<1>5. Ending'
  BY <1>1, Parts DEF Ending, Fetching!TypeOK, Sizes
<1>6. RowKept'
  BY <1>1 DEF RowKept
<1>7. RowTrue' /\ Remembered' /\ Fetching!CancellationKept'
  BY <1>1 DEF RowTrue, Remembered, Fetching!CancellationKept
<1> QED
  BY <1>2, <1>3, <1>4, <1>5, <1>6, <1>7

(* What a step at a file may do, as long as the run goes on: it writes this    *)
(* file's row alone, and reports it or keeps it at hand.                      *)
AtFile ==
    /\ UNCHANGED <<run, unclosed, current, event, native, called, swallowed, ended>>
    /\ step' \in {"next", "fetching", "recording", "closing", "interrupting", "completing"}
    /\ outcome' \in Fetching!Outcomes \cup {"none"} /\ (step' = "recording" => outcome' \in Fetching!Outcomes)
    /\ stopped' \in BOOLEAN /\ (stopped => stopped')
    /\ fatal' \in BOOLEAN /\ (fatal => fatal')
    /\ step' \in {"interrupting", "completing"} => stopped' \/ fatal'
    /\ step' = "interrupting" => stopped'
    /\ faults' = faults \/ Fetching!Fault
    /\ \E s \in {"downloading", "downloaded", "missing", "error", "processed"} :
         row' = row \/ row' = [row EXCEPT ![at] = s]
    /\ \/ at' = at /\ item' = item /\ step' # "next"
       \/ \E d \in Fetching!Outcomes :
            /\ at' = at + 1 /\ item' = [item EXCEPT ![at] = d] /\ step' = "next"
            /\ d \in Fetching!Available => row'[at] \in {"downloaded", "processed"}
    /\ open' \subseteq Fetching!Files /\ open \subseteq open' \cup {at}
    /\ row'[at] = "downloading" =>
         at \in open' \/ step' \in {"fetching", "recording", "closing", "interrupting"}

LEMMA AtFileRuns ==
    ASSUME Sizes, RunInv, AtFile, at \in Fetching!Files,
           step \in {"admitting", "fetching", "recording", "closing", "interrupting"}
    PROVE  RunInv'
<1> USE DEF RunInv
<1>1. /\ row \in [Fetching!Files -> {"expected", "downloading", "downloaded", "missing", "error",
                            "processed"}]
      /\ item \in [Fetching!Files -> Fetching!Outcomes \cup {"none"}]
      /\ item[at] = "none" /\ at \in Nat
      /\ "none" \notin Fetching!Outcomes /\ Fetching!Available \subseteq Fetching!Outcomes
  BY Parts DEF InOrder, Fetching!Files, Sizes, Fetching!Outcomes, Fetching!Available
<1>2. /\ row' \in [Fetching!Files -> {"expected", "downloading", "downloaded", "missing", "error",
                             "processed"}]
      /\ \A f \in Fetching!Files : f # at => row'[f] = row[f]
  BY <1>1 DEF AtFile
<1>3. /\ item' \in [Fetching!Files -> Fetching!Outcomes \cup {"none"}]
      /\ at' \in 0 .. Planned + 1 /\ at' # 0
      /\ \A f \in Fetching!Files : f # at => item'[f] = item[f]
      /\ step' # "next" => at' = at /\ item'[at] = "none"
      /\ step' = "next" => at' = at + 1 /\ item'[at] \in Fetching!Outcomes
      /\ item'[at] \in Fetching!Available => row'[at] \in {"downloaded", "processed"}
  BY <1>1 DEF AtFile, Fetching!Files, Sizes
<1>4. Fetching!TypeOK'
  <2>1. faults' \in RunLeftType
    BY OneFewerLeft, Parts DEF AtFile, Fetching!Fault
  <2>2. /\ UNCHANGED <<run, unclosed, current, event, native, called, swallowed, ended>>
        /\ step' \in {"next", "fetching", "recording", "closing", "interrupting", "completing"}
        /\ outcome' \in Fetching!Outcomes \cup {"none"} /\ stopped' \in BOOLEAN /\ fatal' \in BOOLEAN
        /\ open' \subseteq Fetching!Files
    BY DEF AtFile
  <2> QED
    BY <1>2, <1>3, <2>1, <2>2 DEF Fetching!TypeOK, RunLeftType
<1>5. InOrder'
  <2>1. \A f \in Fetching!Files : item'[f] = "none" <=> at' =< f
    <3>1. \A f \in Fetching!Files : f \in Nat
      BY DEF Fetching!Files
    <3>2. CASE step' = "next"
      BY <1>1, <1>3, <3>1, <3>2 DEF InOrder
    <3>3. CASE step' # "next"
      BY <1>1, <1>3, <3>1, <3>3 DEF InOrder
    <3> QED
      BY <3>2, <3>3
  <2>2. step' = "recording" => outcome' \in Fetching!Outcomes
    BY DEF AtFile
  <2> QED
    BY <1>3, <2>1, <2>2 DEF InOrder, AtFile
<1>6. OnRecord'
  BY <1>2, <1>3 DEF OnRecord
<1>7. AtHand'
  <2> SUFFICES ASSUME NEW f \in Fetching!Files, row'[f] = "downloading"
               PROVE  \/ f \in open'
                      \/ f = at' /\ step' \in {"fetching", "recording", "closing", "interrupting"}
    BY DEF AtHand
  <2>1. CASE f = at
    BY <1>3, <2>1 DEF AtFile
  <2>2. CASE f # at
    <3>1. f \in open
      BY <1>2, <2>2 DEF AtHand
    <3> QED
      BY <2>2, <3>1 DEF AtFile
  <2> QED
    BY <2>1, <2>2
<1>8. Ending'
  <2>1. step' \in {"interrupting", "completing"} => stopped' \/ fatal'
    BY DEF AtFile
  <2>2. native' /\ step' \notin {"idle", "creating", "completing"} => stopped'
    BY Parts DEF AtFile, Ending
  <2> QED
    BY <2>1, <2>2 DEF Ending, AtFile
<1>9. RowKept'
  BY DEF RowKept, AtFile
<1>10. RowTrue' /\ Remembered' /\ Fetching!CancellationKept'
  BY DEF RowTrue, Remembered, Fetching!CancellationKept, AtFile
<1> QED
  BY <1>4, <1>5, <1>6, <1>7, <1>8, <1>9, <1>10

LEMMA FileSteps ==
    ASSUME Sizes, RunInv, Fetching!Admit \/ Fetching!Fetch \/ Fetching!Record \/ Fetching!Close
    PROVE  /\ AtFile /\ at \in Fetching!Files
           /\ step \in {"admitting", "fetching", "recording", "closing", "interrupting"}
<1> USE DEF RunInv
<1>0. /\ step \in {"admitting", "fetching", "recording", "closing", "interrupting"}
      /\ at \in Fetching!Files
  BY DEF Fetching!Admit, Fetching!Fetch, Fetching!Record, Fetching!Close, InOrder
<1>1. /\ row \in [Fetching!Files -> {"expected", "downloading", "downloaded", "missing", "error",
                            "processed"}]
      /\ outcome \in Fetching!Outcomes \cup {"none"} /\ open \subseteq Fetching!Files
      /\ stopped \in BOOLEAN /\ fatal \in BOOLEAN /\ native \in BOOLEAN
      /\ Fetching!Available = {"downloaded", "reused"}
      /\ Fetching!Outcomes = {"downloaded", "reused", "missing", "error"}
  BY Parts DEF Fetching!TypeOK, Fetching!Outcomes, Fetching!Available
<1>2. ASSUME Fetching!Admit PROVE AtFile
  <2>1. native => stopped
    BY <1>2 DEF Fetching!Admit, Ending
  <2>2. row[at] = "downloading" => at \in open
    BY <1>0, <1>2 DEF Fetching!Admit, AtHand
  <2>3. UNCHANGED <<run, unclosed, current, event, native, called, swallowed, ended, stopped,
                  fatal>>
    BY <1>2 DEF Fetching!Admit, Fetching!flags
  <2>4. ASSUME row' = [row EXCEPT ![at] = IF @ = "processed" THEN @ ELSE "downloading"],
               open' = open \ {at},
               IF native THEN Fetching!Interrupt(row[at]) ELSE step' = "fetching",
               UNCHANGED <<faults, item, at, outcome>>
        PROVE  AtFile
    <3>1. \E s \in {"downloading", "processed"} : row' = [row EXCEPT ![at] = s] /\ row'[at] = s
      BY <1>0, <1>1, <2>4
    <3>2. row'[at] = "processed" <=> row[at] = "processed"
      BY <1>0, <1>1, <2>4
    <3>3. step' \in {"fetching", "interrupting", "completing"}
          /\ (step' # "fetching" => native) /\ (step' = "completing" => row[at] = "processed")
          /\ step' # "recording"
      BY <1>1, <2>4 DEF Fetching!Interrupt
    <3>4. step' \in {"interrupting", "completing"} => stopped'
      BY <2>1, <2>3, <3>3
    <3>5. open' \subseteq Fetching!Files /\ open \subseteq open' \cup {at}
      BY <1>1, <2>4
    <3>6. row'[at] = "downloading" => step' \in {"fetching", "interrupting"}
      BY <3>2, <3>3
    <3>7. \E s \in {"downloading", "downloaded", "missing", "error", "processed"} :
            row' = row \/ row' = [row EXCEPT ![at] = s]
      BY <3>1
    <3>8. stopped' \in BOOLEAN /\ (stopped => stopped') /\ fatal' \in BOOLEAN /\ (fatal => fatal')
      BY <1>1, <2>3
    <3>9. at' = at /\ item' = item /\ faults' = faults /\ outcome' = outcome
      BY <2>4
    <3>10. outcome' \in Fetching!Outcomes \cup {"none"} /\ step' # "next" /\ step' # "recording"
      BY <1>1, <3>3, <3>9
    <3> QED
      BY <2>3, <3>3, <3>4, <3>5, <3>6, <3>7, <3>8, <3>9, <3>10 DEF AtFile
  <2>5. CASE /\ Fetching!Fault /\ step' = "completing" /\ native
             /\ UNCHANGED <<row, open, item, at, outcome>>
    BY <1>1, <2>1, <2>2, <2>3, <2>5 DEF AtFile
  <2>6. CASE Fetching!Fault /\ Fetching!Report("error") /\ UNCHANGED <<row, open>>
    BY <1>1, <2>1, <2>2, <2>3, <2>6 DEF AtFile, Fetching!Report
  <2> QED
    BY <1>2, <2>4, <2>5, <2>6 DEF Fetching!Admit
<1>3. ASSUME Fetching!Fetch PROVE AtFile
  <2>1. UNCHANGED <<row, run, open, unclosed, current, event, native, fatal, called, swallowed,
                    ended, faults>>
    BY <1>3 DEF Fetching!Fetch, Fetching!rows
  <2>2. row[at] = "downloading" => at \in open \/ step' \in {"recording", "interrupting"}
    BY <1>0, <1>1, <1>3 DEF Fetching!Fetch, AtHand, Fetching!Report, Fetching!Interrupt
  <2>3. CASE \E o \in Fetching!Outcomes :
          /\ IF o \in Fetching!Available \/ row[at] # "processed"
             THEN outcome' = o /\ step' = "recording" /\ UNCHANGED <<item, at>>
             ELSE Fetching!Report(o)
          /\ UNCHANGED stopped
    <3>1. PICK o \in Fetching!Outcomes :
            /\ IF o \in Fetching!Available \/ row[at] # "processed"
               THEN outcome' = o /\ step' = "recording" /\ UNCHANGED <<item, at>>
               ELSE Fetching!Report(o)
            /\ UNCHANGED stopped
      BY <2>3
    <3>2. CASE o \in Fetching!Available \/ row[at] # "processed"
      BY <1>1, <2>1, <2>2, <3>1, <3>2 DEF AtFile
    <3>3. CASE ~(o \in Fetching!Available \/ row[at] # "processed")
      BY <1>1, <2>1, <2>2, <3>1, <3>3 DEF AtFile, Fetching!Report
    <3> QED
      BY <3>2, <3>3
  <2>4. CASE stopped' = TRUE /\ Fetching!Interrupt(row[at]) /\ UNCHANGED <<item, at, outcome>>
    <3>1. step' \in {"interrupting", "completing"}
      BY <2>4 DEF Fetching!Interrupt
    <3> QED
      BY <1>1, <2>1, <2>2, <2>4, <3>1 DEF AtFile
  <2> QED
    BY <1>3, <2>3, <2>4 DEF Fetching!Fetch
<1>4. ASSUME Fetching!Record PROVE AtFile
  <2>1. /\ UNCHANGED <<run, unclosed, current, event, stopped, native, called, swallowed, ended>>
        /\ outcome \in Fetching!Outcomes
    BY <1>4 DEF Fetching!Record, InOrder
  <2>2. CASE /\ row' = [row EXCEPT ![at] = IF @ = "processed" THEN @ ELSE Fetching!Recorded(outcome)]
             /\ Fetching!Report(outcome)
             /\ UNCHANGED <<faults, open, fatal>>
    <3>1. \E s \in {"downloaded", "missing", "error", "processed"} :
            /\ row' = [row EXCEPT ![at] = s] /\ row'[at] = s
            /\ outcome \in Fetching!Available => s \in {"downloaded", "processed"}
      BY <1>0, <1>1, <2>1, <2>2 DEF Fetching!Recorded
    <3> QED
      BY <1>1, <2>1, <2>2, <3>1 DEF AtFile, Fetching!Report
  <2>3. CASE /\ outcome \in Fetching!Available /\ step' = "closing" /\ outcome' = "error"
             /\ UNCHANGED <<row, item, at, faults, open, fatal>>
    BY <1>1, <2>1, <2>3 DEF AtFile
  <2>4. CASE /\ outcome \in Fetching!Available /\ row[at] = "processed" /\ Fetching!Report("error")
             /\ UNCHANGED <<row, faults, open, fatal>>
    BY <1>1, <2>1, <2>4 DEF AtFile, Fetching!Report
  <2>5. CASE /\ Fetching!Fault /\ fatal' = TRUE /\ open' = open \cup {at} /\ step' = "completing"
             /\ UNCHANGED <<row, item, at, outcome>>
    BY <1>0, <1>1, <2>1, <2>5 DEF AtFile
  <2> QED
    BY <1>4, <2>2, <2>3, <2>4, <2>5 DEF Fetching!Record
<1>5. ASSUME Fetching!Close PROVE AtFile
  <2>1. /\ UNCHANGED <<run, unclosed, current, event, stopped, native, fatal, called, swallowed,
                    ended>>
        /\ step = "interrupting" => stopped
    BY <1>5 DEF Fetching!Close, Fetching!flags, Ending
  <2>2. /\ open' \subseteq Fetching!Files /\ open \subseteq open' /\ (faults' = faults \/ Fetching!Fault)
        /\ \/ row' = [row EXCEPT ![at] = "error"] /\ row'[at] = "error"
           \/ row' = row /\ at \in open'
    BY <1>0, <1>1, <1>5 DEF Fetching!Close
  <2>3. CASE step = "closing"
    BY <1>1, <1>5, <2>1, <2>2, <2>3 DEF Fetching!Close, Fetching!Report, AtFile
  <2>4. CASE step = "interrupting"
    BY <1>1, <1>5, <2>1, <2>2, <2>4 DEF Fetching!Close, AtFile
  <2> QED
    BY <1>5, <2>3, <2>4 DEF Fetching!Close
<1> QED
  BY <1>0, <1>2, <1>3, <1>4, <1>5

LEMMA CompleteRuns ==
    ASSUME Sizes, RunInv, Fetching!Complete
    PROVE  RunInv'
<1> USE DEF RunInv
<1>1. /\ step = "completing" /\ step' = "idle" /\ current \in Fetching!Runs /\ current \in Nat
      /\ UNCHANGED <<row, open, current, at, outcome, item, event, stopped, native, fatal, called,
                     swallowed>>
      /\ run \in [Fetching!Runs -> RunType] /\ run[current].status = "running"
  BY Parts DEF Fetching!Complete, RowKept, Fetching!flags, Fetching!Runs
<1>2. InOrder' /\ OnRecord' /\ AtHand' /\ Ending' /\ Remembered'
  BY <1>1 DEF InOrder, OnRecord, AtHand, Ending, Remembered
<1>3. CASE /\ Fetching!Fault /\ unclosed' = unclosed \cup {current} /\ ended' = "failed"
           /\ UNCHANGED run
  <2>1. faults' \in RunLeftType
    BY <1>3, OneFewerLeft, Parts DEF Fetching!Fault
  <2>2. Fetching!TypeOK'
    BY <1>1, <1>3, <2>1 DEF Fetching!TypeOK, RunLeftType, Fetching!Ends
  <2>3. RowKept'
    BY <1>1, <1>3 DEF RowKept
  <2>4. RowTrue' /\ Fetching!CancellationKept'
    BY <1>1, <1>3 DEF RowTrue, Fetching!CancellationKept, Fetching!Closed
  <2> QED
    BY <1>2, <2>2, <2>3, <2>4
<1>4. CASE /\ run' = [run EXCEPT ![current] =
                       [status |-> Fetching!Status, available |-> Fetching!Count(Fetching!Available),
                        failed |-> Fetching!Count({"missing", "error"})]]
           /\ ended' = IF native THEN "cancelled" ELSE "returned"
           /\ UNCHANGED <<faults, unclosed>>
  <2>1. PICK new : new = [status |-> Fetching!Status, available |-> Fetching!Count(Fetching!Available),
                          failed |-> Fetching!Count({"missing", "error"})]
    OBVIOUS
  <2>2. new \in RunType /\ new.status \in Fetching!Closed
    BY <2>1, CountType DEF RunType, Fetching!Closed, Fetching!Status
  <2>3. /\ run' \in [Fetching!Runs -> RunType] /\ run'[current] = new
        /\ \A r \in Fetching!Runs : r # current => run'[r] = run[r]
    BY <1>1, <1>4, <2>1, <2>2
  <2>4. Fetching!TypeOK'
    BY <1>1, <1>4, <2>3 DEF Fetching!TypeOK, RunType, Fetching!Ends
  <2>5. RowKept'
    BY <1>1, <1>4, <2>2, <2>3 DEF RowKept, Fetching!Closed, Fetching!Runs
  <2>6. RowTrue'
    <3>1. new.available = Fetching!Count(Fetching!Available)' /\ new.failed = Fetching!Count({"missing", "error"})'
      BY <1>1, <2>1 DEF Fetching!Count, Fetching!Files
    <3>2. new.status \in {"ok", "partial_ok"} => \A f \in Fetching!Files : item'[f] # "none"
      <4>1. SUFFICES ASSUME new.status \in {"ok", "partial_ok"}
                     PROVE  \A f \in Fetching!Files : item[f] # "none"
        BY <1>1
      <4>2. ~stopped /\ ~fatal
        BY <2>1, <4>1 DEF Fetching!Status
      <4>3. Planned < at
        BY <1>1, <4>2 DEF Ending
      <4> QED
        BY <4>3 DEF InOrder, Fetching!Files, Fetching!TypeOK, Sizes
    <3>3. new.status = "ok" => \A f \in Fetching!Files : item'[f] \in Fetching!Available
      <4>1. SUFFICES ASSUME new.status = "ok"
                     PROVE  \A f \in Fetching!Files : item[f] \in Fetching!Available
        BY <1>1
      <4>2. Fetching!Count({"missing", "error"}) = 0
        BY <2>1, <4>1 DEF Fetching!Status
      <4>3. {f \in Fetching!Files : item[f] \in {"missing", "error"}} \in SUBSET Fetching!Files
        OBVIOUS
      <4>4. {f \in Fetching!Files : item[f] \in {"missing", "error"}} = {}
        BY <4>2, <4>3, SameCardinality, FilesAreFinite, FS_Subset, FS_EmptySet DEF Fetching!Count
      <4>5. \A f \in Fetching!Files : item[f] \in {"downloaded", "reused", "missing", "error"}
        BY <1>1, <3>2, <4>1, Parts DEF Fetching!Outcomes, Fetching!Available
      <4> QED
        BY <4>4, <4>5 DEF Fetching!Available
    <3> QED
      BY <1>1, <2>3, <3>1, <3>2, <3>3 DEF RowTrue
  <2>7. Fetching!CancellationKept'
    BY <1>1, <1>4, <2>2, <2>3 DEF Remembered, Fetching!CancellationKept
  <2> QED
    BY <1>2, <2>4, <2>5, <2>6, <2>7
<1> QED
  BY <1>3, <1>4 DEF Fetching!Complete, Fetching!Raised

(* What comes from outside: a stop, a cancellation, the death of the process, *)
(* and the processing of what was downloaded.                               *)
LEMMA RequestRuns ==
    ASSUME Sizes, RunInv, Fetching!RequestStop \/ Fetching!Cancel
    PROVE  RunInv'
<1> USE DEF RunInv
<1>1. /\ UNCHANGED <<row, run, open, unclosed, current, at, outcome, item, fatal, ended, faults>>
      /\ step # "idle" /\ step' # "idle"
      /\ step' = step \/ (step = "fetching" /\ step' \in {"interrupting", "completing"})
                      \/ (step = "next" /\ step' = "completing")
      /\ step = "fetching" /\ row[at] = "downloading" => step' \in {"fetching", "interrupting"}
  BY DEF Fetching!RequestStop, Fetching!Cancel, Fetching!rows
<1>2. /\ event' \in BOOLEAN /\ stopped' \in BOOLEAN /\ native' \in BOOLEAN /\ called' \in BOOLEAN
      /\ swallowed' \in BOOLEAN
      /\ stopped => stopped'
      /\ step' # step => stopped'
      /\ native' => native \/ stopped' \/ step \in {"creating", "completing"}
      /\ Remembered'
  <2>1. CASE Fetching!RequestStop
    BY <2>1, Parts DEF Fetching!RequestStop, Remembered
  <2>2. CASE Fetching!Cancel
    <3>1. /\ event' \in BOOLEAN /\ stopped' \in BOOLEAN /\ native' \in BOOLEAN
          /\ called' \in BOOLEAN /\ swallowed' \in BOOLEAN
      BY <2>2, Parts DEF Fetching!Cancel
    <3>2. (stopped => stopped') /\ (step' # step => stopped')
      BY <2>2, Parts DEF Fetching!Cancel
    <3>3. native' => native \/ stopped' \/ step \in {"creating", "completing"}
      BY <2>2, Parts DEF Fetching!Cancel
    <3>4. Remembered'
      BY <2>2, Parts DEF Fetching!Cancel, Remembered
    <3> QED
      BY <3>1, <3>2, <3>3, <3>4
  <2> QED
    BY <2>1, <2>2
<1>3. Fetching!TypeOK'
  BY <1>1, <1>2 DEF Fetching!TypeOK
<1>4. InOrder' /\ OnRecord'
  BY <1>1 DEF InOrder, OnRecord
<1>5. AtHand'
  BY <1>1 DEF AtHand
<1>6. Ending'
  <2>1. native' /\ step' \notin {"idle", "creating", "completing"} => stopped'
    BY <1>1, <1>2 DEF Ending
  <2>2. step' = "interrupting" => stopped'
    BY <1>1, <1>2 DEF Ending
  <2>3. step' = "completing" /\ ~stopped' /\ ~fatal' => Planned < at'
    BY <1>1, <1>2 DEF Ending
  <2> QED
    BY <2>1, <2>2, <2>3 DEF Ending
<1>7. RowKept'
  BY <1>1 DEF RowKept
<1>8. RowTrue' /\ Fetching!CancellationKept'
  BY <1>1, <1>2 DEF RowTrue, Fetching!CancellationKept
<1> QED
  BY <1>2, <1>3, <1>4, <1>5, <1>6, <1>7, <1>8

LEMMA DieRuns ==
    ASSUME Sizes, RunInv, Fetching!Die
    PROVE  RunInv'
<1> USE DEF RunInv
<1>1. /\ step # "idle" /\ step' = "idle" /\ current \in Fetching!Runs
      /\ UNCHANGED <<row, run, current, at, outcome, item, event, stopped, native, fatal, called,
                     swallowed>>
      /\ open' = open \cup {f \in Fetching!Files : row[f] = "downloading"}
      /\ unclosed' = unclosed \cup {current} /\ ended' = "died"
  BY DEF Fetching!Die, Fetching!flags, RowKept
<1>2. Fetching!TypeOK'
  <2>1. faults' \in RunLeftType
    BY OneFewerLeft, Parts DEF Fetching!Die
  <2> QED
    BY <1>1, <2>1 DEF Fetching!TypeOK, RunLeftType, Fetching!Ends
<1>3. InOrder' /\ OnRecord' /\ AtHand' /\ Ending' /\ Remembered'
  BY <1>1 DEF InOrder, OnRecord, AtHand, Ending, Remembered
<1>4. RowKept'
  BY <1>1 DEF RowKept
<1>5. RowTrue' /\ Fetching!CancellationKept'
  BY <1>1 DEF RowTrue, RowKept, Fetching!CancellationKept, Fetching!NoRun, Fetching!Closed
<1> QED
  BY <1>2, <1>3, <1>4, <1>5

LEMMA ProcessRuns ==
    ASSUME Sizes, RunInv, Fetching!Process
    PROVE  RunInv'
<1> USE DEF RunInv
<1>1. PICK f \in Fetching!Files : row[f] = "downloaded" /\ row' = [row EXCEPT ![f] = "processed"]
  BY DEF Fetching!Process
<1>2. UNCHANGED <<run, open, unclosed, current, at, step, outcome, item, event, stopped, native,
                  fatal, called, swallowed, ended, faults>>
  BY DEF Fetching!Process, Fetching!flags
<1>3. row' \in [Fetching!Files -> {"expected", "downloading", "downloaded", "missing", "error",
                              "processed"}]
      /\ row'[f] = "processed" /\ \A g \in Fetching!Files : g # f => row'[g] = row[g]
  BY <1>1, Parts
<1>4. Fetching!TypeOK'
  BY <1>2, <1>3 DEF Fetching!TypeOK
<1>5. InOrder' /\ OnRecord' /\ AtHand' /\ Ending' /\ Remembered' /\ Fetching!CancellationKept'
  BY <1>2, <1>3 DEF InOrder, OnRecord, AtHand, Ending, Remembered, Fetching!CancellationKept
<1>6. RowKept' /\ RowTrue'
  <2>1. \A S : Fetching!Count(S)' = Fetching!Count(S)
    BY <1>2 DEF Fetching!Count
  <2> QED
    BY <1>2, <2>1 DEF RowKept, RowTrue, Fetching!Count
<1> QED
  BY <1>4, <1>5, <1>6

LEMMA NextRuns == Sizes /\ RunInv /\ [Fetching!Next]_Fetching!vars => RunInv'
<1> SUFFICES ASSUME Sizes, RunInv, [Fetching!Next]_Fetching!vars PROVE RunInv'
  OBVIOUS
<1>1. CASE UNCHANGED Fetching!vars
  BY <1>1 DEF Fetching!vars, RunInv, Fetching!TypeOK, InOrder, OnRecord, AtHand, Ending, RowKept,
     RowTrue,
     Fetching!Count, Remembered, Fetching!CancellationKept
<1>2. CASE Fetching!Work
  BY <1>2, CreateRuns, NextFileRuns, FileSteps, AtFileRuns, CompleteRuns DEF Fetching!Work
<1> QED
  BY <1>1, <1>2, BeginRuns, RequestRuns, DieRuns, ProcessRuns DEF Fetching!Next

-----------------------------------------------------------------------------
LEMMA Truth == Sizes /\ RunInv => Fetching!RunTellsTheTruth
<1> SUFFICES ASSUME Sizes, RunInv,
                    step = "idle", current > 0, run[current].status \in Fetching!Closed,
                    NEW onRecord,
                    onRecord = {f \in Fetching!Files : row[f] \in {"downloaded", "processed"}}
             PROVE  /\ run[current].available =< Cardinality(onRecord)
                    /\ run[current].status = "ok" => onRecord = Fetching!Files
                    /\ run[current].status = "partial_ok" =>
                         run[current].available + run[current].failed = Planned
  BY SameCardinality DEF Fetching!RunTellsTheTruth
<1> USE DEF RunInv
<1>1. PICK good, bad : /\ good = {f \in Fetching!Files : item[f] \in Fetching!Available}
                       /\ bad = {f \in Fetching!Files : item[f] \in {"missing", "error"}}
  OBVIOUS
<1>2. /\ good \in SUBSET onRecord /\ onRecord \in SUBSET Fetching!Files
      /\ good \in SUBSET Fetching!Files /\ bad \in SUBSET Fetching!Files
  BY <1>1 DEF OnRecord
<1>3. IsFiniteSet(Fetching!Files) /\ IsFiniteSet(onRecord) /\ IsFiniteSet(good) /\ IsFiniteSet(bad)
  BY <1>2, FilesAreFinite, FS_Subset
<1>4. run[current].available = Cardinality(good) /\ run[current].failed = Cardinality(bad)
  BY <1>1, SameCardinality DEF RowTrue, Fetching!Count
<1>5. Cardinality(good) =< Cardinality(onRecord)
  BY <1>2, <1>3, FS_Subset
<1>6. run[current].status = "ok" => onRecord = Fetching!Files
  BY DEF RowTrue, OnRecord
<1>7. ASSUME run[current].status = "partial_ok"
      PROVE  Cardinality(good) + Cardinality(bad) = Planned
  <2>1. \A f \in Fetching!Files : item[f] \in {"downloaded", "reused", "missing", "error"}
    BY <1>7, Parts DEF RowTrue, Fetching!Outcomes, Fetching!Available
  <2>2. good \cup bad = Fetching!Files /\ good \cap bad = {}
    BY <1>1, <2>1 DEF Fetching!Available
  <2>3. Cardinality(Fetching!Files) = Cardinality(good) + Cardinality(bad) - Cardinality({})
    BY <1>3, <2>2, FS_Union
  <2>4. Cardinality({}) = 0 /\ Cardinality(good) \in Nat /\ Cardinality(bad) \in Nat
    BY <1>3, FS_EmptySet, FS_CardinalityType
  <2> QED
    BY <2>3, <2>4, FilesAreFinite
<1> QED
  BY <1>4, <1>5, <1>6, <1>7

(* For any number of files and runs: the row of a finished run says what     *)
(* became of its sources; neither a source nor a run is left open but by a    *)
(* write that failed or a death; and run() returns or raises its cancellation *)
(* exactly when its row was closed, a cancelled one only returning when every *)
(* cancellation came while an interrupted source was closed                   *)
(* (acquisition/coordinator.py).                                             *)
THEOREM RunsAreTruthful == AppSpec => []RunTellsTheTruth
<1>1. RunInv => Fetching!CancellationKept /\ Fetching!NoSourceLeftOpen /\ Fetching!NoRunLeftOpen
  BY DEF RunInv, AtHand, RowKept, Fetching!NoSourceLeftOpen, Fetching!NoRunLeftOpen
<1>2. Sizes /\ RunInv => RunTellsTheTruth
  BY <1>1, Truth DEF RunTellsTheTruth
<1>3. Sizes
  BY SizesAssumption DEF Sizes
<1> QED
  BY <1>2, <1>3, InitRuns, NextRuns, FetchingInside, PTL DEF AppSpec

-----------------------------------------------------------------------------
(* Every state of the application is well formed, for any number of owners,  *)
(* hours, files and faults: no count leaves its range, a shutdown is always   *)
(* in one of its stages, the cursor in app_settings is of an hour, and every  *)
(* source of a run has one of its dispositions (ui/state.py, ui/shutdown.py,  *)
(* automatic fetch, db/coordinator).                                          *)
THEOREM TypesHold == AppSpec => []AllTyped
<1>1. AdmissionInv /\ RotationInv /\ RunInv => AllTyped
  BY DEF AdmissionInv, RotationInv, RunInv, AllTyped
<1>2. Bounded /\ Sizes
  BY SizesAssumption DEF Bounded, Sizes
<1> QED
  BY <1>1, <1>2, InitInv, NextInv, InitRotation, NextRotation, InitRuns, NextRuns,
     AdmissionInside, PollingInside, FetchingInside, PTL DEF AppSpec
================================================================================
