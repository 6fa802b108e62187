------------------------- MODULE OperationAdmission -------------------------
(***************************************************************************)
(* Who may work when, inside one process: the operation name and the       *)
(* operation lock of ui/state.py, the owners that reserve them (manual     *)
(* fetch, processing, remote import, analysis, automatic fetch, Settings), *)
(* their tasks, the synchronous worker threads that outlive a cancelled    *)
(* task, the registered database readers, and the shutdown of              *)
(* ui/shutdown.py, which may dispose the engine only when all are gone.    *)
(*                                                                         *)
(* One asyncio loop runs everything but the threads, so a step is what a   *)
(* coroutine does between two awaits.                                      *)
(***************************************************************************)
EXTENDS Naturals, FiniteSets

CONSTANTS Owners,       (* the owners present, of AllOwners                *)
          MaxCalls,     (* synchronous worker calls of one operation       *)
          MaxShutdowns  (* shutdown attempts                               *)

Manual    == {"manual_fetch", "remote_import", "manual_processing", "manual_analysis_load"}
AllOwners == Manual \cup {"automatic_fetch", "settings"}
Nobody    == "nobody"
Readers   == {"page", "refresh"}

ASSUME OwnersAssumption == Owners \subseteq AllOwners
ASSUME BoundsAssumption == MaxCalls \in Nat \ {0} /\ MaxShutdowns \in Nat

VARIABLES
  name,       (* state.active_operation_name                               *)
  lock,       (* holder of state.operation_lock                            *)
  task,       (* task[o]: none, scheduled (created, not entered), running, *)
              (* finished (ended unentered, its done callback pending)     *)
  phase,      (* what o's worker calls do: exclusive work, or the reads    *)
              (* the automatic loop makes outside its reservation          *)
  calls,      (* worker calls o still has to make                          *)
  thread,     (* owners whose synchronous worker thread runs               *)
  stop,       (* owners whose stop event is set                            *)
  cancelled,  (* owners whose task was cancelled                           *)
  readers,    (* state.untracked_db_workers: reader threads                *)
  shut        (* the shutdown: barrier, stage, what it could not prove     *)

work == <<name, lock, task, phase, calls, thread, stop, cancelled>>
vars == <<name, lock, task, phase, calls, thread, stop, cancelled, readers, shut>>

(* Owners are stopped in this order; analysis is never cancelled by its    *)
(* own stage.                                                              *)
StageOrder == <<"automatic_fetch", "manual_fetch", "remote_import", "manual_processing",
                "manual_analysis_load", "lock", "tasks", "readers", "decide">>
Stages == {StageOrder[i] : i \in DOMAIN StageOrder}
After(s) == StageOrder[(CHOOSE i \in DOMAIN StageOrder : StageOrder[i] = s) + 1]

TypeOK ==
  /\ name \in Owners \cup {Nobody}
  /\ lock \in Owners \cup {Nobody}
  /\ task \in [Owners -> {"none", "scheduled", "running", "finished"}]
  /\ phase \in [Owners -> {"none", "polling", "waiting", "exclusive"}]
  /\ calls \in [Owners -> 0 .. MaxCalls]
  /\ thread \subseteq Owners
  /\ stop \subseteq Owners
  /\ cancelled \subseteq Owners
  /\ readers \subseteq Readers
  /\ shut \in [started : BOOLEAN, complete : BOOLEAN, stage : Stages \cup {"idle"},
               waiting : BOOLEAN, forced : BOOLEAN, unproved : BOOLEAN, left : Nat]

Init ==
  /\ name = Nobody /\ lock = Nobody
  /\ task = [o \in Owners |-> "none"]
  /\ phase = [o \in Owners |-> "none"]
  /\ calls = [o \in Owners |-> 0]
  /\ thread = {} /\ stop = {} /\ cancelled = {} /\ readers = {}
  /\ shut = [started |-> FALSE, complete |-> FALSE, stage |-> "idle", waiting |-> FALSE,
             forced |-> FALSE, unproved |-> FALSE, left |-> MaxShutdowns]

IsRunning(o) == task[o] \in {"scheduled", "running"}

-----------------------------------------------------------------------------
(* Ends of operations. _run's finally releases the lock it acquired and    *)
(* the name it owns, and drops the task, in one step of the loop.          *)
Leave(o) ==
  /\ lock' = IF lock = o THEN Nobody ELSE lock
  /\ name' = IF name = o THEN Nobody ELSE name
  /\ task' = [task EXCEPT ![o] = "none"]
  /\ phase' = [phase EXCEPT ![o] = "none"]
  /\ calls' = [calls EXCEPT ![o] = 0]
  /\ thread' = thread \ {o}
  /\ stop' = stop \ {o}
  /\ cancelled' = cancelled \ {o}

(* A worker call: asyncio.to_thread, awaited through a shield.             *)
Call(o, left, what) ==
  /\ thread' = thread \cup {o}
  /\ calls' = [calls EXCEPT ![o] = left]
  /\ phase' = [phase EXCEPT ![o] = what]

(* start() of the four manual runtimes reserves the name and creates the   *)
(* task in one step of the loop; the barrier and the name refuse it.       *)
Reserve(o) ==
  /\ o \in Owners
  /\ ~shut.started /\ name = Nobody
  /\ name' = o
  /\ task' = [task EXCEPT ![o] = "scheduled"]
  /\ UNCHANGED <<lock, phase, calls, thread, stop, cancelled, readers, shut>>

StartFetch  == Reserve("manual_fetch") /\ task["manual_fetch"] = "none"
StartImport == Reserve("remote_import") /\ task["remote_import"] = "none"

(* Processing admits over a task that is done but not finalized, were its  *)
(* name not still reserved.                                                *)
StartProcessing == Reserve("manual_processing") /\ ~IsRunning("manual_processing")

(* Analysis also looks at the lock.                                        *)
StartAnalysis ==
  Reserve("manual_analysis_load") /\ task["manual_analysis_load"] = "none" /\ lock = Nobody

(* The first step of a created task. One cancelled before it ends without  *)
(* entering _run; otherwise _run looks at stop and shutdown (import and    *)
(* analysis), at the lock (all), takes it and starts its first call.       *)
Unentered(o) ==
  /\ task[o] = "scheduled" /\ o \in cancelled
  /\ task' = [task EXCEPT ![o] = "finished"]
  /\ UNCHANGED <<name, lock, phase, calls, thread, stop, cancelled, readers, shut>>

LooksAtStop(o) == o \in {"remote_import", "manual_analysis_load"}

Enter(o) ==
  /\ task[o] = "scheduled" /\ o \notin cancelled
  /\ \/ /\ \/ LooksAtStop(o) /\ (o \in stop \/ shut.started)
           \/ lock # Nobody
        /\ Leave(o)
     \/ /\ ~(LooksAtStop(o) /\ (o \in stop \/ shut.started))
        /\ lock = Nobody
        /\ lock' = o
        /\ task' = [task EXCEPT ![o] = "running"]
        /\ \E n \in 0 .. MaxCalls - 1 : Call(o, n, "exclusive")
        /\ UNCHANGED <<name, stop, cancelled>>
  /\ UNCHANGED <<readers, shut>>

(* Slip: the callback of a task that never entered does not release what   *)
(* start() reserved.                                                       *)
FinalizeForgets(o) ==
  /\ task[o] = "finished"
  /\ task' = [task EXCEPT ![o] = "none"]
  /\ stop' = stop \ {o}
  /\ cancelled' = cancelled \ {o}
  /\ UNCHANGED <<name, lock, phase, calls, thread, readers, shut>>

(* The done callback of a task that never entered _run.                    *)
Finalize(o) == task[o] = "finished" /\ Leave(o) /\ UNCHANGED <<readers, shut>>

(* A worker thread ends.                                                   *)
ThreadEnds(o) ==
  /\ o \in thread
  /\ thread' = thread \ {o}
  /\ UNCHANGED <<name, lock, task, phase, calls, stop, cancelled, readers, shut>>

(* Slip: one call too many, the range taken to its end.                    *)
ResumeOnceMore(o) ==
  /\ task[o] = "running" /\ o \notin thread
  /\ \/ /\ Call(o, calls[o] - 1, "exclusive")
        /\ UNCHANGED <<name, lock, task, stop, cancelled>>
     \/ calls[o] = 0 /\ Leave(o)
  /\ UNCHANGED <<readers, shut>>

(* The coroutine resumes after a call: the next file, target or artifact,  *)
(* unless a stop or a cancellation was seen. A fetch still closes its run  *)
(* row with one more write.                                                *)
Resume(o) ==
  /\ task[o] = "running" /\ o \notin thread
  /\ LET over == o \in stop \cup cancelled IN
     \/ /\ calls[o] > 0 /\ (over => o = "manual_fetch")
        /\ Call(o, IF over THEN 0 ELSE calls[o] - 1, "exclusive")
        /\ UNCHANGED <<name, lock, task, stop, cancelled>>
     \/ /\ calls[o] = 0 \/ (over /\ o # "manual_fetch")
        /\ Leave(o)
  /\ UNCHANGED <<readers, shut>>

-----------------------------------------------------------------------------
(* Settings: preset mutations and maintenance run in a handler without a   *)
(* runtime object. A mutation ends by refreshing the presets, a registered *)
(* read that shutdown admits because it holds the lock.                    *)
SettingsStart ==
  /\ "settings" \in Owners
  /\ ~shut.started /\ name = Nobody /\ lock = Nobody /\ task["settings"] = "none"
  /\ name' = "settings" /\ lock' = "settings"
  /\ task' = [task EXCEPT !["settings"] = "running"]
  /\ \E n \in {0, 1} : Call("settings", n, "exclusive")
  /\ UNCHANGED <<stop, cancelled, readers, shut>>

SettingsRefresh ==
  /\ "settings" \in Owners
  /\ task["settings"] = "running" /\ "settings" \notin thread
  /\ calls["settings"] = 1 /\ "settings" \notin cancelled /\ "refresh" \notin readers
  /\ readers' = readers \cup {"refresh"}
  /\ calls' = [calls EXCEPT !["settings"] = 0]
  /\ UNCHANGED <<name, lock, task, phase, thread, stop, cancelled, shut>>

SettingsEnd ==
  /\ "settings" \in Owners
  /\ task["settings"] = "running" /\ "settings" \notin thread
  /\ \/ "settings" \in cancelled
     \/ calls["settings"] = 0 /\ "refresh" \notin readers
  /\ Leave("settings")
  /\ UNCHANGED <<readers, shut>>

(* NiceGUI may cancel the handler; the worker is joined all the same.      *)
SettingsCancelled ==
  /\ "settings" \in Owners
  /\ task["settings"] = "running" /\ "settings" \notin cancelled
  /\ cancelled' = cancelled \cup {"settings"}
  /\ UNCHANGED <<name, lock, task, phase, calls, thread, stop, readers, shut>>

-----------------------------------------------------------------------------
(* Automatic fetch: a loop that polls without any reservation, reserves    *)
(* the name for the quarantine and takes the lock for the acquisition.     *)
AutoLoop == "automatic_fetch"

AutoStart ==
  /\ AutoLoop \in Owners
  /\ ~shut.started /\ ~IsRunning(AutoLoop) /\ name = Nobody
  /\ task' = [task EXCEPT ![AutoLoop] = "scheduled"]
  /\ stop' = stop \ {AutoLoop}
  /\ cancelled' = cancelled \ {AutoLoop}
  /\ UNCHANGED <<name, lock, phase, calls, thread, readers, shut>>

(* Entering and every later poll: the enabled flag, the completeness of    *)
(* the window and the cursor are read in threads.                          *)
AutoPoll ==
  /\ AutoLoop \in Owners /\ AutoLoop \notin cancelled \cup thread
  /\ \/ task[AutoLoop] = "scheduled"
     \/ task[AutoLoop] = "running" /\ phase[AutoLoop] = "waiting" /\ AutoLoop \notin stop
  /\ task' = [task EXCEPT ![AutoLoop] = "running"]
  /\ Call(AutoLoop, 0, "polling")
  /\ UNCHANGED <<name, lock, stop, cancelled, readers, shut>>

(* Slip: the attempt does not look whether an operation is active.         *)
AutoAttemptAnyway ==
  /\ AutoLoop \in Owners /\ task[AutoLoop] = "running" /\ phase[AutoLoop] = "polling"
  /\ AutoLoop \notin thread \cup stop \cup cancelled
  /\ name' = AutoLoop
  /\ Call(AutoLoop, MaxCalls, "exclusive")
  /\ UNCHANGED <<lock, task, stop, cancelled, readers, shut>>

(* An incomplete hour was selected: reserve the name, unless another       *)
(* operation has it, and quarantine in a thread.                           *)
AutoAttempt ==
  /\ AutoLoop \in Owners /\ task[AutoLoop] = "running" /\ phase[AutoLoop] = "polling"
  /\ AutoLoop \notin thread \cup stop \cup cancelled
  /\ name = Nobody
  /\ name' = AutoLoop
  /\ Call(AutoLoop, MaxCalls, "exclusive")
  /\ UNCHANGED <<lock, task, stop, cancelled, readers, shut>>

(* The coordinator runs under the lock.                                    *)
AutoFetch ==
  /\ AutoLoop \in Owners /\ task[AutoLoop] = "running" /\ phase[AutoLoop] = "exclusive"
  /\ AutoLoop \notin thread \cup cancelled
  /\ calls[AutoLoop] > 0
  /\ \/ lock = Nobody /\ AutoLoop \notin stop
     \/ lock = AutoLoop
  /\ lock' = AutoLoop
  /\ Call(AutoLoop, IF AutoLoop \in stop THEN 0 ELSE calls[AutoLoop] - 1, "exclusive")
  /\ UNCHANGED <<name, task, stop, cancelled, readers, shut>>

(* Slip: an attempt the lock refused keeps the name it reserved.           *)
AutoRestKeepsName ==
  /\ AutoLoop \in Owners /\ task[AutoLoop] = "running"
  /\ AutoLoop \notin thread \cup cancelled
  /\ \/ phase[AutoLoop] = "polling"
     \/ phase[AutoLoop] = "exclusive" /\ (calls[AutoLoop] = 0 \/ lock # AutoLoop)
  /\ lock' = IF lock = AutoLoop THEN Nobody ELSE lock
  /\ name' = IF lock = AutoLoop THEN Nobody ELSE name
  /\ phase' = [phase EXCEPT ![AutoLoop] = "waiting"]
  /\ calls' = [calls EXCEPT ![AutoLoop] = 0]
  /\ UNCHANGED <<task, thread, stop, cancelled, readers, shut>>

(* The iteration ends: nothing to do, deferred, refused by the lock, or    *)
(* attempted. Lock and name go back and the loop waits for the next poll.  *)
AutoRest ==
  /\ AutoLoop \in Owners /\ task[AutoLoop] = "running"
  /\ AutoLoop \notin thread \cup cancelled
  /\ \/ phase[AutoLoop] = "polling"
     \/ phase[AutoLoop] = "exclusive" /\ (calls[AutoLoop] = 0 \/ lock # AutoLoop)
  /\ lock' = IF lock = AutoLoop THEN Nobody ELSE lock
  /\ name' = IF name = AutoLoop THEN Nobody ELSE name
  /\ phase' = [phase EXCEPT ![AutoLoop] = "waiting"]
  /\ calls' = [calls EXCEPT ![AutoLoop] = 0]
  /\ UNCHANGED <<task, thread, stop, cancelled, readers, shut>>

AutoLeave ==
  /\ AutoLoop \in Owners /\ task[AutoLoop] = "running" /\ AutoLoop \notin thread
  /\ \/ AutoLoop \in cancelled
     \/ AutoLoop \in stop /\ phase[AutoLoop] = "waiting"
  /\ Leave(AutoLoop)
  /\ UNCHANGED <<readers, shut>>

-----------------------------------------------------------------------------
(* Registered readers of pages and health probes. The barrier refuses new  *)
(* ones; cancelling the caller leaves the thread running and registered.   *)
ReaderStarts ==
  /\ ~shut.started /\ "page" \notin readers
  /\ readers' = readers \cup {"page"}
  /\ UNCHANGED <<name, lock, task, phase, calls, thread, stop, cancelled, shut>>

ReaderEnds(r) ==
  /\ r \in readers
  /\ readers' = readers \ {r}
  /\ UNCHANGED <<name, lock, task, phase, calls, thread, stop, cancelled, shut>>

(* The user's Stop. A fetch which has not entered its coordinator has no   *)
(* event to set: the request is refused.                                   *)
Stoppable(o) == IF o = "manual_fetch" THEN task[o] = "running" ELSE IsRunning(o)

RequestStop(o) ==
  /\ Stoppable(o) /\ o \notin stop
  /\ stop' = stop \cup {o}
  /\ UNCHANGED <<name, lock, task, phase, calls, thread, cancelled, readers, shut>>

-----------------------------------------------------------------------------
(* Shutdown. The barrier comes first; then each owner is asked to stop,    *)
(* waited for, cancelled when the grace is over and waited for again.      *)
ShutdownBegins ==
  /\ shut.stage = "idle" /\ ~shut.complete /\ shut.left > 0
  /\ shut' = [shut EXCEPT !.started = TRUE, !.stage = StageOrder[1], !.waiting = FALSE,
                          !.forced = FALSE, !.unproved = FALSE, !.left = @ - 1]
  /\ UNCHANGED <<work, readers>>

OwnerStages == Manual \cup {AutoLoop}
Moved(s) == [s EXCEPT !.stage = After(s.stage), !.waiting = FALSE, !.forced = FALSE]

(* stop_and_wait, then force_cancel_and_wait: ask, once each.              *)
ShutdownAsks ==
  LET o == shut.stage IN
  /\ o \in OwnerStages \cap Owners /\ IsRunning(o) /\ ~shut.waiting
  /\ stop' = IF Stoppable(o) THEN stop \cup {o} ELSE stop
  /\ cancelled' = IF shut.forced THEN cancelled \cup {o} ELSE cancelled
  /\ shut' = [shut EXCEPT !.waiting = TRUE]
  /\ UNCHANGED <<name, lock, task, phase, calls, thread, readers>>

(* The owner's task is done, or it has no runtime.                         *)
ShutdownMovesOn ==
  /\ shut.stage \in OwnerStages
  /\ shut.stage \in Owners => ~IsRunning(shut.stage)
  /\ shut' = Moved(shut)
  /\ UNCHANGED <<work, readers>>

(* The grace is over. Analysis has no forced cancellation of its own.      *)
ShutdownTimesOut ==
  /\ shut.stage \in OwnerStages \cap Owners /\ shut.waiting /\ IsRunning(shut.stage)
  /\ shut' = IF shut.forced \/ shut.stage = "manual_analysis_load"
             THEN [Moved(shut) EXCEPT !.unproved = TRUE]
             ELSE [shut EXCEPT !.forced = TRUE, !.waiting = FALSE]
  /\ UNCHANGED <<work, readers>>

(* An untracked holder of the lock is waited for, with a bound.            *)
ShutdownLock ==
  /\ shut.stage = "lock"
  /\ \/ /\ shut.unproved \/ lock = Nobody
        /\ shut' = Moved(shut)
     \/ /\ ~shut.unproved /\ lock # Nobody
        /\ shut' = [Moved(shut) EXCEPT !.unproved = TRUE]
  /\ UNCHANGED <<work, readers>>

(* Every tracked task is cancelled and waited for; the Settings handlers   *)
(* are not tracked.                                                        *)
Tracked == {o \in Owners \ {"settings"} : IsRunning(o)}

ShutdownTasks ==
  /\ shut.stage = "tasks"
  /\ \/ /\ ~shut.waiting
        /\ cancelled' = cancelled \cup Tracked
        /\ shut' = [shut EXCEPT !.waiting = TRUE]
     \/ /\ shut.waiting
        /\ shut' = IF Tracked = {} THEN Moved(shut) ELSE [Moved(shut) EXCEPT !.unproved = TRUE]
        /\ UNCHANGED cancelled
  /\ UNCHANGED <<name, lock, task, phase, calls, thread, stop, readers>>

(* Slip: the readers' threads are not joined.                              *)
ShutdownSkipsReaders ==
  /\ shut.stage = "readers"
  /\ shut' = Moved(shut)
  /\ UNCHANGED <<work, readers>>

(* Reader threads are joined: all of them, or the time is up.              *)
ShutdownReaders ==
  /\ shut.stage = "readers"
  /\ shut' = IF readers = {} THEN Moved(shut) ELSE [Moved(shut) EXCEPT !.unproved = TRUE]
  /\ UNCHANGED <<work, readers>>

(* Dispose the engine and publish completion, or raise: the barrier stays  *)
(* and the user may press Shutdown again.                                  *)
ShutdownDecides ==
  /\ shut.stage = "decide"
  /\ shut' = [shut EXCEPT !.stage = "idle", !.complete = ~shut.unproved]
  /\ name' = IF shut.unproved THEN name ELSE Nobody
  /\ UNCHANGED <<lock, task, phase, calls, thread, stop, cancelled, readers>>

-----------------------------------------------------------------------------
Operation(o) == Unentered(o) \/ Enter(o) \/ Finalize(o) \/ Resume(o)
Starts == StartFetch \/ StartImport \/ StartProcessing \/ StartAnalysis

Settings  == SettingsStart \/ SettingsRefresh \/ SettingsEnd \/ SettingsCancelled
Automatic == AutoStart \/ AutoPoll \/ AutoAttempt \/ AutoFetch \/ AutoRest \/ AutoLeave
             \/ (AutoLoop \in Owners /\ (Unentered(AutoLoop) \/ Finalize(AutoLoop)))
Reading   == ReaderStarts \/ \E r \in Readers : ReaderEnds(r)
ShutdownProgress == ShutdownAsks \/ ShutdownMovesOn \/ ShutdownTimesOut \/ ShutdownLock
                    \/ ShutdownTasks \/ ShutdownReaders \/ ShutdownDecides

Next ==
  \/ Starts
  \/ \E o \in Owners \cap Manual : Operation(o)
  \/ \E o \in Owners : ThreadEnds(o)
  \/ \E o \in Owners \ {"settings"} : RequestStop(o)
  \/ Settings \/ Automatic \/ Reading \/ ShutdownBegins \/ ShutdownProgress

Spec == Init /\ [][Next]_vars

(* Threads end, the loop resumes what is ready, and a shutdown's waits are *)
(* bounded. Nobody has to start, stop or cancel anything.                  *)
Fairness ==
  /\ \A o \in Owners : WF_vars(ThreadEnds(o))
  /\ \A o \in Owners \cap Manual :
       WF_vars(Operation(o))
  /\ WF_vars(SettingsRefresh \/ SettingsEnd)
  /\ WF_vars(AutoFetch) /\ WF_vars(AutoRest) /\ WF_vars(AutoLeave)
  /\ \A r \in Readers : WF_vars(ReaderEnds(r))
  /\ WF_vars(ShutdownProgress)

FairSpec == Spec /\ Fairness

-----------------------------------------------------------------------------
(* The engine is disposed only when no thread can still use a session: no  *)
(* operation's worker, no registered reader, no task that could start one  *)
(* (a late session would silently build a new engine).                     *)
DisposalIsSafe ==
  shut.complete => thread = {} /\ readers = {} /\ \A o \in Owners : ~IsRunning(o)

(* At most one owner's exclusive work is in a thread at any time, though   *)
(* the automatic loop quarantines under the name alone and a cancelled     *)
(* owner's thread goes on.  And the name is never left reserved by an      *)
(* owner that is gone, not even one cancelled before it first ran; a held  *)
(* lock has a live holder.                                                 *)
WorkIsExclusive ==
  /\ \A o, p \in thread : phase[o] = "exclusive" /\ phase[p] = "exclusive" => o = p
  /\ name # Nobody => task[name] # "none"
  /\ lock # Nobody => task[lock] = "running"

(* What was reserved is given back, and a shutdown attempt ends.           *)
ReservationsEnd == []<>(name = Nobody) /\ []<>(shut.stage = "idle")
=============================================================================
