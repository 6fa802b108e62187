------------------------------ MODULE FetchRun ------------------------------
(***************************************************************************)
(* One fetch after another by acquisition/coordinator.py: the fetch-run    *)
(* row, the source rows it admits, downloads and closes file by file, the  *)
(* joined writes to both, and what a stop, a native cancellation, a failed *)
(* write or the death of the process leaves behind. What a source row      *)
(* records of its bytes is in RawArchive.                                  *)
(***************************************************************************)
EXTENDS Integers, FiniteSets

CONSTANTS Planned,     (* source files of the plan                         *)
          MaxRuns,     (* fetches                                          *)
          MaxFaults,   (* failed database writes                           *)
          MaxDeaths    (* deaths of the process                            *)

Files == 1 .. Planned
Runs  == 1 .. MaxRuns

VARIABLES
  row,       (* source_hours.status of each file                           *)
  run,       (* the fetch_runs rows                                        *)
  current,   (* the newest run                                             *)
  at,        (* the file the loop is at                                    *)
  step,      (* where the coordinator is; idle: it does not hold the lock  *)
  outcome,   (* what recording writes for the file                         *)
  item,      (* items: the disposition reported for each attempted file    *)
  event,     (* the cooperative cancel event                               *)
  stopped,   (* the run was stopped                                        *)
  native,    (* native_cancellation, raised once the run row is closed     *)
  fatal,     (* an orchestration failure                                   *)
  ended,     (* how the last run() ended: it returned its result, raised   *)
             (* its cancellation or the failure of the write of its own    *)
             (* row, or died with the process                              *)
  called,    (* history: the task was cancelled                            *)
  swallowed, (* history: only while an interrupted source was closed       *)
  open,      (* history: files whose closing write failed or was cut off   *)
  unclosed,  (* history: runs whose terminal write failed or was cut off   *)
  left       (* what the bounds still allow                                *)

flags == <<event, stopped, native, fatal, called, swallowed>>
rows  == <<row, run, open, unclosed>>
vars == <<row, run, current, at, step, outcome, item, event, stopped, native, fatal, ended,
          called, swallowed, open, unclosed, left>>

Available == {"downloaded", "reused"}
Outcomes  == Available \cup {"missing", "error"}

Closed == {"ok", "partial_ok", "error", "stopped"}
Ends   == {"none", "returned", "cancelled", "failed", "died"}
NoRun  == [status |-> "none", available |-> 0, failed |-> 0]

TypeOK ==
  /\ row \in [Files -> {"expected", "downloading", "downloaded", "missing", "error",
                        "processed"}]
  /\ run \in [Runs -> [status : Closed \cup {"none", "running"}, available : 0 .. Planned,
                       failed : 0 .. Planned]]
  /\ current \in 0 .. MaxRuns /\ at \in 0 .. Planned + 1
  /\ step \in {"idle", "creating", "next", "admitting", "fetching", "recording", "closing",
               "interrupting", "completing"}
  /\ outcome \in Outcomes \cup {"none"}
  /\ item \in [Files -> Outcomes \cup {"none"}]
  /\ event \in BOOLEAN /\ stopped \in BOOLEAN /\ native \in BOOLEAN /\ fatal \in BOOLEAN
  /\ called \in BOOLEAN /\ swallowed \in BOOLEAN /\ ended \in Ends
  /\ open \subseteq Files /\ unclosed \subseteq Runs
  /\ left \in [faults : 0 .. MaxFaults, deaths : 0 .. MaxDeaths]

Init ==
  /\ row = [f \in Files |-> "expected"]
  /\ run = [r \in Runs |-> NoRun] /\ current = 0
  /\ at = 0 /\ step = "idle" /\ outcome = "none"
  /\ item = [f \in Files |-> "none"]
  /\ event = FALSE /\ stopped = FALSE /\ native = FALSE /\ fatal = FALSE
  /\ called = FALSE /\ swallowed = FALSE /\ ended = "none"
  /\ open = {} /\ unclosed = {}
  /\ left = [faults |-> MaxFaults, deaths |-> MaxDeaths]

Fault == left.faults > 0 /\ left' = [left EXCEPT !.faults = @ - 1]

-----------------------------------------------------------------------------
(* run(): the lock is taken in the step which found it free.               *)
Begin ==
  /\ step = "idle" /\ current < MaxRuns
  /\ current' = current + 1 /\ at' = 1 /\ step' = "creating" /\ outcome' = "none"
  /\ item' = [f \in Files |-> "none"]
  /\ event' = FALSE /\ stopped' = FALSE /\ native' = FALSE /\ fatal' = FALSE
  /\ called' = FALSE /\ swallowed' = FALSE /\ ended' = "none"
  /\ UNCHANGED <<rows, left>>

(* Slip: a remembered cancellation is raised before the write is looked at. *)
RaisedFirst(failed) ==
  CASE native -> "cancelled" [] failed /\ ~native -> "failed" [] OTHER -> "returned"

(* What ends run() once the write of its own row was joined: its failure   *)
(* first, then the cancellation, and only then the result.                 *)
Raised(failed) ==
  CASE failed -> "failed" [] native /\ ~failed -> "cancelled" [] OTHER -> "returned"

(* Slip: a cancellation is raised as soon as the run row was committed.    *)
CreateAbandons ==
  /\ step = "creating"
  /\ \/ /\ run' = [run EXCEPT ![current].status = "running"]
        /\ step' = IF native THEN "idle" ELSE "next"
        /\ ended' = IF native THEN "cancelled" ELSE "none"
        /\ UNCHANGED <<left, stopped>>
     \/ Fault /\ step' = "idle" /\ ended' = Raised(TRUE) /\ UNCHANGED <<run, stopped>>
  /\ UNCHANGED <<row, open, unclosed, current, at, outcome, item, event, native, fatal, called,
                 swallowed>>

(* The run row was committed. A cancellation meanwhile stops the run       *)
(* before its first file; a failed creation has no row to close, and its   *)
(* failure is raised even if the task was cancelled.                       *)
Create ==
  /\ step = "creating"
  /\ \/ /\ run' = [run EXCEPT ![current].status = "running"]
        /\ stopped' = (stopped \/ native)
        /\ step' = IF native THEN "completing" ELSE "next"
        /\ UNCHANGED <<left, ended>>
     \/ Fault /\ step' = "idle" /\ ended' = Raised(TRUE) /\ UNCHANGED <<run, stopped>>
  /\ UNCHANGED <<row, open, unclosed, current, at, outcome, item, event, native, fatal, called,
                 swallowed>>

(* The next file, unless the run was stopped or, before the first, the     *)
(* downloader could not be set up.                                         *)
NextFile ==
  /\ step = "next"
  /\ \/ at > Planned /\ step' = "completing" /\ UNCHANGED <<stopped, fatal, left>>
     \/ /\ at <= Planned /\ event /\ stopped' = TRUE /\ step' = "completing"
        /\ UNCHANGED <<fatal, left>>
     \/ /\ at <= Planned /\ ~event /\ step' = "admitting"
        /\ UNCHANGED <<stopped, fatal, left>>
     \/ /\ at = 1 /\ Fault /\ fatal' = TRUE /\ step' = "completing"
        /\ UNCHANGED stopped
  /\ UNCHANGED <<rows, current, at, outcome, item, event, native, called, swallowed, ended>>

(* Slip: the loop advances twice over a file it reported.                  *)
ReportTwice(d) ==
  /\ item' = [item EXCEPT ![at] = d]
  /\ at' = at + 2 /\ step' = "next" /\ outcome' = "none"

(* The file is done with disposition d, and the loop goes on.              *)
Report(d) ==
  /\ item' = [item EXCEPT ![at] = d]
  /\ at' = at + 1 /\ step' = "next" /\ outcome' = "none"

(* Slip: a stopped source is left in downloading state.                    *)
InterruptLeaves(status) == step' = "completing"

(* A source left in downloading state is closed before the run ends; an    *)
(* already processed one was never marked.                                 *)
Interrupt(status) == step' = IF status = "processed" THEN "completing" ELSE "interrupting"

(* Admission marks the file unless it is processed already. A failure      *)
(* fails this file alone.                                                  *)
Admit ==
  /\ step = "admitting"
  /\ \/ /\ row' = [row EXCEPT ![at] = IF @ = "processed" THEN @ ELSE "downloading"]
        /\ open' = open \ {at}
        /\ IF native THEN Interrupt(row[at]) ELSE step' = "fetching"
        /\ UNCHANGED <<left, item, at, outcome>>
     \/ /\ Fault
        /\ IF native THEN step' = "completing" /\ UNCHANGED <<item, at, outcome>>
                     ELSE Report("error")
        /\ UNCHANGED <<row, open>>
  /\ UNCHANGED <<run, unclosed, current, flags, ended>>

(* The downloader answers: an archive, fetched or reused; not found; an    *)
(* error; or that it saw the cancel event. A processed row is left alone   *)
(* by a failure.                                                           *)
Fetch ==
  /\ step = "fetching"
  /\ \/ \E o \in Outcomes :
          /\ IF o \in Available \/ row[at] # "processed"
             THEN outcome' = o /\ step' = "recording" /\ UNCHANGED <<item, at>>
             ELSE Report(o)
          /\ UNCHANGED stopped
     \/ /\ event
        /\ stopped' = TRUE
        /\ Interrupt(row[at])
        /\ UNCHANGED <<item, at, outcome>>
  /\ UNCHANGED <<rows, current, event, native, fatal, called, swallowed, ended, left>>

Recorded(o) == CASE o \in Available -> "downloaded" [] OTHER -> o

(* The outcome is written. An archive may be refused (the provider now     *)
(* serves other bytes) or its write fail: the source is closed with an     *)
(* error. A failed write of a failure ends the whole run.                  *)
Record ==
  /\ step = "recording"
  /\ \/ /\ row' = [row EXCEPT ![at] = IF @ = "processed" THEN @ ELSE Recorded(outcome)]
        /\ Report(outcome)
        /\ UNCHANGED <<left, open, fatal>>
     \/ /\ outcome \in Available /\ row[at] # "processed"
        /\ step' = "closing" /\ outcome' = "error"
        /\ UNCHANGED <<row, item, at, left, open, fatal>>
     \/ /\ outcome \in Available /\ row[at] = "processed"
        /\ Report("error")
        /\ UNCHANGED <<row, left, open, fatal>>
     \/ /\ outcome \notin Available /\ Fault
        /\ fatal' = TRUE /\ open' = open \cup {at} /\ step' = "completing"
        /\ UNCHANGED <<row, item, at, outcome>>
  /\ UNCHANGED <<run, unclosed, current, event, stopped, native, called, swallowed, ended>>

(* record_error after a refused archive, and _record_interrupted_source:   *)
(* both go on when the write fails.                                        *)
Close ==
  /\ step \in {"closing", "interrupting"}
  /\ \/ row' = [row EXCEPT ![at] = "error"] /\ UNCHANGED <<open, left>>
     \/ Fault /\ open' = open \cup {at} /\ UNCHANGED row
  /\ IF step = "closing" THEN Report("error")
     ELSE step' = "completing" /\ UNCHANGED <<item, at, outcome>>
  /\ UNCHANGED <<run, unclosed, current, flags, ended>>

Count(S) == Cardinality({f \in Files : item[f] \in S})

(* Slip: the status forgets the files a refused archive failed.            *)
StatusOfMissing ==
  IF fatal THEN "error"
  ELSE IF stopped THEN "stopped"
  ELSE IF Count({"missing"}) = 0 THEN "ok"
  ELSE IF Count(Available) > 0 THEN "partial_ok" ELSE "error"

Status ==
  IF fatal THEN "error"
  ELSE IF stopped THEN "stopped"
  ELSE IF Count({"missing", "error"}) = 0 THEN "ok"
  ELSE IF Count(Available) > 0 THEN "partial_ok" ELSE "error"

(* The terminal write of the run row, then the remembered cancellation is   *)
(* raised or the result returned, and the lock released. A failed write is  *)
(* raised instead of either, and the row stays running.                     *)
Complete ==
  /\ step = "completing"
  /\ step' = "idle"
  /\ \/ /\ run' = [run EXCEPT ![current] =
                    [status |-> Status, available |-> Count(Available),
                     failed |-> Count({"missing", "error"})]]
        /\ ended' = Raised(FALSE)
        /\ UNCHANGED <<left, unclosed>>
     \/ Fault /\ unclosed' = unclosed \cup {current} /\ ended' = Raised(TRUE) /\ UNCHANGED run
  /\ UNCHANGED <<row, open, current, at, outcome, item, flags>>

-----------------------------------------------------------------------------
(* The user's Stop, or a stop of the automatic loop.                       *)
RequestStop ==
  /\ step # "idle" /\ ~event /\ event' = TRUE
  /\ UNCHANGED <<rows, current, at, step, outcome, item, stopped, native, fatal, ended,
                 called, swallowed, left>>

(* Slip: a cancellation during a terminal write is only a stop.            *)
CancelForgotten ==
  /\ step # "idle"
  /\ called' = TRUE
  /\ event' = (event \/ step \notin {"interrupting", "completing"})
  /\ native' = (native \/ step \notin {"recording", "closing", "interrupting"})
  /\ stopped' = (stopped \/ step \notin {"creating", "interrupting", "completing"})
  /\ swallowed' = (swallowed \/ (step = "interrupting" /\ ~native))
  /\ step' = CASE step = "fetching" /\ row[at] # "processed" -> "interrupting"
               [] step = "fetching" /\ row[at] = "processed" -> "completing"
               [] step = "next" -> "completing"
               [] OTHER -> step
  /\ UNCHANGED <<rows, current, at, outcome, item, fatal, ended, left>>

(* The task is cancelled. While a write is in flight the cancellation is   *)
(* remembered and the write joined; closing an interrupted source joins    *)
(* too, but remembers nothing.                                             *)
Cancel ==
  /\ step # "idle"
  /\ called' = TRUE
  /\ event' = (event \/ step \notin {"interrupting", "completing"})
  /\ native' = (native \/ step # "interrupting")
  /\ stopped' = (stopped \/ step \notin {"creating", "interrupting", "completing"})
  /\ swallowed' = (swallowed \/ (step = "interrupting" /\ ~native))
  /\ step' = CASE step = "fetching" /\ row[at] # "processed" -> "interrupting"
               [] step = "fetching" /\ row[at] = "processed" -> "completing"
               [] step = "next" -> "completing"
               [] OTHER -> step
  /\ UNCHANGED <<rows, current, at, outcome, item, fatal, ended, left>>

(* The process dies: what was not committed is lost, and nothing at        *)
(* start-up closes run rows or source rows.                                *)
Die ==
  /\ step # "idle" /\ left.deaths > 0
  /\ left' = [left EXCEPT !.deaths = @ - 1]
  /\ step' = "idle" /\ ended' = "died"
  /\ open' = open \cup {f \in Files : row[f] = "downloading"}
  /\ unclosed' = unclosed \cup {current}
  /\ UNCHANGED <<row, run, current, at, outcome, item, flags>>

(* Between fetches a downloaded hour is processed.                         *)
Process ==
  \E f \in Files :
    /\ step = "idle" /\ row[f] = "downloaded"
    /\ row' = [row EXCEPT ![f] = "processed"]
    /\ UNCHANGED <<run, open, unclosed, current, at, step, outcome, item, flags, ended, left>>

Work == Create \/ NextFile \/ Admit \/ Fetch \/ Record \/ Close \/ Complete
Next == Begin \/ Work \/ RequestStop \/ Cancel \/ Die \/ Process

Spec == Init /\ [][Next]_vars

(* Joined writes end, and the downloader answers or times out.             *)
Fairness == WF_vars(Work)
FairSpec == Spec /\ Fairness

-----------------------------------------------------------------------------
(* Nothing is left half done: once the lock is free, a source is in        *)
(* downloading state only if the write that should have closed it failed   *)
(* or died, and it stays so only until it is admitted again.               *)
NoSourceLeftOpen ==
  step = "idle" => {f \in Files : row[f] = "downloading"} \subseteq open

(* Likewise the run rows.                                                  *)
NoRunLeftOpen ==
  \A r \in Runs : run[r].status = "running" => r \in unclosed \/ (r = current /\ step # "idle")

(* The row of a finished run says what became of the sources: every file   *)
(* counted available is on record, an ok run has all of them, and a        *)
(* stopped or failed run never claims more.                                *)
RunTellsTheTruth ==
  step = "idle" /\ current > 0 /\ run[current].status \in Closed =>
    LET onRecord == {f \in Files : row[f] \in {"downloaded", "processed"}} IN
    /\ run[current].available <= Cardinality(onRecord)
    /\ run[current].status = "ok" => onRecord = Files
    /\ run[current].status = "partial_ok" =>
         run[current].available + run[current].failed = Planned

(* run() returns, or raises its cancellation, exactly when its row was     *)
(* closed; it raises a cancellation only if the task was cancelled. A      *)
(* cancelled one returns only if every cancellation came while an          *)
(* interrupted source was closed; when the write that creates or closes    *)
(* its own row fails it raises that failure instead, and the row is        *)
(* missing or left running.                                                *)
CancellationKept ==
  step = "idle" /\ current > 0 =>
    /\ ended \in {"returned", "cancelled"} <=> run[current].status \in Closed
    /\ ended = "cancelled" => called
    /\ called /\ ended = "returned" => swallowed

(* The lock is given back.                                                 *)
RunEnds == []<>(step = "idle")
=============================================================================
