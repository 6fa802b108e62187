----------------------------- MODULE Application -----------------------------
(* What runs in one application. One behaviour is of one of these parts, and *)
(* the variables of the others rest in their initial state:                  *)
(*   admission: every owner of the operation lock, and shutdown;             *)
(*   automatic: the automatic fetch over process lives;                      *)
(*   fetch: one fetch run after another.                                     *)
EXTENDS OperationAdmission

CONSTANTS CatchUp, LastHour, MaxPresses, MaxRestarts, AutoFaults,
          Planned, MaxRuns, MaxFaults, MaxDeaths

VARIABLES
  part,
  newest, complete, busy, saved, cursor, loop, poll, loopStop, cancel, writes, process,
  wanted, spoiled, skipped, presses,
  row, run, current, at, step, outcome, item, event, stopped, native, fatal, ended,
  called, swallowed, open, unclosed, faults

automaticVars == <<newest, complete, busy, saved, cursor, loop, poll, loopStop, cancel, writes,
                   process, wanted, spoiled, skipped, presses>>
fetchVars == <<row, run, current, at, step, outcome, item, event, stopped, native, fatal,
               ended, called, swallowed, open, unclosed, faults>>
all == <<part, vars, automaticVars, fetchVars>>

(* Sizes and bounds are numbers.                                             *)
ASSUME SizesAssumption ==
  /\ LastHour \in Nat /\ MaxPresses \in Nat /\ MaxRestarts \in Nat /\ AutoFaults \in Nat
  /\ Planned \in Nat /\ MaxRuns \in Nat /\ MaxFaults \in Nat /\ MaxDeaths \in Nat

Polling ==
  INSTANCE AutomaticFetch WITH stop <- loopStop, left <- presses, MaxFaults <- AutoFaults
Fetching == INSTANCE FetchRun WITH left <- faults

-----------------------------------------------------------------------------
AppInit ==
  /\ part \in {"admission", "automatic", "fetch"}
  /\ Init /\ Polling!Init /\ Fetching!Init

AppNext ==
  /\ UNCHANGED part
  /\ \/ part = "admission" /\ Next /\ UNCHANGED <<automaticVars, fetchVars>>
     \/ part = "automatic" /\ Polling!Next /\ UNCHANGED <<vars, fetchVars>>
     \/ part = "fetch" /\ Fetching!Next /\ UNCHANGED <<vars, automaticVars>>

(* The fairness of each part, for the part that moves.                       *)
AdmissionFairness ==
  /\ \A o \in Owners : WF_vars(part = "admission" /\ ThreadEnds(o))
  /\ \A o \in Owners \cap Manual : WF_vars(part = "admission" /\ Operation(o))
  /\ WF_vars(part = "admission" /\ (SettingsRefresh \/ SettingsEnd))
  /\ WF_vars(part = "admission" /\ AutoFetch) /\ WF_vars(part = "admission" /\ AutoRest)
  /\ WF_vars(part = "admission" /\ AutoLeave)
  /\ \A r \in Readers : WF_vars(part = "admission" /\ ReaderEnds(r))
  /\ WF_vars(part = "admission" /\ ShutdownProgress)

AutomaticFairness ==
  /\ WF_automaticVars(part = "automatic" /\ Polling!Loop)
  /\ WF_automaticVars(part = "automatic" /\ Polling!Commits)
  /\ WF_automaticVars(part = "automatic" /\ Polling!Restart)
  /\ SF_automaticVars(part = "automatic" /\ Polling!Attempted)

AppSpec ==
  /\ AppInit /\ [][AppNext]_all
  /\ AdmissionFairness /\ AutomaticFairness
  /\ WF_fetchVars(part = "fetch" /\ Fetching!Work)

-----------------------------------------------------------------------------
(* Once the last press was Stop and nothing is in flight, the automatic      *)
(* fetch is switched off, unless a write failed or was interrupted.          *)
StopIsFinal == Polling!StopIsFinal

(* Between two attempts of an hour every other incomplete hour has its turn, *)
(* and every incomplete hour of the window gets its attempt.                 *)
NoHourStarves == Polling!RotationIsFair /\ Polling!NoHourStarves

(* The row of a finished run says what became of its sources; no source and  *)
(* no run row is left open but by a failed or lost write; and a cancelled    *)
(* fetch raises its cancellation, unless it only came while an interrupted   *)
(* source was closed, or the write of the run's own row failed: then run()   *)
(* raises that failure, and the row is missing or left running.              *)
RunTellsTheTruth ==
  /\ Fetching!RunTellsTheTruth /\ Fetching!CancellationKept
  /\ Fetching!NoSourceLeftOpen /\ Fetching!NoRunLeftOpen

(* Every reservation of the operation lock ends, and a fetch gives the lock  *)
(* back.                                                                     *)
EverythingEnds == ReservationsEnd /\ Fetching!RunEnds

(* The states of every part are well formed.                                 *)
AllTyped == TypeOK /\ Polling!TypeOK /\ Fetching!TypeOK
=============================================================================
