--------------------------- MODULE AnalyticalDatabase ---------------------------
(***************************************************************************)
(* The analytical rows and what depends on them. One behaviour is of one of *)
(* these parts, and the variables of the others rest in an initial state:    *)
(*   ownership: the checkpoints of a chain of hours and the rows that own    *)
(*              them;                                                       *)
(*   import: the import of ranges of remote artifacts;                       *)
(*   presets: the rows of presets, next to runs that write hours of them;    *)
(*   maintenance: what is previewed, confirmed and executed on settings      *)
(*              pages.                                                      *)
(***************************************************************************)
EXTENDS CheckpointOwnership

CONSTANTS
  SourceHours, Markets, Depths, Artifacts(_), DigestOf(_), Requests,   \* of the import
  MaxPublished, MaxImports, MaxSteps,
  DataPresets, Editable,                                              \* of the presets
  Rows, Files, Pages, Discovered(_), StaleAfter, OrphanAge, Validity, \* of maintenance
  MaxTime, MaxMoves,
  Null

VARIABLES
  part,
  published, head, imports, source, listed, runtime, job, result, ended, steps,
  rows, hourRows, tx, chosen,
  clock, rowState, file, referenced, open, page, lock, worker, effects, audits, moves

importVars == <<published, head, imports, source, listed, runtime, job, result, ended, steps>>
presetVars == <<rows, hourRows, tx, chosen>>
maintenanceVars ==
  <<clock, rowState, file, referenced, open, page, lock, worker, effects, audits, moves>>

everything == <<part, vars, importVars, presetVars, maintenanceVars>>

Import ==
  INSTANCE RemoteImport WITH
    Hours <- SourceHours, MaxRuns <- MaxImports, MaxEvents <- MaxSteps,
    stored <- imports, events <- steps

Managed == INSTANCE PresetLifecycle WITH Presets <- DataPresets, series <- hourRows

Maintenance ==
  INSTANCE MaintenanceAction WITH
    MaxEvents <- MaxMoves, now <- clock, row <- rowState, events <- moves

(* Requests are of hours and markets that are there, and nothing that is      *)
(* written, and no page, is Null.                                            *)
ASSUME ImportAssumption == Import!ImportAssumptions
ASSUME PagesAssumption == Null \notin Pages

-----------------------------------------------------------------------------
(* Of two hours, to cross the book matters where a checkpoint would go on: in *)
(* the first, set by a snapshot. Elsewhere it is as if the book were lost.     *)
PartsInit ==
  /\ part \in {"ownership", "import", "presets", "maintenance"}
  /\ Init /\ Import!Init /\ Managed!Init /\ Maintenance!Init
  /\ part # "ownership" => crossed = {} /\ \A h \in Hours : turn[h] = "set"
  /\ crossed \subseteq {h \in Hours : h < LastHour /\ turn[h] = "set"}
  /\ part # "import" => runtime.backend = "hf"
  /\ part # "maintenance" => referenced = {}

PartsNext ==
  /\ UNCHANGED part
  /\ \/ part = "ownership" /\ Next /\ UNCHANGED <<importVars, presetVars, maintenanceVars>>
     \/ part = "import" /\ Import!Next /\ UNCHANGED <<vars, presetVars, maintenanceVars>>
     \/ part = "presets" /\ Managed!Next /\ UNCHANGED <<vars, importVars, maintenanceVars>>
     \/ part = "maintenance" /\ Maintenance!Next /\ UNCHANGED <<vars, importVars, presetVars>>

PartsSpec == PartsInit /\ [][PartsNext]_everything

-----------------------------------------------------------------------------
(* What the result of an import says of its keys is so, a source hour owns    *)
(* what its rows hold, and the end of every run is counted.                   *)
ImportIsTrue ==
  part = "import" => Import!ImportIsTrue

(* A deletion that is about to commit removes a disabled preset without       *)
(* hours, every hour has its preset, and a run that finds a preset leaves it  *)
(* as the user last chose it.                                                *)
PresetsAreSafe == part = "presets" => Managed!PresetsAreSafe

(* Maintenance does what was confirmed on the page it was shown on, once, to  *)
(* what is still in the state that made it a candidate; and its report is     *)
(* true of every candidate.                                                  *)
MaintenanceIsConfirmed ==
  part = "maintenance" => Maintenance!MaintenanceIsConfirmed
=============================================================================
