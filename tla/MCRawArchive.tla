----------------------------- MODULE MCRawArchive -----------------------------
(* Two instances of the raw archive. One behaviour is of one of them, and the *)
(* variables of the other rest in their initial state:                        *)
(*   hours: one application process over two source hours;                    *)
(*   apps: two processes, which share the database and the raw directory,     *)
(*         over one hour.                                                     *)
EXTENDS RawArchive, TLC

CONSTANTS OneHour, TwoApps

VARIABLES part, status2, attached2, digest2, file2, hidden2, served2, republished2, crashes2,
          rotted2, kind2, hour2, bytes2, kept2, batch2, held2, moved2

vars2 == <<status2, attached2, digest2, file2, hidden2, served2, republished2, crashes2,
           rotted2, kind2, hour2, bytes2, kept2, batch2, held2, moved2>>

Shared ==
  INSTANCE RawArchive WITH
    Hours <- OneHour, Apps <- TwoApps,
    status <- status2, attached <- attached2, digest <- digest2, file <- file2,
    hidden <- hidden2, served <- served2, republished <- republished2, crashes <- crashes2,
    rotted <- rotted2, kind <- kind2, hour <- hour2, bytes <- bytes2, kept <- kept2,
    batch <- batch2, held <- held2, moved <- moved2

(* The parts start with what is served and every process down; the part that *)
(* rests follows the other's choice.                                         *)
MCInit ==
  /\ Init /\ Shared!Init /\ part \in {"hours", "apps"}
  /\ \A g \in OneHour : IF part = "hours" THEN served2[g] = served[g]
                        ELSE \A h \in Hours : served[h] = served2[g]
  /\ part = "apps" => hour = [a \in Apps |-> CHOOSE h \in Hours : TRUE]

MCNext ==
  \/ part = "hours" /\ Next /\ UNCHANGED <<part, vars2>>
  \/ part = "apps" /\ Shared!Next /\ UNCHANGED <<part, vars>>

MCSpec == MCInit /\ [][MCNext]_<<part, vars, vars2>>

(* Values no definition tells apart.                                         *)
Symmetry == Permutations(Tags) \cup Permutations(Bytes) \cup Permutations(TwoApps)

-----------------------------------------------------------------------------
(* Two processes which share only the database and the raw directory keep    *)
(* the bytes of every unprocessed row, and the durable identity of a row.    *)
SharedHourIsKept == []Shared!UnprocessedBytesKept /\ Shared!DurableIdentity
=============================================================================
