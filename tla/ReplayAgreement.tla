--------------------------- MODULE ReplayAgreement ---------------------------
(***************************************************************************)
(* Two replays of the same archives: processing an hour twice (a retry, a   *)
(* new preset, a reprocessing) starts from whatever the search plan finds   *)
(* at the time, a checkpoint, a carried chain or a cold book.  Checkpoints  *)
(* are immutable artifacts (checkpoint_store.py raises                      *)
(* CheckpointConflictError on a different one for the same hour), so the    *)
(* two runs must never freeze different states at the same boundary.        *)
(*                                                                         *)
(* `replay' and `other' consume the same events; each may be restarted at   *)
(* an archive boundary, cold or from a checkpoint either of them froze.     *)
(***************************************************************************)
EXTENDS OrderBookReplay

VARIABLES
    other,              \* the second run
    otherCheckpoint     \* the checkpoint it froze at the last boundary

pairVars == <<vars, other, otherCheckpoint>>

Frozen == {checkpoint, otherCheckpoint} \ {NoCheckpoint}

PairInit ==
    /\ Init
    /\ other = Fresh
    /\ otherCheckpoint = NoCheckpoint

BothConsume(e) ==
    /\ Consume(e)
    /\ other' = Apply(other, e)
    /\ UNCHANGED otherCheckpoint

BothNextArchive ==
    /\ NextArchive
    /\ other' = MarkCarried(other)
    /\ otherCheckpoint' = IF CheckpointEligible(other)
                          THEN CheckpointOf(other) ELSE NoCheckpoint

RestartReplay ==
    /\ Restore \/ ColdStart
    /\ UNCHANGED <<other, otherCheckpoint>>

RestoreOther(c) ==
    /\ atStart
    /\ other' = FromCheckpoint(c)
    /\ UNCHANGED <<vars, otherCheckpoint>>

ColdStartOther ==
    /\ atStart
    /\ other' = Fresh
    /\ UNCHANGED <<vars, otherCheckpoint>>

PairNext ==
    \/ \E e \in Events : BothConsume(e)
    \/ BothNextArchive
    \/ RestartReplay
    \/ \E c \in Frozen : RestoreOther(c)
    \/ ColdStartOther

PairSpec == PairInit /\ [][PairNext]_pairVars

-----------------------------------------------------------------------------
Agree(x, y) == x.book = y.book /\ x.frontier = y.frontier

(* Wherever and however two replays of the same archives began, while both  *)
(* trust their books they hold the same book at the same frontier.          *)
ReplaysAgree == replay.valid /\ other.valid => Agree(replay, other)

(* CheckpointConflictError cannot arise from replaying the same bytes: two  *)
(* checkpoints frozen at one boundary are equal, and either is the state    *)
(* any valid run carries over that boundary.                                *)
OneCheckpointPerBoundary ==
    \A c \in Frozen :
        /\ \A d \in Frozen : c = d
        /\ atStart => \A r \in {replay, other} : r.valid => Agree(r, c)
=============================================================================
