--------------------------- MODULE AutomaticFetch ---------------------------
(***************************************************************************)
(* The automatic fetch of ui/automatic_fetch_runtime.py over process       *)
(* lives: the switch persisted in app_settings, which the loop and the     *)
(* Stop handler both write from worker threads, and the retry cursor, by   *)
(* which a polling loop rotates through the incomplete hours of a bounded  *)
(* window that moves on while it works.                                    *)
(***************************************************************************)
EXTENDS Naturals, FiniteSetsExt

CONSTANTS CatchUp,     (* hours of the catch-up window                     *)
          LastHour,    (* the clock stops here                             *)
          MaxPresses,  (* Start and Stop, by the user                      *)
          MaxRestarts, (* ends of the process, crash or shutdown           *)
          MaxFaults    (* failed settings writes, corrupted hours          *)

NoHour == LastHour + 1
Hours  == 0 .. LastHour

VARIABLES
  newest,   (* the newest release-eligible hour                            *)
  complete, (* hours whose eight local sources are complete                *)
  busy,     (* another operation holds the name                            *)
  saved,    (* app_settings: automatic fetch enabled                       *)
  cursor,   (* app_settings: window and hour of the last attempt           *)
  loop,     (* where the loop is                                           *)
  poll,     (* what this iteration read, and its target                    *)
  stop,     (* the loop's stop event                                       *)
  cancel,   (* its task was cancelled                                      *)
  writes,   (* commits of the switch in flight in worker threads           *)
  process,  (* up, closing (the shutdown barrier), down (orderly), crashed *)
  wanted,   (* history: what the user pressed last                         *)
  spoiled,  (* history: a write of the switch failed, or its loop was      *)
            (* cancelled                                                   *)
  skipped,  (* history: <<h, k>>, k was attempted since h was, both in the *)
            (* window of the cursor, h incomplete ever since               *)
  left      (* what the bounds still allow                                 *)

switch == <<saved, writes, wanted, spoiled>>
window == <<newest, complete, busy>>
vars == <<newest, complete, busy, saved, cursor, loop, poll, stop, cancel, writes, process,
          wanted, spoiled, skipped, left>>

NoCursor == [newest |-> NoHour, hour |-> NoHour]
NoPoll   == [newest |-> NoHour, complete |-> {}, target |-> NoHour]

TypeOK ==
  /\ newest \in Hours /\ complete \subseteq Hours /\ busy \in BOOLEAN
  /\ saved \in BOOLEAN /\ wanted \in BOOLEAN /\ spoiled \in BOOLEAN
  /\ cursor \in [newest : Hours, hour : Hours] \cup {NoCursor}
  /\ loop \in {"none", "admitted", "restored", "enabling", "undoing", "reading", "choosing",
               "attempting", "advancing", "clearing", "waiting"}
  /\ poll \in [newest : Hours \cup {NoHour}, complete : SUBSET Hours,
               target : Hours \cup {NoHour}]
  /\ stop \in BOOLEAN /\ cancel \in BOOLEAN
  /\ writes \subseteq {"loop", "stop"} \X BOOLEAN
  /\ process \in {"up", "closing", "down", "crashed"}
  /\ skipped \subseteq Hours \X Hours
  /\ left \in [presses : 0 .. MaxPresses, restarts : 0 .. MaxRestarts, faults : 0 .. MaxFaults]

Init ==
  /\ newest = 0 /\ complete = {} /\ busy = FALSE
  /\ saved = FALSE /\ cursor = NoCursor
  /\ loop = "none" /\ poll = NoPoll /\ stop = FALSE /\ cancel = FALSE
  /\ writes = {} /\ process = "up"
  /\ wanted = FALSE /\ spoiled = FALSE /\ skipped = {}
  /\ left = [presses |-> MaxPresses, restarts |-> MaxRestarts, faults |-> MaxFaults]

-----------------------------------------------------------------------------
(* The window and the target.                                              *)
Window(n) == {h \in Hours : h <= n /\ n < h + CatchUp}

Newest(S) == IF S = {} THEN NoHour ELSE Max(S)

(* A cursor of an earlier window is ignored: the newest hour goes first.   *)
ReadCursor(n) == IF cursor.newest = n THEN cursor.hour ELSE NoHour

(* Slip: the rotation is not wrapped but restarted at the newest hour as   *)
(* soon as it came to be incomplete again.                                 *)
TargetNewestFirst(n, done, after) ==
  LET incomplete == Window(n) \ done
      older == {h \in incomplete : after # NoHour /\ h < after} IN
  Newest(IF older # {} /\ n \in done THEN older ELSE incomplete)

(* The next older incomplete hour after the cursor; without one, the       *)
(* newest incomplete.                                                      *)
Target(n, done, after) ==
  LET incomplete == Window(n) \ done
      older == {h \in incomplete : after # NoHour /\ h < after} IN
  Newest(IF older # {} THEN older ELSE incomplete)

-----------------------------------------------------------------------------
(* The switch. A commit in a worker thread takes its time; it may fail.    *)
Commit(by, value) ==
  /\ <<by, value>> \in writes
  /\ writes' = writes \ {<<by, value>>}
  /\ \/ saved' = value /\ UNCHANGED <<left, spoiled>>
     \/ /\ <<by, value>> # <<"loop", TRUE>>
        /\ left.faults > 0 /\ left' = [left EXCEPT !.faults = @ - 1]
        /\ spoiled' = TRUE /\ UNCHANGED saved
  /\ UNCHANGED <<window, cursor, loop, poll, stop, cancel, process, wanted, skipped>>

LoopWrites == \E v \in BOOLEAN : <<"loop", v>> \in writes

(* start(): refused under the barrier, while an operation is active and    *)
(* while the loop still stops; idempotent while it runs.                   *)
PressStart ==
  /\ process = "up" /\ loop = "none" /\ ~busy /\ left.presses > 0
  /\ loop' = "admitted" /\ stop' = FALSE /\ cancel' = FALSE
  /\ wanted' = TRUE
  /\ left' = [left EXCEPT !.presses = @ - 1]
  /\ UNCHANGED <<window, cursor, poll, saved, writes, process, spoiled, skipped>>

(* stop_and_wait(persist): the stop event first, then the durable write.   *)
PressStop ==
  /\ process = "up" /\ left.presses > 0
  /\ \A v \in BOOLEAN : <<"stop", v>> \notin writes
  /\ stop' = (stop \/ loop # "none")
  /\ writes' = writes \cup {<<"stop", FALSE>>}
  /\ wanted' = FALSE
  /\ left' = [left EXCEPT !.presses = @ - 1]
  /\ UNCHANGED <<window, cursor, loop, poll, saved, cancel, process, spoiled, skipped>>

(* The loop persists "enabled" before it looks at its stop event.          *)
Enable ==
  /\ loop = "admitted" /\ ~cancel
  /\ loop' = "enabling"
  /\ writes' = writes \cup {<<"loop", TRUE>>}
  /\ UNCHANGED <<window, saved, cursor, poll, stop, cancel, process, wanted, spoiled,
                 skipped, left>>

(* Slip: the event is not looked at again after the enable write.          *)
EnabledBlindly ==
  /\ loop = "enabling" /\ ~LoopWrites /\ ~cancel
  /\ loop' = "waiting"
  /\ UNCHANGED <<window, switch, cursor, poll, stop, cancel, process, skipped, left>>

(* A stop raced with the enable write: write "disabled" after it.          *)
Enabled ==
  /\ loop = "enabling" /\ ~LoopWrites /\ ~cancel
  /\ IF stop THEN loop' = "undoing" /\ writes' = writes \cup {<<"loop", FALSE>>}
             ELSE loop' = "waiting" /\ UNCHANGED writes
  /\ UNCHANGED <<window, saved, wanted, spoiled, cursor, poll, stop, cancel, process, skipped,
                 left>>

(* The task ends: its finally clears the runtime. In-flight work of its    *)
(* own is always joined first.                                             *)
Ended ==
  /\ loop' = "none" /\ poll' = NoPoll /\ stop' = FALSE /\ cancel' = FALSE

Leave ==
  /\ loop # "none" /\ ~LoopWrites
  /\ \/ stop /\ loop \in {"restored", "undoing", "reading", "choosing", "waiting"}
     \/ cancel /\ loop \notin {"attempting", "advancing", "clearing"}
  /\ Ended
  /\ UNCHANGED <<window, switch, cursor, process, skipped, left>>

(* The enable write failed: reported, and the loop ends.                   *)
EnableFailed ==
  /\ <<"loop", TRUE>> \in writes /\ left.faults > 0
  /\ left' = [left EXCEPT !.faults = @ - 1]
  /\ writes' = writes \ {<<"loop", TRUE>>}
  /\ spoiled' = TRUE
  /\ Ended
  /\ UNCHANGED <<window, saved, wanted, cursor, process, skipped>>

-----------------------------------------------------------------------------
(* One polling iteration; after it the loop waits for the next.            *)
Rest == loop' = "waiting" /\ poll' = NoPoll

Poll ==
  /\ loop \in {"restored", "waiting"} /\ ~stop /\ ~cancel
  /\ loop' = "reading"
  /\ poll' = [NoPoll EXCEPT !.newest = newest]
  /\ UNCHANGED <<window, switch, cursor, stop, cancel, process, skipped, left>>

ReadComplete ==
  /\ loop = "reading" /\ ~stop /\ ~cancel
  /\ loop' = "choosing"
  /\ poll' = [poll EXCEPT !.complete = complete]
  /\ UNCHANGED <<window, switch, cursor, stop, cancel, process, skipped, left>>

(* Nothing left: forget the rotation. Another operation: defer. Else take  *)
(* the name and quarantine what is corrupt of the hour.                    *)
Choose ==
  /\ loop = "choosing" /\ ~stop /\ ~cancel
  /\ LET after == ReadCursor(poll.newest)
         h == Target(poll.newest, poll.complete, after) IN
     \/ h = NoHour /\ after # NoHour /\ loop' = "clearing" /\ UNCHANGED poll
     \/ h # NoHour /\ ~busy /\ loop' = "attempting" /\ poll' = [poll EXCEPT !.target = h]
     \/ (IF h = NoHour THEN after = NoHour ELSE busy) /\ Rest
  /\ UNCHANGED <<window, switch, cursor, stop, cancel, process, skipped, left>>

Clear ==
  /\ loop = "clearing"
  /\ cursor' = NoCursor /\ Rest
  /\ UNCHANGED <<window, switch, stop, cancel, process, skipped, left>>

(* Hours which became complete wait for nothing.                           *)
Forget(S) == {p \in skipped : p[1] \notin S}

(* The attempt: the hour was skipped, because its corrupt bytes could not  *)
(* be withdrawn, or the coordinator ran, with whatever success. A stop     *)
(* before the coordinator leaves no trace, and neither does a lock that is *)
(* still held.                                                             *)
Attempt ==
  /\ loop = "attempting"
  /\ \/ loop' = "advancing" /\ UNCHANGED <<poll, complete, skipped>>
     \/ /\ loop' = "advancing" /\ UNCHANGED poll
        /\ complete' = complete \cup {poll.target} /\ skipped' = Forget({poll.target})
     \/ Rest /\ UNCHANGED <<complete, skipped>>
  /\ UNCHANGED <<newest, busy, switch, cursor, stop, cancel, process, left>>

(* A read fails: reported, and tried again at the next poll.               *)
IterationFails ==
  /\ loop \in {"reading", "choosing", "clearing"} /\ left.faults > 0
  /\ Rest /\ left' = [left EXCEPT !.faults = @ - 1]
  /\ UNCHANGED <<window, switch, cursor, stop, cancel, process, skipped>>

(* Slip: the cursor advances only when the attempt was a success.          *)
AdvanceOnSuccess ==
  /\ loop = "advancing" /\ Rest
  /\ cursor' = IF poll.target \in complete THEN [newest |-> poll.newest, hour |-> poll.target]
               ELSE cursor
  /\ UNCHANGED <<window, switch, stop, cancel, process, skipped, left>>

(* The cursor is written in a joined thread even when the owner is being   *)
(* cancelled; its failure is logged and forgets the rotation it skipped.   *)
Advance ==
  /\ loop = "advancing" /\ Rest
  /\ LET k == poll.target IN
     \/ /\ cursor' = [newest |-> poll.newest, hour |-> k]
        /\ skipped' = {p \in skipped : cursor.newest = poll.newest /\ p[1] # k}
                      \cup {<<h, k>> : h \in Window(poll.newest) \ (complete \cup {k})}
        /\ UNCHANGED left
     \/ /\ left.faults > 0 /\ left' = [left EXCEPT !.faults = @ - 1]
        /\ UNCHANGED <<cursor, skipped>>
  /\ UNCHANGED <<window, switch, stop, cancel, process>>

-----------------------------------------------------------------------------
(* The world: hours become eligible, other fetches complete them, archives *)
(* rot, operations come and go.                                            *)
HourReleased ==
  /\ newest < LastHour /\ newest' = newest + 1
  /\ UNCHANGED <<complete, busy, switch, cursor, loop, poll, stop, cancel, process, skipped,
                 left>>

OtherFetch ==
  \E h \in Hours \ complete :
    /\ h <= newest /\ busy
    /\ complete' = complete \cup {h} /\ skipped' = Forget({h})
    /\ UNCHANGED <<newest, busy, switch, cursor, loop, poll, stop, cancel, process, left>>

ArchiveRots ==
  \E h \in complete :
    /\ left.faults > 0 /\ left' = [left EXCEPT !.faults = @ - 1]
    /\ complete' = complete \ {h}
    /\ UNCHANGED <<newest, busy, switch, cursor, loop, poll, stop, cancel, process, skipped>>

OtherOperation ==
  /\ process = "up" \/ busy
  /\ loop \notin {"attempting", "advancing"}
  /\ busy' = ~busy
  /\ UNCHANGED <<newest, complete, switch, cursor, loop, poll, stop, cancel, process, skipped,
                 left>>

-----------------------------------------------------------------------------
(* The ends of a process. Shutdown stops the loop without persisting, and  *)
(* may cancel it; worker threads are joined before the process is down.    *)
ShutdownBegins ==
  /\ process = "up" /\ left.restarts > 0
  /\ process' = "closing"
  /\ stop' = (loop # "none")
  /\ UNCHANGED <<window, switch, cursor, loop, poll, cancel, skipped, left>>

(* The grace is over: the loop is inside a call which takes long.          *)
ForceCancel ==
  /\ process = "closing" /\ ~cancel
  /\ loop \notin {"none", "admitted", "restored", "waiting"}
  /\ cancel' = TRUE
  /\ spoiled' = (spoiled \/ loop \in {"enabling", "undoing"})
  /\ UNCHANGED <<window, saved, writes, wanted, cursor, loop, poll, stop, process, skipped,
                 left>>

Down ==
  /\ process = "closing" /\ loop = "none" /\ writes = {}
  /\ process' = "down" /\ left' = [left EXCEPT !.restarts = @ - 1]
  /\ busy' = FALSE
  /\ UNCHANGED <<newest, complete, switch, cursor, loop, poll, stop, cancel, skipped>>

Crash ==
  /\ process \in {"up", "closing"} /\ left.restarts > 0
  /\ process' = "crashed" /\ left' = [left EXCEPT !.restarts = @ - 1]
  /\ busy' = FALSE /\ writes' = {}
  /\ spoiled' = (spoiled \/ writes # {} \/ loop \in {"enabling", "undoing"})
  /\ Ended
  /\ UNCHANGED <<newest, complete, saved, wanted, cursor, skipped>>

(* _startup_runtime restores the loop from the switch, without a write.    *)
Restart ==
  /\ process \in {"down", "crashed"}
  /\ process' = "up"
  /\ loop' = IF saved THEN "restored" ELSE "none"
  /\ UNCHANGED <<window, switch, cursor, poll, stop, cancel, skipped, left>>

-----------------------------------------------------------------------------
Loop == Enable \/ Enabled \/ Leave \/ Poll \/ ReadComplete \/ Choose \/ Clear \/ Attempt \/ Advance

Commits == \E by \in {"loop", "stop"}, v \in BOOLEAN : Commit(by, v)

World == HourReleased \/ OtherFetch \/ ArchiveRots \/ OtherOperation

Next ==
  \/ PressStart \/ PressStop \/ Commits \/ EnableFailed \/ IterationFails
  \/ Loop \/ World
  \/ ShutdownBegins \/ ForceCancel \/ Down \/ Crash \/ Restart

Spec == Init /\ [][Next]_vars

(* An attempt is not refused by the lock for ever.                         *)
Attempted == Attempt /\ loop' = "advancing"

Fairness == WF_vars(Loop) /\ WF_vars(Commits) /\ WF_vars(Restart) /\ SF_vars(Attempted)
FairSpec == Spec /\ Fairness

-----------------------------------------------------------------------------
(* Stop is final, as its comment promises: once the last press was Stop    *)
(* and nothing is in flight any more, the switch is off, whichever of the  *)
(* two writes committed last, unless a write failed or was interrupted.    *)
StopIsFinal ==
  ~wanted /\ ~spoiled /\ writes = {} /\ loop \notin {"admitted", "enabling", "undoing"} => ~saved

(* No hour waits while another is attempted twice: between two attempts of *)
(* an hour in one window, each hour that stayed incomplete has its turn,   *)
(* across deferrals, skips and restarts.                                   *)
RotationIsFair ==
  [][\A k \in Hours : cursor' # cursor /\ cursor'.hour = k /\ cursor'.newest = cursor.newest
       => \A h \in Window(cursor.newest) \ complete : h # k => <<h, k>> \notin skipped]_vars

(* While the clock rests and the loop is left alone, every incomplete hour *)
(* of the window gets its attempt.                                         *)
NoHourStarves ==
  \A h \in Window(LastHour) :
    []<>(\/ newest # LastHour \/ loop = "none" \/ stop \/ busy
         \/ h \in complete \/ (loop = "advancing" /\ poll.target = h))

(* Violated. What an orderly end leaves saved is what the user asked for   *)
(* last ("Restore the user's final intent").                               *)
IntentPersists == process = "down" /\ ~spoiled => saved = wanted
=============================================================================
