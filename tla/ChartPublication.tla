--------------------------- MODULE ChartPublication ---------------------------
(***************************************************************************)
(* A page that shows charts, over the one loader of the process.  It polls  *)
(* for loads that ended, whichever page admitted them, and publishes the    *)
(* latest result; its controls rebuild, coarsen or reload what it holds.    *)
(* A task that waits for the browser holds the page's render lock, and      *)
(* meanwhile other pages, which meet this one at the loader only, may admit *)
(* loads.                                                                   *)
(*                                                                         *)
(* A projection is [op, source, tf]: the load it comes from, the request    *)
(* with the digest of its input, and the length of its bars.                *)
(***************************************************************************)
EXTENDS Naturals

CONSTANTS
    Sources,
    Timeframes,   \* lengths of bars; a longer one is a multiple of a shorter
    MaxLoads,     \* bound: loads admitted
    MaxTasks,     \* bound: uses of a page's controls
    Null

VARIABLES
    loader,   \* running: [op, tf] or Null; sequence: loads ended; op: loads
              \* admitted; last: the last projection or Null
    page,     \* what the page keeps
    window,   \* the chart in its browser: a projection or Null
    tasks

vars == <<loader, page, window, tasks>>

-----------------------------------------------------------------------------
Blank ==
    [loaded |-> Null, displayed |-> Null, commit |-> Null, task |-> Null,
     pending |-> Null, sequence |-> 0, success |-> 0, restored |-> Null]

Init ==
    /\ loader = [running |-> Null, sequence |-> 0, op |-> 0, last |-> Null]
    /\ page = Blank
    /\ window = Null
    /\ tasks = 0

Running == loader.running # Null
Free == page.task = Null

-----------------------------------------------------------------------------
(* The loader.                                                             *)
Admitted(tf) ==
    [loader EXCEPT !.running = [op |-> loader.op + 1, tf |-> tf], !.op = @ + 1]

CanAdmit == ~Running /\ loader.op < MaxLoads

(* A load that completes says which source it turned out to be; one that was *)
(* stopped or failed leaves the projection before it.                        *)
Complete(s) ==
    /\ Running
    /\ loader' = [loader EXCEPT
                    !.running = Null, !.sequence = @ + 1,
                    !.last = [op |-> loader.op, source |-> s, tf |-> loader.running.tf]]
    /\ UNCHANGED <<page, window, tasks>>

End ==
    /\ Running
    /\ loader' = [loader EXCEPT !.running = Null, !.sequence = @ + 1]
    /\ UNCHANGED <<page, window, tasks>>

-----------------------------------------------------------------------------
(* Publishing: what a task of a page publishes, and the viewport it restores.*)

Same(projection, displayed) == displayed # Null /\ displayed.source = projection.source

(* Slip: the chart before keeps its commit until the next one has its own.   *)
PublishingKept(kind, projection, viewport) ==
    [page EXCEPT
        !.task = [kind |-> kind, step |-> "send", projection |-> projection],
        !.restored = IF viewport # Null /\ Same(projection, page.displayed)
                     THEN [viewport |-> viewport, projection |-> projection] ELSE Null]

Publishing(kind, projection, viewport) ==
    [page EXCEPT
        !.commit = Null,
        !.task = [kind |-> kind, step |-> "send", projection |-> projection],
        !.restored = IF viewport # Null /\ Same(projection, page.displayed)
                     THEN [viewport |-> viewport, projection |-> projection] ELSE Null]

(* A task but the poll gives the lock back as its publication ends.          *)
Left(t) == IF t.kind = "poll" THEN [t EXCEPT !.step = "settle"] ELSE Null

(* An option that cannot be built, or is not valid, is refused before the    *)
(* commit of the chart before is withdrawn.                                  *)
OptionRefused(kind, projection) ==
    [page EXCEPT !.task = Left([kind |-> kind, step |-> "send", projection |-> projection])]

Attempts(kind, projection, viewport) ==
    {Publishing(kind, projection, viewport), OptionRefused(kind, projection)}

InStep(step) == page.task # Null /\ page.task.step = step

(* The browser applies the option, or it does not.                           *)
Send ==
    /\ InStep("send")
    /\ window' \in {window, page.task.projection}
    /\ page' = [page EXCEPT !.task.step = "confirm"]
    /\ UNCHANGED <<loader, tasks>>

Acknowledge ==
    LET t == page.task IN
    /\ InStep("confirm")
    /\ window = t.projection
    /\ page' = [page EXCEPT !.commit = t.projection.source, !.displayed = t.projection,
                            !.task = Left(t)]
    /\ UNCHANGED <<loader, window, tasks>>

(* A probe that times out fails the publication whatever the browser shows.  *)
PublishFails ==
    /\ InStep("confirm")
    /\ page' = [page EXCEPT !.task = Left(@), !.restored = Null]
    /\ UNCHANGED <<loader, window, tasks>>

-----------------------------------------------------------------------------
(* The controls of a page.                                                 *)
Use == tasks < MaxTasks /\ tasks' = tasks + 1

StartLoad(tf) ==
    /\ Free /\ CanAdmit
    /\ loader' = Admitted(tf)
    /\ page' = [page EXCEPT !.pending = [op |-> loader.op + 1, viewport |-> Null]]
    /\ UNCHANGED <<window, tasks>>

OthersLoad(tf) ==
    /\ CanAdmit
    /\ loader' = Admitted(tf)
    /\ UNCHANGED <<page, window, tasks>>

(* Another metric or warning: the displayed result is published again.       *)
ChangePresentation ==
    /\ Use
    /\ Free /\ ~Running /\ page.displayed # Null
    /\ page' = [page EXCEPT !.task = [kind |-> "presentation", step |-> "capture"]]
    /\ UNCHANGED <<loader, window>>

(* Another timeframe.                                                        *)
ChangeView(tf) ==
    /\ Use
    /\ Free /\ ~Running /\ page.loaded # Null
    /\ page' = [page EXCEPT !.task = [kind |-> "view", step |-> "capture", tf |-> tf]]
    /\ UNCHANGED <<loader, window>>

(* The viewport is captured from the acknowledged chart, if there is one; a  *)
(* load admitted meanwhile drops the task.  A view that cannot be cached is  *)
(* loaded again, and its viewport waits for that load, unless another        *)
(* operation is active.                                                      *)
Captured ==
    IF page.commit = Null \/ window # page.displayed THEN {Null}
    ELSE {Null, page.displayed}

Present ==
    /\ InStep("capture") /\ page.task.kind = "presentation"
    /\ IF Running THEN page' = [page EXCEPT !.task = Null]
       ELSE \E v \in Captured :
                page' \in Attempts("presentation", page.displayed, v)
    /\ UNCHANGED <<loader, window, tasks>>

View ==
    LET tf == page.task.tf
        loaded == page.loaded
    IN  /\ InStep("capture") /\ page.task.kind = "view"
        /\ IF Running THEN page' = [page EXCEPT !.task = Null] /\ UNCHANGED loader
           ELSE \E v \in Captured :
                  \/ /\ tf >= loaded.tf
                     /\ page' \in Attempts("view", [loaded EXCEPT !.tf = tf], v)
                     /\ UNCHANGED loader
                  \/ /\ tf < loaded.tf /\ CanAdmit
                     /\ loader' = Admitted(tf)
                     /\ page' = [page EXCEPT
                                    !.task = Null,
                                    !.pending = [op |-> loader.op + 1, viewport |-> v]]
                  \/ /\ tf < loaded.tf
                     /\ page' = [page EXCEPT !.task = Null]
                     /\ UNCHANGED loader
        /\ UNCHANGED <<window, tasks>>

-----------------------------------------------------------------------------
(* The poll.                                                               *)

Unhandled == loader.last # Null /\ loader.last.op # page.success

(* Slip: a page looks only for loads that ended since it looked last.        *)
CanPollEnded == Free /\ ~Running /\ loader.sequence # page.sequence

CanPoll ==
    /\ Free /\ ~Running
    /\ loader.sequence # page.sequence \/ Unhandled

(* Slip: the viewport that waits is restored with whatever load ended.       *)
ViewportOfAny == IF page.pending = Null THEN Null ELSE page.pending.viewport

ViewportFor ==
    IF page.pending # Null /\ page.pending.op = loader.last.op
    THEN page.pending.viewport ELSE Null

(* A publication is handled, well or badly.                                  *)
Handled(op) ==
    [page EXCEPT !.task = Null, !.success = op,
                 !.pending = IF @ # Null /\ @.op = op THEN Null ELSE @]

(* The loader is read once more: a load that runs keeps its pending viewport *)
(* and its completion.                                                       *)
Settled(s) ==
    IF Running THEN s
    ELSE [s EXCEPT !.sequence = loader.sequence,
                   !.pending = IF @ # Null /\ @.op = loader.op THEN Null ELSE @]

Poll ==
    /\ CanPoll
    /\ IF Unhandled
       THEN \E p \in Attempts("poll", loader.last, ViewportFor) :
                page' = [p EXCEPT !.loaded = loader.last]
       ELSE page' = Settled(page)
    /\ UNCHANGED <<loader, window, tasks>>

Settle ==
    /\ InStep("settle")
    /\ page' = Settled(Handled(page.task.projection.op))
    /\ UNCHANGED <<loader, window, tasks>>

-----------------------------------------------------------------------------
Next ==
    \/ \E s \in Sources : Complete(s)
    \/ End
    \/ Send \/ Acknowledge \/ PublishFails
    \/ ChangePresentation \/ Present \/ View \/ Poll \/ Settle
    \/ \E tf \in Timeframes : StartLoad(tf) \/ OthersLoad(tf) \/ ChangeView(tf)

-----------------------------------------------------------------------------
(* What a page exports is what its browser shows.                            *)
Exportable ==
    /\ Free
    /\ page.displayed # Null /\ page.commit = page.displayed.source

ExportIsShown == Exportable => window = page.displayed

(* Once nothing runs and a page has nothing left to poll, it has handled the *)
(* last load that succeeded, whichever page admitted it, and no viewport     *)
(* waits for the last load.                                                  *)
NoSuccessOverlooked ==
    Free /\ ~Running /\ ~CanPoll =>
        /\ loader.last # Null =>
               page.success = loader.last.op /\ page.loaded = loader.last
        /\ page.pending = Null \/ page.pending.op < loader.op

(* A viewport that waits is restored with the very load it waits for, and     *)
(* any other on the source it was captured from.  (One that waits carries no  *)
(* source: its page may have shown another, cached one by then.)              *)
ViewportBelongs ==
    InStep("send") /\ page.restored # Null =>
        IF page.task.kind = "poll"
        THEN /\ page.pending # Null
             /\ page.pending.op = page.task.projection.op
             /\ page.pending.viewport = page.restored.viewport
        ELSE page.restored.viewport.source = page.restored.projection.source
=============================================================================
