--------------------------- MODULE RefreshScheduler ---------------------------
(***************************************************************************)
(* The scheduler of e-paper refreshes: the renderers that submit frames,   *)
(* the bounded queue, the scheduler thread and the panel.                  *)
(*                                                                         *)
(* A frame is a snapshot of the widgets, numbered by their content; a tick *)
(* of the clock renders the same content again.  Renders hold the render   *)
(* lock up to the submission.  The scheduler thread takes a batch, holds   *)
(* the panel lock while it draws it, and a full refresh, which waits for   *)
(* the panel, is aborted when a newer frame that is not the clock's waits. *)
(***************************************************************************)
EXTENDS Integers, Sequences

CONSTANTS
    Panel,          \* "mono", "color" (three-color) or "slow" (no partials)
    BatchUpdates,   \* _batch_updates
    QueueMax,       \* QUEUE_MAX_SIZE
    BatchMax,       \* frames taken in one batch
    Reds,           \* red planes; 0 is the empty one
    Events,         \* what happens beyond plain updates: "full" requests, the
                    \* clock's "tick"s, screens "clear"ed, waveforms "reinit"ed,
                    \* "idle" sleep, "stop" and return of the hardware; the driver
                    \* raises an "error", init() returns -1 ("noinit"), the join of
                    \* the thread times out ("timeout")
    MaxContent      \* bound: number of the last content

ASSUME PanelAssumption == Panel \in {"mono", "color", "slow"}
ASSUME BatchUpdatesAssumption == BatchUpdates \in BOOLEAN
ASSUME QueueMaxAssumption == QueueMax \in Nat \ {0}
ASSUME BatchMaxAssumption == BatchMax \in Nat \ {0}
ASSUME RedsAssumption == 0 \in Reds /\ Reds \subseteq Nat
ASSUME MaxContentAssumption == MaxContent \in Nat

NoRed == -1     \* _last_red_buffer is None
Contents == 0..MaxContent
Frames == [n: Contents, red: Reds, full: BOOLEAN, clock: BOOLEAN]
NoFrame == [n |-> 0, red |-> 0, full |-> FALSE, clock |-> TRUE]

VARIABLES
    content,        \* what the widgets show: number and red plane
    inflight,       \* the frame being rendered, NoFrame if none
    queue,          \* _queue
    batch,          \* the batch being drawn, its first frame next
    pc,             \* where the scheduler thread is
    kind,           \* the refresh chosen for the first frame of the batch
    stop,           \* _stop_event
    inPartial,      \* _in_partial_mode
    baseline,       \* _baseline_established
    asleep,         \* _deep_asleep
    forceReinit,    \* _force_reinit
    pendingFull,    \* _pending_full_after_interrupt
    lastRed,        \* _last_red_buffer
    glass,          \* content and red plane last completed on the panel
    mixed,          \* TRUE when a refresh was aborted halfway
    power,          \* the panel: "on", "off" (asleep, or not initialised) or "closed"
    owner,          \* where the thread that changes screens or hands the hardware over is
    submitted,      \* number of the last content submitted
    owed            \* history: the last full request still to be honoured, or 0

renderVars == <<content, inflight>>
flagVars == <<inPartial, baseline, asleep, forceReinit, pendingFull>>
panelVars == <<glass, mixed, power>>
vars == <<content, inflight, queue, batch, pc, kind, stop, inPartial, baseline,
          asleep, forceReinit, pendingFull, lastRed, glass, mixed, power,
          owner, submitted, owed>>

TypeOK ==
    /\ content \in [n: Contents, red: Reds]
    /\ inflight \in Frames
    /\ queue \in Seq(Frames) /\ Len(queue) <= QueueMax
    /\ batch \in Seq(Frames) /\ Len(batch) <= BatchMax
    /\ pc \in {"collect", "route", "start", "draw", "busy", "dead"}
    /\ kind \in {"none", "partial", "full"}
    /\ stop \in BOOLEAN /\ inPartial \in BOOLEAN /\ baseline \in BOOLEAN
    /\ asleep \in BOOLEAN /\ forceReinit \in BOOLEAN /\ pendingFull \in BOOLEAN
    /\ lastRed \in Reds \cup {NoRed}
    /\ glass \in [n: Contents, red: Reds]
    /\ mixed \in BOOLEAN
    /\ power \in {"on", "off", "closed"}
    /\ owner \in {"run", "clearing", "tuning", "stopping", "joining", "joined", "released"}
    /\ submitted \in Contents
    /\ owed \in Contents

\* Manager.initialize: the panel is initialised and the thread started
Init ==
    /\ content = [n |-> 0, red |-> 0] /\ inflight = NoFrame
    /\ queue = <<>> /\ batch = <<>> /\ pc = "collect" /\ kind = "none"
    /\ stop = FALSE
    /\ inPartial = FALSE /\ baseline = FALSE /\ asleep = FALSE
    /\ forceReinit = FALSE /\ pendingFull = FALSE /\ lastRed = NoRed
    /\ glass = [n |-> 0, red |-> 0] /\ mixed = FALSE /\ power = "on"
    /\ owner = "run" /\ submitted = 0 /\ owed = 0

-----------------------------------------------------------------------------
\* Rendering and submission.

Rendering == inflight # NoFrame

\* _render_now.  Manager.update is refused while the hardware is handed over, but
\* what it has put off is rendered then too (_flush_deferred, set_defer_to_clock).
Render(full, red) ==
    /\ ~Rendering
    /\ full => "full" \in Events
    /\ content.n < MaxContent   \* the bound leaves one for the screen that follows
    /\ owner \in {"clearing", "tuning"} => content.n + 1 < MaxContent
    /\ content' = [n |-> content.n + 1, red |-> red]
    /\ inflight' = [n |-> content'.n, red |-> red, full |-> full, clock |-> FALSE]
    /\ UNCHANGED <<queue, batch, pc, kind, stop, flagVars, lastRed, panelVars,
                   owner, submitted, owed>>

\* flush_now: the clock's heartbeat, refused while the hardware is handed over
Tick ==
    /\ "tick" \in Events
    /\ owner \in {"run", "clearing", "tuning"} /\ ~Rendering /\ content.n > 0
    /\ inflight' = [n |-> content.n, red |-> content.red, full |-> FALSE, clock |-> TRUE]
    /\ UNCHANGED <<content, queue, batch, pc, kind, stop, flagVars, lastRed,
                   panelVars, owner, submitted, owed>>

Enqueue_Grows(q, f) == Append(q, f)
Enqueue_Front(q, f) == <<f>> \o (IF Len(q) >= QueueMax THEN Tail(q) ELSE q)

\* submit: a full queue loses its oldest frame
Enqueue(q, f) == Append(IF Len(q) >= QueueMax THEN Tail(q) ELSE q, f)

Submit ==
    /\ Rendering
    /\ queue' = Enqueue(queue, inflight)
    /\ inflight' = NoFrame
    /\ submitted' = inflight.n
    /\ owed' = IF inflight.full THEN inflight.n ELSE owed
    /\ UNCHANGED <<content, batch, pc, kind, stop, flagVars, lastRed, panelVars, owner>>

\* clear_widgets drops what is queued and paints nothing: the frame of the new
\* screen follows.
Clear ==
    /\ "clear" \in Events
    /\ owner = "run" /\ content.n < MaxContent
    /\ queue' = <<>> /\ owed' = 0
    /\ owner' = "clearing"
    /\ UNCHANGED <<renderVars, batch, pc, kind, stop, flagVars, lastRed,
                   panelVars, submitted>>

\* apply_waveform_profile: no batch is being drawn, and a full refresh follows
Reinit ==
    /\ "reinit" \in Events
    /\ owner = "run" /\ pc = "collect" /\ content.n < MaxContent
    /\ forceReinit' = TRUE
    /\ owner' = "tuning"
    /\ UNCHANGED <<renderVars, queue, batch, pc, kind, stop, inPartial, baseline,
                   asleep, pendingFull, lastRed, panelVars, submitted, owed>>

NewScreen(red) ==
    /\ owner \in {"clearing", "tuning"} /\ ~Rendering
    /\ content.n < MaxContent
    /\ content' = [n |-> content.n + 1, red |-> red]
    /\ inflight' = [n |-> content'.n, red |-> red, full |-> owner = "tuning", clock |-> FALSE]
    /\ owner' = "run"
    /\ UNCHANGED <<queue, batch, pc, kind, stop, flagVars, lastRed, panelVars,
                   submitted, owed>>

-----------------------------------------------------------------------------
\* The scheduler thread

Take ==
    /\ pc = "collect" /\ queue # <<>> /\ Len(batch) < BatchMax
    /\ batch' = Append(batch, Head(queue))
    /\ queue' = Tail(queue)
    /\ UNCHANGED <<renderVars, pc, kind, stop, flagVars, lastRed, panelVars,
                   owner, submitted, owed>>

Exit ==
    /\ pc = "collect" /\ batch = <<>> /\ stop
    /\ pc' = "dead"
    /\ UNCHANGED <<renderVars, queue, batch, kind, stop, flagVars, lastRed,
                   panelVars, owner, submitted, owed>>

AnyFull(b) == \E i \in 1..Len(b): b[i].full

\* Coalescing shows the last frame of the batch and keeps a full request.
Coalesced_ForgetsFull(b) == <<b[Len(b)]>>
Coalesced(b) == <<[b[Len(b)] EXCEPT !.full = AnyFull(b)]>>

\* the batch is over, or its next frame is routed
Advance(rest) ==
    /\ batch' = rest
    /\ pc' = IF rest = <<>> THEN "collect" ELSE "route"
    /\ kind' = "none"

BeginBatch ==
    /\ pc = "collect" /\ batch # <<>>
    /\ queue = <<>> \/ Len(batch) = BatchMax
    /\ Advance(IF stop THEN <<>>
               ELSE IF Panel # "mono" \/ BatchUpdates THEN Coalesced(batch)
               ELSE batch)
    /\ UNCHANGED <<renderVars, queue, stop, flagVars, lastRed, panelVars, owner,
                   submitted, owed>>

\* A mono batch is replayed frame by frame: each asks for the stop.
SkipStopped ==
    /\ pc = "route" /\ Panel = "mono" /\ stop
    /\ Advance(Tail(batch))
    /\ UNCHANGED <<renderVars, queue, stop, flagVars, lastRed, panelVars, owner,
                   submitted, owed>>

RedChanged_OnlyWhenRed(red) == red # 0 /\ red # lastRed
RedChanged(red) == IF lastRed = NoRed THEN red # 0 ELSE red # lastRed

NeedsFull_NoRestart(f) ==
    \/ Panel = "slow" \/ f.full
    \/ Panel = "color" /\ RedChanged(f.red)
NeedsFull(f) ==
    \/ Panel = "slow" \/ f.full \/ pendingFull
    \/ Panel = "color" /\ RedChanged(f.red)

Route ==
    /\ pc = "route"
    /\ Panel = "mono" => ~stop
    /\ kind' = IF NeedsFull(Head(batch)) THEN "full" ELSE "partial"
    /\ pendingFull' = IF Panel = "slow" THEN pendingFull ELSE FALSE
    /\ pc' = "start"
    /\ UNCHANGED <<renderVars, queue, batch, stop, inPartial, baseline, asleep,
                   forceReinit, lastRed, panelVars, owner, submitted, owed>>

\* _process_three_color records the red plane of every frame it was given,
\* unless its refresh was interrupted.
RecordRed == lastRed' = IF Panel = "color" THEN Head(batch).red ELSE lastRed

\* The executor finds the stop event set; a partial looks for it again after it
\* has lowered _force_reinit.
StartStopped ==
    /\ pc = "start" /\ stop
    /\ forceReinit' \in {forceReinit, forceReinit /\ kind = "full"}
    /\ RecordRed
    /\ Advance(Tail(batch))
    /\ UNCHANGED <<renderVars, queue, stop, inPartial, baseline, asleep,
                   pendingFull, panelVars, owner, submitted, owed>>

NeedsInit ==
    \/ asleep \/ forceReinit
    \/ IF kind = "full" THEN inPartial ELSE ~baseline \/ ~inPartial

\* init() and, for the first partial of all, Clear().  Nothing looks at what
\* init() returns.
Start ==
    /\ pc = "start" /\ ~stop
    /\ inPartial' = (kind = "partial")
    /\ IF NeedsInit
       THEN /\ asleep' = FALSE /\ forceReinit' = FALSE
            /\ power' \in {"on"} \cup (IF "noinit" \in Events THEN {"off"} ELSE {})
       ELSE UNCHANGED <<asleep, forceReinit, power>>
    /\ baseline' = (baseline \/ kind = "partial")
    /\ pc' = IF kind = "full" THEN "busy" ELSE "draw"
    /\ UNCHANGED <<renderVars, queue, batch, kind, stop, pendingFull, lastRed,
                   glass, mixed, owner, submitted, owed>>

\* a partial that sees the stop event after init() draws nothing
DrawStopped ==
    /\ pc = "draw" /\ stop
    /\ RecordRed
    /\ Advance(Tail(batch))
    /\ UNCHANGED <<renderVars, queue, stop, flagVars, panelVars, owner,
                   submitted, owed>>

\* a partial changes the black and white planes only
DrawPartial ==
    /\ pc = "draw"
    /\ glass' = [n |-> Head(batch).n, red |-> glass.red]
    /\ RecordRed
    /\ Advance(Tail(batch))
    /\ UNCHANGED <<renderVars, queue, stop, flagVars, mixed, power, owner,
                   submitted, owed>>

FinishFull ==
    /\ pc = "busy"
    /\ glass' = [n |-> Head(batch).n, red |-> Head(batch).red]
    /\ mixed' = FALSE /\ baseline' = TRUE
    /\ owed' = IF Head(batch).n >= owed THEN 0 ELSE owed
    /\ RecordRed
    /\ Advance(Tail(batch))
    /\ UNCHANGED <<renderVars, queue, stop, inPartial, asleep, forceReinit,
                   pendingFull, power, owner, submitted>>

\* _refresh_should_abort
ShouldAbort_AnyFrame == stop \/ queue # <<>>
ShouldAbort == stop \/ \E i \in 1..Len(queue): ~queue[i].clock

AbortFull ==
    /\ pc = "busy" /\ ShouldAbort
    /\ mixed' = TRUE
    /\ forceReinit' = TRUE /\ pendingFull' = TRUE
    /\ lastRed' = IF Panel = "color" THEN NoRed ELSE lastRed
    /\ Advance(Tail(batch))
    /\ UNCHANGED <<renderVars, queue, stop, inPartial, baseline, asleep, glass,
                   power, owner, submitted, owed>>

\* The driver raised, in init() or before anything was shown: it is logged and
\* the future is resolved as if the frame had been drawn.
Fail ==
    /\ "error" \in Events
    /\ pc \in {"start", "draw", "busy"}
    /\ forceReinit' = (forceReinit /\ kind = "full")
    /\ RecordRed
    /\ Advance(Tail(batch))
    /\ UNCHANGED <<renderVars, queue, stop, inPartial, baseline, asleep,
                   pendingFull, panelVars, owner, submitted, owed>>

\* _enter_idle_sleep, once something has been drawn
IdleSleep ==
    /\ "idle" \in Events
    /\ pc = "collect" /\ batch = <<>>
    /\ baseline /\ ~asleep
    /\ power' = "off" /\ asleep' = TRUE /\ inPartial' = FALSE
    /\ UNCHANGED <<renderVars, queue, batch, pc, kind, stop, baseline, forceReinit,
                   pendingFull, lastRed, glass, mixed, owner, submitted, owed>>

-----------------------------------------------------------------------------
\* release_hardware: stop() sets the event, drains the queue and joins the
\* thread, then the panel is parked and closed; reacquire_hardware undoes it.

StopSet ==
    /\ "stop" \in Events
    /\ owner = "run"
    /\ stop' = TRUE /\ owner' = "stopping"
    /\ UNCHANGED <<renderVars, queue, batch, pc, kind, flagVars, lastRed,
                   panelVars, submitted, owed>>

StopDrain ==
    /\ owner = "stopping"
    /\ queue' = <<>> /\ owner' = "joining"
    /\ UNCHANGED <<renderVars, batch, pc, kind, stop, flagVars, lastRed,
                   panelVars, submitted, owed>>

\* the join gives up after five seconds
StopJoin ==
    /\ owner = "joining"
    /\ pc = "dead" \/ "timeout" \in Events
    /\ owner' = "joined"
    /\ UNCHANGED <<renderVars, queue, batch, pc, kind, stop, flagVars, lastRed,
                   panelVars, submitted, owed>>

Release ==
    /\ owner = "joined"
    /\ power' = "closed" /\ owner' = "released" /\ owed' = 0
    /\ UNCHANGED <<renderVars, queue, batch, pc, kind, stop, flagVars, lastRed,
                   glass, mixed, submitted>>

Reacquire_Plain ==
    /\ owner = "released"
    /\ IF pc = "dead" THEN stop' = FALSE /\ pc' = "collect"
       ELSE UNCHANGED <<stop, pc>>
    /\ owner' = "run"
    /\ UNCHANGED <<renderVars, queue, batch, kind, flagVars, lastRed, panelVars,
                   submitted, owed>>

\* the panel was parked and closed behind the back of the scheduler's flags
Reacquire ==
    /\ owner = "released"
    /\ forceReinit' = TRUE
    /\ IF pc = "dead" THEN stop' = FALSE /\ pc' = "collect"
       ELSE UNCHANGED <<stop, pc>>
    /\ owner' = "run"
    /\ UNCHANGED <<renderVars, queue, batch, kind, inPartial, baseline, asleep,
                   pendingFull, lastRed, panelVars, submitted, owed>>

-----------------------------------------------------------------------------
Scheduler ==
    \/ Take \/ Exit \/ BeginBatch \/ SkipStopped \/ Route \/ StartStopped
    \/ Start \/ DrawStopped \/ DrawPartial \/ FinishFull \/ AbortFull \/ Fail

Owner ==
    \/ StopSet \/ StopDrain \/ StopJoin \/ Release \/ Reacquire
    \/ Clear \/ Reinit
    \/ \E red \in Reds: NewScreen(red)

Next ==
    \/ Scheduler \/ IdleSleep \/ Owner \/ Submit \/ Tick
    \/ \E full \in BOOLEAN, red \in Reds: Render(full, red)

\* The scheduler's loop runs, a render that has begun is submitted, and a screen
\* that was cleared gets its new contents.
Fairness ==
    /\ WF_vars(Scheduler)
    /\ WF_vars(Submit)
    /\ WF_vars(\E red \in Reds: NewScreen(red))

Spec == Init /\ [][Next]_vars
FairSpec == Spec /\ Fairness
-----------------------------------------------------------------------------
(***************************************************************************)
(* Properties                                                              *)
(***************************************************************************)
Mirror == INSTANCE PanelMirror WITH wanted <- submitted, shown <- glass.n

\* The panel shows what was submitted and never goes back to older content,
\* through eviction, coalescing, replay, aborts and errors.
NeverOlder == Mirror!Safe

\* Unless it stops, the panel catches up with the last content submitted, although
\* the clock submits frames for ever: its frames do not abort a full refresh.
CatchesUp == \A n \in Contents: submitted >= n ~> glass.n >= n

\* The panel is only driven when it is awake and open: every sleep, hand-over and
\* change of mode is followed by init() before the next refresh.
AwakeWhenDriven == pc \in {"draw", "busy"} => power = "on"

\* A partial is never drawn over a refresh that was aborted halfway: the next
\* refresh is full, even when it is aborted itself.
NoPartialOverAborted == pc = "draw" => ~mixed

\* A full refresh that was asked for is not overtaken by a partial of the same
\* or of later content.
FullIsHonoured == pc = "draw" /\ owed # 0 => Head(batch).n < owed

\* A three-color panel is given a partial only when the red on the glass is the
\* red of the frame: red that appears, moves or clears takes a full refresh.
RedIsShown == Panel = "color" /\ pc = "draw" => Head(batch).red = glass.red
=============================================================================
