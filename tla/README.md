# Universal-Chess: a verification model

Universal-Chess turns an electronic chess board (a DGT Centaur) into a stand-alone
chess computer: a Python service reads the pieces off the board, referees the game,
lets engines, Lichess and Bluetooth apps play, draws on an e-paper panel and serves a
web application. This directory holds TLA+ models of the parts of it that are hard to
test, the TLC configurations that check them, and TLAPS proofs of what holds for every
value of the parameters. All source paths below are relative to
`src/src/universalchess/`.

## 1. The system

### Components, state and operations

| Component | State it keeps | Operations | Runs on |
|---|---|---|---|
| Game record (`managers/game/`) | move stack and result (`state/chess_game.py`), `game_db_id`, `cached_result`, tables `game` and `gameMove`, the task queue | complete a move, take one back, new game, setup position, end by mate, claim, flag, resignation, agreement | game thread, task worker, clock and player threads |
| Board referee (`field_events.py`, `player_moves.py`, `players/base.py`) | lifted squares, pending move, correction mode, forced LEDs | lift, place, guidance, takeback by hand, pending move | board event thread, player threads, worker |
| Game lifecycle (`GameManager._game_thread`, `managers/protocol.py`) | ready flag, pending events, stop event, database session | subscribe, replay of events, unsubscribe | main, game thread, worker |
| Refresh scheduler (`epaper/framework/scheduler.py`) | queue of frames, panel lock, interrupted-refresh marker | submit, clear, stop, batch, full and partial refresh | widget threads, scheduler thread |
| Engine players (`players/engine.py`, `hand_brain.py`) | pending move, think generation, queued request, engine handle | start, request, reply, invalidate, reload, stop | engine and load threads |
| Engine registry (`services/engine_registry.py`) | pool of handles with reference counts, loads under way | acquire, wait for another's load, release, evict | load threads of players, coach, analysis |
| Chess clock (`services/chess_clock.py`) | remaining times, running and paused flags, handed-over side, cursor of credited plies | start, pause, resume, stop, tick, credit, flag | countdown thread, the threads that complete moves, worker, menus, link to apps |
| Board driver (`board/board.py`, `sync_centaur.py`) | address found, two request queues, tracked polls, waiter, callback queue | discover, retry, poll, request, reply, timeout, piece events | listener, request processor, poller, retry worker, callback worker |
| Main loop and menus (`app/board_app.py`, `app/pending_work.py`, `managers/menu.py`) | session, menu on screen and its result, queued piece events | show a menu, cancel it, enter, suspend, resume and leave a game | main loop, callback worker, key thread |
| Controllers (`controllers/`) | active controller, remote session | activate, relay, hand back | main, Bluetooth threads |
| Lichess (`players/lichess/`) | session, seek, match, stream | seek, accept, stream events, moves | stream threads |
| Engine installs (`managers/engine_manager.py`, `services/install_*`) | persisted install state | install, stop, resume after a restart | install thread |
| Analysis, coach, broadcast (`services/`) | queue of positions, last events | submit, cancel, publish | service threads |
| Bluetooth, Wi-Fi, update, web, menus | connections, settings, pages | requests of users and system services | many |

### How they interact

- A lift or a place arrives from the board driver on its callback thread. On a menu it is
  queued and makes the main loop enter a game, which then forwards the queue; in a game it
  is given to `GameManager.receive_field`; before the game thread is ready it is kept there
  and replayed by that thread.
- The referee turns it into a move, a takeback, or a correction. A move goes through
  `execute_complete_move`: guard, push on the live board (observers are told at once),
  turn event to the next player, then a task for the worker.
- The task worker is a single thread with a FIFO queue. It writes the move, creates the
  game on the first one, tells the move callback, validates the physical board and, if
  the move decided the game, stores the result. Takebacks, resets and forfeits do **not**
  go through the worker: they write to the database on the thread that calls them.
- An engine player acquires its process from the registry on a thread of its own; until
  then a request is queued in the player. An app that connects takes the player's seat and
  stops it; when it leaves, the player starts again.
- The clock is started and credited by the turn event, on the thread that has completed the
  move and before it submits the task; the end of a correction sends a turn event too. A new
  game resets the clock, the end of a game stops it (for a mate, on the worker), and menus,
  suspensions and sessions pause and resume it.
- Players answer a turn event at once or later, on their own threads. An engine's move
  must be made on the board by the human (a *pending move*), unless the web board leads.
- Widgets submit frames to the refresh scheduler, which owns the panel and answers with
  a future.

### What is hard

- **Shared state without a lock.** `game_db_id`, `cached_result` and the database session
  are used by the game thread, the worker, the clock's flag thread and web handlers; the
  counter of credited plies by every thread that completes a move.
- **Stale reads.** The occupancy the referee judges is read after the event that asked
  for it; `is_first_move` and the database id are read long before they are used.
- **Ordering.** The turn event precedes the submission of the task; replayed events can be
  overtaken by live ones; evicted and coalesced frames must not bring an old frame back.
- **Threads that outlive their stop.** A stopped countdown thread, a superseded computation
  and a load nobody waits for any more go on for a while, beside what replaced them.
- **Failure.** An engine that does not load, is rejected by the player that loaded it, or
  dies; a board that is asleep, or whose answers are lost. A database write that raises is logged and skipped; a refresh can be
  interrupted and must be repaired by a full one; a stop loses what is queued.
- **Two memories of one gesture.** The referee (`move_state`) and the player
  (`_lifted_squares`, `_pending_move`) each remember what was lifted; what reaches only
  one of them makes the next move wrong.

### What makes each part correct

| Component | Correct when |
|---|---|
| Game record | rows are in playing order and are the game; every game left has a result; one result everywhere; nothing is played after the end, and a decided result stands (both fail: section 5) |
| Board referee | no piece goes missing unnoticed; a move is made only for a piece that moved; an engine's move is its answer to this position; the engine is always asked |
| Refresh scheduler | the panel never goes back; it catches up; it is never driven asleep; an interrupted refresh is repaired by a full one; red is what was asked for |
| Chess clock | one countdown runs; a side is charged for its own time; the increment is given once a ply; it counts in play and nowhere else |
| Board driver, main loop, game lifecycle | every piece event reaches the game, once; in the order of the board (which fails: section 5) |
| Engine players | a superseded answer is dropped; a player that is ready and idle has answered; a queued request is served |
| Engine registry | one process an engine; the count is the number of users; no engine in use is quit; nobody waits for a load that nobody makes |
| Controllers, Lichess | one controller owns the board; a move is sent once; what was missed is caught up |
| Engine installs | an interrupted install is resumed or cleaned up, never reported as done |

## 2. Modules

| Module | What it is |
|---|---|
| `GameRecord` | the game and its record in the database: movers, the thread that ends games, the task worker |
| `GameRecord_proofs` | `TypeCorrect`, `RowsStayInOrder` |
| `GameHistory_proofs` | `RecordIsTheGame`, `GamesLeftAreClosed`, `TakebacksAreOwn`, `ResultsDoAgree`, `EveryMoveIsRecorded` |
| `PanelMirror` | abstract specification: what the refresh scheduler promises its callers |
| `RefreshScheduler` | renderers, queue, scheduler thread, panel, and the hand-over of the hardware |
| `RefreshScheduler_proofs` | `TypeCorrect`, `NeverGoesBack` (the safety of `PanelMirror`), `PartialsAreClean`, `RedIsAlwaysShown`, `PanelIsAwake`, `RequestsAreHonoured` |
| `BoardReferee` | hand, board events, referee, players, engine threads, the worker's check of the board |
| `MCBoardReferee` | small boards for `BoardReferee` |
| `BoardReferee_proofs` | `TypeCorrect`, `AnswersComeOnce`, `EngineIsAlwaysAsked`, `EnginesPlayTheirAnswers`, `PiecesMoveWhenLifted`, `NoPieceGoesMissing` |
| `EngineRegistry` | the engine processes shared by their users |
| `EngineRegistry_proofs` | `RegistrySafe`, `ReferencesCounted`, `UsedEnginesRun`, `WaitersHaveLoader`, `OneProcess` |
| `EnginePlayer` | composes `EngineRegistry` with one engine player, its load threads and computations, the game that asks it and the app that takes its seat |
| `EnginePlayer_proofs` | `PlayerUsesRegistry` (the composition implements the registry's specification), `PlayerHoldsItsEngine`, `ThinkingEnds`, `TypeCorrect`, `NoReferenceIsOrphaned`, `AnswersAreCurrent`, `EngineIsAskedAfterMoves` |
| `ChessClock` | countdown threads, the clock's service and the threads that call it |
| `ChessClock_proofs` | `ClockIsCountedOnce`, `TypeCorrect`, `TimeIsOnesOwn`, `IncrementsAreGivenOnce`, `PlayCostsTime`, `OnlyPlayCostsTime` |
| `BoardLink` | the serial driver: discovery, polls, requests, the callback queue, and the board at the other end |
| `PieceEvents` | composes `BoardLink` with the menu, the main loop and the game manager's queue of events |
| `PieceEvents_proofs` | `EventsAreProcessedOnce` |

A run without an MC module of its own checks the
module directly, because all its constants are numbers and sets of names a `.cfg` can
give. A definition `X_Y` beside a definition `X` is a variant of `X` with a plausible
mistake; it is used by no action and serves to see that the properties can fail.

### GameRecord and the code

A move is a serial number. `MoveCheck`, `MovePush` and `MoveEnqueue` are the three parts
of `execute_complete_move` between which another thread can run: the game-over guard and
the capture of `is_first_move`; the push on the board; the submission of the task, after
the turn event. `MoveStale` is the push that fails, the move being illegal on the board as it
is by then. `TakebackDelete/Clear/Pop` are `_pop_one_takeback`, `ResetAbandon/State/Id`
are `_reset_game`, `Setup` is `apply_setup_position`, `EndFire/Store/Set` are
`handle_flag`, `handle_resign` and `handle_draw` with `_update_game_result`, none of which
asks whether the game is over already, and the
`Worker...` actions are the task of `_enqueue_post_move_tasks`, where the call that
persists a move and the assignment of `game_db_id` are two steps. A database helper, from
its query to its commit, is one step. `DbError` lets a write fail: of the worker, of a
takeback (`TakebackFails`: it goes on with the row still there), of a reset (`AbandonFails`:
the game and `game_db_id` stay as they were until the reset clears the id).

Two constants say how much of the interleaving a run allows: `AheadOfWorker` names the
operations that may begin while the worker has tasks left, `AmidCallers` those that may
begin amid another thread's operation. The code makes nothing wait; the properties that
need the wait are the ones that do not hold without it, and section 6 lists what then
happens. `RowsInPlayOrder` and `TypeOK` are checked, and proved, without any restriction.

### RefreshScheduler and the code

A frame carries the number of the content it shows. `Render` and `Tick` are
`Manager.update` and the clock's `flush_now` up to the submission, under the render lock.
Renders that were put off for the clock come also while the hardware is handed over
(`_flush_deferred` does not ask), so `Render` does not depend on the hand-over and `Tick` does;
`Submit` is `Scheduler.submit` with its eviction. `Take`, `BeginBatch`, `Route`,
`Start...`, `Draw...`, `FinishFull`, `AbortFull`, `Fail` are the scheduler's loop down to
the executors; the flags have the names of the fields. `IdleSleep` is the idle branch of
the loop, which holds the panel lock; the `Stop...`, `Release` and `Reacquire` actions
are `release_hardware` and `reacquire_hardware`, `Clear` with `NewScreen` is
`clear_widgets` with the render of the next screen, `Reinit` is
`apply_waveform_profile`. The panel keeps what was last completed on it (`glass`),
whether a refresh stopped halfway (`mixed`) and its power.

### BoardReferee and the code

The board senses occupancy only: `phys` is the set of occupied squares, and each touch
(`Lift`, `Place`, and `Bounce`, a sensor that repeats itself) queues an event. The thread
of `receive_field` takes one event and reads the occupancy as it is *then*. One action
stands for each way through `process_field_event`, in the code's order: `Takeback` (the
board shows the position before the last move), `FollowRook` (a castling's rook),
correction mode (`CorrectByPending`, `CorrectByMove`, `NewGame`, `Resume`, `StillWrong`),
lifts (`LiftRefused`, `LiftNoted`), places (`PlacePending`, `PlaceNoise`,
`PlaceTooEarly`, `PlaceSettled`), and what is forwarded to the player, who forms a move
of its own memory of lifts (`PutBack`, `HumanForms`, `EngineForms`). `FailToPush` is a
place on which the handler raises: the pending move starts on an empty square.
`PlayerMove`, `Execute` and `Ask` are `on_player_move`, `execute_complete_move` and
`request_move`, each called within the step of its caller. The engine's thread commits an
answer (`EngineCommits`) and later shows it (`EngineShows`); the worker announces a move
(`WorkerAnnounces`), reads the board (`WorkerJudges`) and enters correction mode
(`WorkerEnters`), each a step others can fall between.

Chess is what the referee needs of it: who stands where, which steps are legal, captures
and castling. Pieces have a side and no kind.

### EngineRegistry, EnginePlayer and the code

A load is numbered when its thread registers it; the number stands for its event, its
handle and its process. A step of `EngineRegistry` is a section under the registry's
lock, or what is done between two of them: `Acquire` is the first section of
`acquire_or_raise` (`Reuse`, `AwaitOther`, `Register`, and `EvictDead` when the pooled
engine has died), `LaunchDone` the start of the process, which fails or not, `Publish`
the entry into the pool, `FinishLoad` the removal of the mark with the wake-up of those
who wait, `Woken` and `WaitTimeout` the two ends of a wait, both of which look once more.

`EnginePlayer` adds the player to it. Its threads are the game's, the link's and the load
threads; `at` says where each is. `Start`, `BeginLoad`, `EngineReady`, `ConfigureFails`
and `LoadFails` are `start` with `acquire_async`, `Recover` is the reload after a failure,
`Connect`, `DetachAndRelease`, `Stopped` and `Disconnect` the coming and going of an app.
A request after a move is `Ask` (the player's state is read), then `Queue` or `Claim`. After
a new game and when an app leaves it is `Offer`, which drops it unless both players are ready
(`controllers/local.py:276`). `FirstReady` is `on_all_players_ready`, which fires once, and only
when both are. `Spawn` begins a computation of the present generation, which `Commit` ends by
taking or dropping its answer. `ConfigureFails` is an `on_ready` that raises, before or, with
`"raise"`, after it has stored the handle; what a second release of that handle does is not
followed. `Move`, `AnnounceMove`, `Takeback` and `NewGame` are what the game does. Positions
are numbered, and `origin` says how the present one arose. `NoneQueueing` is no code: it is the
schedule that `"race"` lifts, in which the load thread does not look at the queue between the
two halves of a request. That both players start in one step, and `suppress_move_requests` of
a resume, are simplifications.

### ChessClock and the code

Each thread that calls the service has a list of what it still has to do (`job`), so that
`stop`, the wait of two seconds for the stopped thread (`joining`) and `start` are steps
others fall between. A countdown thread has a place while it runs and watches the stop
event it was made with. `Time` is the passing of one unit, in which the threads that are
not busy run their loop once: `Rephased` and `Elapsed` are `_rephased_anchor` and
`_elapsed_whole_seconds`; `Tick` is `ChessClockState.tick`, which looks the side up again.
`Move`, `Takeback`, `HandOver`, `NewGame`, `OpenMenu`, `CloseMenu`, `Suspend`,
`ResumeGame`, `AppComes`, `AppLeaves` are the callers.

Moves are completed on two threads, the board's (`"hand"`) and the web's (`"web"`), and each
tells of the turn itself: `Turn` is `_on_game_event`, which starts the clock the first time, and
`Credit`, `Look` and `Give` are the loop of `notify_move_completed`, which tests and moves on its
counter without a lock. `Correct` is the turn event of `_exit_correction_mode`. `Task` is what is
left to the worker, the end of the game. `OneMover` and `CorrectedInPlay` are no code: they are
the schedules that the conditions `"movers"` and `"corrected"` lift.

### BoardLink, PieceEvents and the code

A piece event is a serial number, in the order in which the board sees them. The board is
external: it keeps events until it is asked for its changes, and answers only when it is
awake and, but for the probe, spoken to by its address. `Discover` is the state machine
of `_discover_board_address`; `RetryLook` and `RetryProbe` are the two halves of the retry
worker's loop; `PollSkip`, `PollPut` and `PollNote` are `sendCommand` of a poll, whose
queueing and noting are two steps; `Execute`, `ExecuteLow` and `Timeout` are the request
processor; `Receive` is `on_packet_complete` down to the queue of callbacks. Answers that
say nothing here, those to polls for keys and those without events, are left off the line.

In `PieceEvents` the callback worker (`CallbackOnMenu`, `CallbackInGame`), the main loop
(`main` says where it is) and the game thread (`GameThreadReady`, `GameThreadReplay`) all
hand events on. `Give` is `receive_field`; `EnterGame` is `_enter_game` down to the game
that is resumed or begun, with `MakeHandler` and `ActivateLocal` the two points of
`_start_game_mode` at which events take another way, and `Drain` the forwarding.
Nothing orders the three, as nothing does in the code.

The actions of `BoardLink` have the guards of the code and no others. What the code allows and
a run leaves out is said where the next-state relation is put together, by a named schedule
beside the action: `NotedFirst` (lifted by `"overlap"`), `Undisturbed` and `NotProbing`
(`"race"`), `NoneUnderWay` (`"late"`), `NoEventsInIt` (`"noise"`), `IsLowPriority` (`"direct"`).

## 3. Runs

| Run | Checks | What it shows |
|---|---|---|
| `record_order` | `TypeOK`, `RowsInPlayOrder` | one mover, no restriction on interleaving, failing writes: rows stay in playing order |
| `record_kept` | `RecordIsGame`, `LeftGamesAreClosed`, `TakebackErasesItsOwnMove`, `ResultsAgree`, `MovesReachTheRecord` | the record is the game, a game has one result everywhere, however often it is ended, and every move is stored at last, when operations of different threads do not overlap and all but moves find the worker idle |
| `record_two_movers` | `RecordHasEveryMove` | the board and an engine's thread complete a move at once: one is refused, each is stored once |
| `refresh_color` | `RedIsShown`, `NoPartialOverAborted`, `CatchesUp` | three colors: red that appears, moves or clears takes a full refresh, an aborted refresh is repaired by a full one, and slow refreshes are not starved although the clock ticks for ever |
| `refresh_handover` | `AwakeWhenDriven`, `FullIsHonoured` | mono: sleep, stop, release and return in every interleaving with the scheduler |
| `refresh_faults` | `TypeOK`, `NeverOlder` | with driver errors, failed inits and a join that times out, and frames replayed one by one, the panel does not go back |
| `referee_engine` | `EngineIsAsked`, `AnswersFit`, `PieceHasLeft` | a human against an engine, captures and castling, each touch handled before the next |
| `referee_late` | `TypeOK`, `NothingMissing`, `OneAnswer` | touches ahead of their handling and while the engine thinks, bounces, answers before the announcement |
| `engines_shared` | `TypeOK`, `HeldIsNotQuit`, `NoLostWaiter`, `OneEngine`, `SeatIsHeld`, `NoOrphanReference`, `FlagHasThinker`, `NoStaleAnswer`, `AskedAfterMove`, `QueuedIsServed` | loads that fail, time out and are rejected, engines that die and are evicted, moves, takebacks, new games and an app's session: the process is shared soundly, no stale answer is shown, and a player asked after a move is not left idle on its turn |
| `clock` | `OneCountdown`, `OwnTime`, `CreditedOnce`, `PlayIsTimed`, `StoppedOutsidePlay` | whatever starts, stops and pauses the clock, one thread counts, in play only, and each side is charged and credited what is its own; moves are completed one at a time, and corrected only after the first turn |
| `clock_corrected` | `StoppedOutsidePlay`, violated | pieces put right before the first move start the clock (section 5) |
| `link` | `EventsOnce`, `MovesArrive` | from a board that may be asleep to a game that may be suspended, resumed, left and begun anew: no event is processed twice, and each one arrives |

### Bounds

- `GameRecord`: `MaxMoves` numbers the moves pushed, 3 or 4. Three are the first move,
  which creates the game, one that is taken back and one in the next game; with four
  there is one more in the queue behind them. `OldGames` puts one game in the
  tables, the least for a takeback to hit another one.
- `RefreshScheduler`: `QueueMax` 2 (the code: 5) makes a burst evict with three frames,
  and 4 in `refresh_handover`, which therefore never evicts: `FullIsHonoured` does not
  hold through an eviction. `BatchMax` 2 or 3 gives a batch with something to coalesce.
  `MaxContent` 3 or 4: an aborted frame, the one that aborts it, and one that aborts
  again. Two red planes besides the empty one distinguish "moves" from "appears".
  The runs use the two kinds of panel that have partial refreshes; the theorems also
  cover `"slow"`, which has none.
- `BoardReferee`: boards of 4 and 5 squares on which pieces only advance, so that games
  end; both have captures, the second castling. `MaxHand` pieces off the board, `MaxLifts`
  lifts in a player's memory, `MaxEvents` events unhandled, `MaxTasks` tasks when a
  touch begins. `referee_engine` has two pieces in hand, the least for a capture lifted
  before the capturer, and `MaxEvents` and `MaxTasks` 1: each touch is handled, and the
  worker has begun its task, before the next. `referee_late` has two events, so that the
  occupancy is ahead of the event being handled, and one piece in hand.

- `EnginePlayer`: two users of the engine, a load thread of the player and the coach, and
  two loads, so that the one who waits, the one who finds the pool empty after an eviction
  and the one who reloads are all there. One retry of a failed load (the code: 3). Three
  positions: one asked about, one after it, and one taken back to.
- `ChessClock`: two units to a second, the least at which a side switches in the middle
  of one; two threads, a running one and one that outlives its stop; one second a side, so
  that flags fall; two plies in each of two games, one mate, and four units of time. `Increment` is
  0: credits are counted as history, and times would grow without a bound otherwise.
- `PieceEvents`: two events, a lift and its place; one request for the state, one answer
  lost. Events in three queues at once need no more than two, one overtaking the other.

`Conditions` says in each of the last three modules what else a run may let happen. It is
empty in `engines_shared`, `clock` and `link`, and `{"corrected"}` in `clock_corrected`. What
each condition breaks is in sections 5 and 6.

`CHECK_DEADLOCK FALSE` is given where the system may stop: games that are over
(`BoardReferee`, with every piece in place and the bounds reached), two movers at the last
serial number, and a clock or a player when positions, loads or time are used up. The
link has no such state: its polls go on.

### Fairness

`GameRecord`: weak fairness of the worker's loop (a thread that blocks on its queue) and
of the steps of an operation once begun; that anybody begins an operation is not assumed.
`RefreshScheduler`: weak fairness of the scheduler's loop, of the submission of a frame
once its render has begun (same function call), and of the render that follows a cleared
screen (`clear_widgets` paints nothing and its callers add the next screen's widgets at
once). Nothing is assumed of the clock, which may tick for ever, of the idle timer, or of
the thread that hands the hardware over; `CatchesUp` is therefore checked without
hand-overs. `BoardReferee` states safety only and has no fairness: people may stop
playing. `EnginePlayer`: load threads, threads that wait in the registry, and threads in
the midst of a request go on; nobody is assumed to begin a move, a takeback or a session.
`ChessClock` states safety only. `PieceEvents`: every thread of the driver, the callback
worker, the main loop and the game thread go on as long as they can, the listener is
registered, and a board is woken at last (without which no event happens). Touches, keys
and requests are not assumed, and losses are bounded by `MaxLosses`: a line that always
loses brings no events.

## 4. Proofs

The theorems are proved for every value of the constants under the named assumptions of
the modules, by induction over the specification. Each safety property and each action
property that a passing run checks is stated by one of them.

Many hold under a hypothesis on the constants that say what a run may let happen
(`Conditions`, `Ops`, `AheadOfWorker`, `AmidCallers`, `Events`, `MaxEvents`, `MaxTasks`).
Those hypotheses name the schedules on which the code keeps its promise; sections 5 and 6
say what happens in the code outside them. For the panel, the clock and the referee TLC finds
a counterexample to the theorem when a condition it excludes is let in again. The theorems
about the record share one invariant, and with it its hypotheses, and so do those about
answers and requests of engines: there a hypothesis is needed by one of them but not by every
one, and the lines below say which. The theorems leave the sizes free: squares, pieces, moves, games,
callers, engines, loads, queues, batches and times.

### The game and its record

- `GameRecord_proofs!TypeCorrect`: `TypeOK` is inductive as it stands. The interesting
  conjunct is that `gameId` is -1 or names a row: it is `newId`, which the worker got from
  `Len(games)`, and tables only grow.
- `GameRecord_proofs!RowsStayInOrder`, for any number of movers of which one at a time is in
  a move (`MovesInTurn`), whatever else happens meanwhile. `RowsInPlayOrder` is not
  inductive, since a late task could be written behind a newer row. `PlayOrder` adds that
  the queue is in playing order, that what it holds is newer than every row, and that the
  move a mover has pushed but not yet submitted is the newest of all. Where a move begins
  amid another the last is false, and so is the property: a reply can be submitted before
  the move it answers (section 6). Only for first moves, which open a game each, has TLC no
  counterexample.
- `GameHistory_proofs!RecordIsTheGame`, `GamesLeftAreClosed` and `TakebacksAreOwn`, for
  threads that take turns (`InTurns`: a single mover, or several whose operations do not
  overlap; the end of a game may come at any time), no setup position, no failing write,
  first moves, takebacks and resets that find the worker idle, and no game or the last one
  resumed. The invariant (`RecordKept`) says that some thread is on turn, and of that
  thread (`Kept`), at every step of every operation, how the table ends: with the initial
  row of the current game and the first moves of the board, the rest being in the queue
  and, between push and submission, with the mover. That the last row of the *whole* table
  is that of the move taken back is a consequence. The turn passes between operations,
  and `KeptPassesOn` is why it can: an idle thread is like any other. By TLC all three
  fail where movers overlap, a first move runs ahead of the worker or a write fails;
  `RecordIsGame` also with any of the others but setup, `LeftGamesAreClosed` with setup and
  with a reset ahead of the worker, `TakebackErasesItsOwnMove` with takebacks ahead of the
  worker and an older game resumed.
- `ResultsDoAgree`: the game may be ended, and ended again, by the board, a flag, a
  resignation or an agreement, when the worker has caught up and no other operation is under
  way (`AmidCallers = {}`), by any number of threads. The invariant (`Agreed`, of the thread
  on turn in `ResultKept`) follows a result from the thread that decides it to the table and
  the cache: which of board, cache and row already has it depends on where that thread
  stands. By TLC it fails with each of the conditions it excludes but an older game resumed.
  That play stops at the end, and that a decided result stands, is not among the theorems,
  since the code does neither (section 5).
- `EveryMoveIsRecorded`, for any number of movers: rows are then no longer in playing order,
  so the invariant of movers in turn is of no use. `OnTheWay` says that each move on the
  board is at exactly one place on its way, in the hands of its mover, in the queue or in
  the rows of the game, and that nothing else is on that way. Until a game has a row one
  move at most is on it: here the first move has to be made on its own. With a takeback,
  a reset, a setup position or a failed write beside the other mover TLC refutes it.

### The panel

- `RefreshScheduler_proofs!TypeCorrect`: `TypeOK`, including the limits of queue and batch.
- `RefreshScheduler_proofs!NeverGoesBack`: the scheduler implements `PanelMirror!Safe`
  with `wanted <- submitted`, `shown <- glass.n`. `InOrder` is the invariant: what is on
  the panel, in the batch, in the queue and being rendered is in this order, each sorted,
  none above what was submitted; eviction, coalescing and replay keep sorted sequences
  sorted, and only the head of the batch reaches the panel.
- `PartialsAreClean` (no partial refresh over the remains of an aborted one): after an abort
  the scheduler owes a full refresh, and the only ways to forget the debt are a failed
  refresh and a stop in the middle of one, which the theorem leaves out (`"error"`,
  `"stop"`). `RedIsAlwaysShown` rests on it: the red plane on record is the one on the glass
  whenever nothing is owed.
- `PanelIsAwake`: a panel without power is asleep or marked for an `init()` before it is
  driven again (`Awake`), there is power while it is drawn on, and the scheduler's thread
  is gone once it was joined. It needs drawing and an `init()` that succeed and a join
  that does not time out.
- `RequestsAreHonoured` has its hypothesis on the behaviour, `[]NoRequestEvicted`, rather
  than on a constant: a request for a full refresh is kept from its submission to the panel,
  through queue, batch and coalescing, and an eviction is the one thing that loses it.

### The referee

- `BoardReferee_proofs!TypeCorrect`, and `AnswersComeOnce` (`OneAnswer`), under every
  condition and for all boards, pieces and bounds: an engine has one pending answer at most,
  since a computation begins only where there is none and the one before is over.
- `EngineIsAlwaysAsked`, when each touch is handled and the worker has begun its task before
  the next (`Unhurried`). `AskedInv` says of each engine on its turn where its request is:
  in a computation, in a pending answer, or in the announcement the worker still has to
  make, after which it is asked. An answer is for the position on the board and no
  announcement is due that could clear it, or it is the one the engine has just played and
  goes with the announcement of its own move.
- `EnginesPlayTheirAnswers` and `PiecesMoveWhenLifted` (`HandInv`) relate the two memories of
  a gesture, the referee's and the player's, to what is off the board. The second also needs
  that no castling rook lands where the king stood (`CastlesApart`), which is so in chess:
  a rook that comes back to the king's square would look like a piece that never left.
- `NoPieceGoesMissing`, with any number of touches unhandled and tasks in the queue, and
  under all conditions but `"busy"`, on boards without castling. `MissingInv` accounts for
  each square whose piece is off the board: unless the mode is correction, the worker has
  something to do or an answer is waiting, its lift is still to be handled or is
  remembered (`Accounted`), and a piece whose placing is still to be handled and which is
  off again has been lifted later in the queue (`PlacesAreFollowed`). With castling the
  property fails (section 6).

### The engines

- `EngineRegistry_proofs!RegistrySafe`, from which `ReferencesCounted`, `UsedEnginesRun`,
  `WaitersHaveLoader` and `OneProcess` follow. None of them is inductive alone: a count is
  right because a load has the pool to itself until it publishes (`OneLoader`,
  `PoolWaits`), its engine has no holder before (`NotYetHeld`), and whoever waits, waits
  for the load that is registered or one that is done (`WaitIsForLoad`).
- `EnginePlayer_proofs!PlayerUsesRegistry`: each step of the composition is a step of the
  registry or leaves it alone, so all of the above holds with the player on top; it needs
  that the player releases only what it holds (`SeatInv`), or returns what it was just
  given. `PlayerHoldsItsEngine` says that its handle is such a reference, if nothing fails
  once the handle is stored (no `"raise"`). `ThinkingEnds`: `FlagHasThinker` is inductive, because
  invalidation lowers the flag in the step in which it makes the generation stale.
- `NoReferenceIsOrphaned`, `AnswersAreCurrent` and `EngineIsAskedAfterMoves`, on top of the
  registry's invariant. `LoadInv` pairs each load thread of the player with what it will
  hand over, so that each reference it was given is the player's, or still in its hands;
  `AnswerInv` ties a computation to the position it was asked about through the generation
  it was begun in; `AskInv` adds where the request is when the engine is on turn after a move
  (`Sought`): at a thread that makes it, in the queue, in a load after which it is looked at,
  in a computation or in the answer. The three need fewer overlaps in this order: no
  `"overlap"`, `"early"` and `"raise"`, no `"requeue"` and `"race"` either, no condition at all.
  Each rests on the invariant before it and takes its hypotheses over: TLC refutes
  `NoStaleAnswer` under `"overlap"`, `"early"` and `"requeue"`, `AskedAfterMove` under
  `"overlap"`, `"early"`, `"race"` and `"overtake"`, and knows no counterexample to
  `NoOrphanReference` on the instance of the run.

### The clock

- `ChessClock_proofs!ClockIsCountedOnce`: the flag `_is_running` is of no use for it; the
  invariant says that a thread whose own stop event is not set is the current one and the
  one `_stop_event` was made for.
- `TimeIsOnesOwn`: a tick is charged to the side that is on turn *then*, not when the unit
  began, so the invariant (`CountInv`) bounds what a thread may still charge by how long ago
  its anchor was moved. `IncrementsAreGivenOnce` and `PlayCostsTime`: `CreditInv` follows a
  ply from the move through its mover's turn event to the look at the counter and the credit
  given; the two parts of that loop are tied by what was seen being what the counter still
  is, which one mover at a time (`OneAtATime`) keeps true. `OnlyPlayCostsTime` (`StoppedInv`)
  says for each caller at each step of its job why the clock may still run, and that the
  first turn told follows a move (`MovedFirst`). The order in which the callers stop, join
  and start is what all of them depend on, and the hypotheses name the overlaps under which
  it is lost: `"slow"` and `"hurry"` for `TimeIsOnesOwn`, `"hurry"` and `"revived"` for the
  next two, the first of which also needs `"movers"` away, and any condition for the last.

### The events

- `PieceEvents_proofs!EventsAreProcessedOnce`: `EventsOnce` under every condition and for any
  number of events, requests and losses. The driver's queues lie on one way from the board to
  the callbacks; `InOrder` puts a mark between each two, with what waits in a queue sorted
  between the marks on either side, so that an event that leaves the driver is newer than all
  that have. From there on three threads hand events on in no common order, and the invariant
  says no more than that no event is twice in a queue (`Once`) and none in two of them
  (`Apart`). `KeptUntilReady` and `OneGameThread` are needed where the game thread takes over
  what was kept: nothing else may wait to be replayed then.

### What stays with TLC

Liveness: `CatchesUp`, `MovesReachTheRecord`, `QueuedIsServed` and `MovesArrive`, with the
fairness they need, which this prover has no rules for. The liveness of `PanelMirror`
likewise: its safety is refined by proof, its liveness by a run.

## 5. Findings

What the code does against its own words. `clock_corrected` is kept as a run; the others are
shown by a passing run with the change the line names, and with the property that fails as
the only one where it is not among those the run checks. It then fails within two minutes.

| Run, changed | Fails | Because |
|---|---|---|
| `clock_corrected` | `StoppedOutsidePlay` | `_exit_correction_mode` fires a turn event whatever the ply (`game_manager.py:794`), and the first one starts the clock (`board_app.py:2547-2549`): pieces put right after a new game and before its first move start White's clock. `managers/display.py:1191`: "The clock will not start until the first move is made."; `game_manager.py:1956`: "clock should only start on first actual move." |
| `ClockShared.cfg`: `Conditions = {"movers"}` | `CreditedOnce` | two threads that complete moves at once both look at the counter before either has moved it on (`services/chess_clock.py:385`), and one ply gives its increment twice, against "idempotent: repeated turn events or a game resume never double-count" (lines 382-383) |
| `RecordKept.cfg`: `AmidCallers = {"End"}`, `PROPERTY PlayStopsAtTheEnd` | `PlayStopsAtTheEnd` | `execute_complete_move` looks at `is_game_over` at `player_moves.py:161` and pushes at line 180; a flag or a resignation on another thread can end the game in between, and the move is played on it. Line 158: "Once the game is over the only permitted behaviour is correction mode insisting on the final position" |
| `RecordKept.cfg`: `PROPERTY DecidedResultStands` | `DecidedResultStands` | `handle_resign`, `handle_draw`, `handle_flag` (`game_manager.py:1769-1864`) and the worker's end of a game store their result whether or not there is one: a mate on record is replaced by the flag that falls after it, against the same line |
| `EnginesShared.cfg`: `INVARIANT AskedAfterApp` | `AskedAfterApp` | an app gives the seat back, the engine starts to load and is asked at once: the request is dropped because it is not ready (`controllers/local.py:276`), nothing is queued, and `on_all_players_ready` does not fire a second time. The docstring at `controllers/manager.py:293` says it "requests a move from the current player (in case an engine player was just restored and it's their turn)" |
| `EnginesShared.cfg`: `Conditions = {"race"}` | `AskedAfterMove`, `QueuedIsServed` | `request_move` looks at the state and then stores the board (`players/base.py:456-459`); the load thread may make the player ready and look at the queue in between, and nobody serves it. Line 447: "queues the request and processes it when the player becomes ready" |
| `EnginesShared.cfg`: `Conditions = {"raise"}` | `SeatIsHeld` | `_on_engine_ready` stores the handle and then tells of it (`players/engine.py:188-198`); if that raises, `acquire_async` returns a reference the player keeps and returns again. `engine_registry.py:642`: "the consumer errored without storing the handle, so it never releases it" |
| `PiecesArrive.cfg`: `INVARIANT EventsInOrder` | `EventsInOrder` | three threads hand events to a game without a common order. On a resume the session is in the game before the panel is redrawn and the menu's queue forwarded (`board_app.py:2888-2891`, `7165`), so a live place goes ahead of its queued lift; at a start live events go to the game manager between the making of the handler and the forwarding; and the replay (`game_manager.py:2014`) runs after the ready flag is up and outside its lock. `app/pending_work.py:119` says "Order is the order the board reported, since a lift and its place only make sense in sequence" |
| `RecordKept.cfg`: `OldGames = 2`, `Resumed = 1`, `MaxMoves = 2` | `TakebackErasesItsOwnMove` | `delete_last_move` deletes the last row of the whole table (`managers/game/database.py:210`): a takeback in a resumed older game takes a row of the newest one, and leaves its own on record. `game_manager.py:569` promises "Remove last move from database" |
| `RefereeEngine.cfg`: `Conditions = {"overtake"}` | `EngineIsAsked` | the announcement of a move clears the pending move of an engine that has already answered it (`players/engine.py:540`), and nobody asks again. The docstring of `on_move_made` guards against this ("the engine would never play"), but only while the engine is still thinking; the announcement comes from the worker, after the database write |
| `RefereeEngine.cfg`: `Engines = {}`, `PROPERTY PutBackIsNoAction` | `PutBackIsNoAction` | touch an opponent's piece that could be captured and put it back: the place is dropped as noise (`field_events.py:598`) and the player keeps the lift. Then touch an own piece and put it back: the two lifts are read as an illegal capture, and correction mode is entered. `game_manager.py:1599` says "piece_returned: ... no action" |
| `PiecesArrive.cfg`: `Conditions = {"overlap"}` | `MovesArrive` | a poll is queued and then noted (`sync_centaur.py:1309-1312`); if the processor takes it in between, it stays noted with nothing queued and is skipped from then on, against "tracking reflects what's actually in the queue" (line 961) |
| `PiecesArrive.cfg`: `Conditions = {"race"}` | `MovesArrive` | the retry worker looks at `ready`, then forgets the address (lines 452-461): an answer read in between leaves a board that is ready and has no address |
| `ClockShared.cfg`: `Conditions = {"begun"}` | `StoppedOutsidePlay` | a game suspended, or taken over by an app, before its first move is resumed with `resume()`, which starts a stopped clock; `reset_clock` says it "will not start until the first move is made" |

## 6. Seen while modelling

Not every disagreement is kept as a run. These were found with the models, under wider
interleavings than the runs above, or read off the code.

Game record:
- two moves completed before the worker has stored the first create two games:
  `is_first_move` is captured at the push (`player_moves.py:173`, `RecordIsGame`);
- a reply made on another thread is submitted before the move it answers
  (`player_moves.py:217`, `game_manager.py:896`, `RowsInPlayOrder` with two movers);
- the game-end task of a move taken back still ends the game (`game_manager.py:570-577`);
- a draw that must be claimed ends the game as `*` (`player_moves.py:200`);
- a takeback whose row cannot be deleted leaves it and goes on (`game_manager.py:574-579`), and
  a reset that cannot close its game leaves that game open (`game_manager.py:1896`);
- a resignation before the first row exists is not stored (`game_manager.py:429`);
- a reset undone by the worker's assignment (`game_manager.py:951`, `1948-1949`).

Refresh scheduler:
- the result of `init()` is not looked at: after a -1 the flags say the panel is
  initialised (`scheduler.py:698`; `epd2in9d.py:445-447` says refreshes keep retrying);
- an eviction loses a full request (`scheduler.py:221`);
- after an abort, if the next full refresh raises an error or is stopped the partial that follows is
  drawn over the remains (`scheduler.py:446`), and the red plane recorded is one that was never drawn
  (`scheduler.py:542`);
- a forced re-initialisation is consumed by a partial that sees the stop event
  (`scheduler.py:691`); and a join that times out leaves the old thread to draw on a
  panel being closed (`scheduler.py:156`, `manager.py:826-847`).

Board referee:
- with pieces touched while the engine thinks, correction mode accepts a legal occupancy
  as the engine's move (`field_events.py:503-521`), against the docstring at 86-92:
  `AnswersFit` fails with `"impatient"`;
- an engine that shows its answer while a castling rook is still to follow enters
  correction mode (`game_manager.py:1718-1736`), which the worker's check takes care
  not to do (`game_manager.py:976-979`);
- after a takeback by hand no engine is asked, and a human's lifts are kept: the
  properties except what follows a takeback (`undone`);
- any piece placed on the rook's square completes a castling (`field_events.py:273`), and
  nobody compares the board after it: the worker has skipped its comparison while the rook
  was to follow (`game_manager.py:988`). A piece that went missing meanwhile is not noticed
  (`NothingMissing` with castling and two touches ahead, or three pieces in hand), so it is
  checked and proved on boards without castling; an extra piece is not noticed either;
- a worker that finds a touch being handled leaves the comparison to it, and it may not come
  (`"busy"`, `NothingMissing`);
- an engine that finds its move on the board by its own reading of the lifts
  (`players/engine.py:464-520`) keeps its answer until the worker announces the move. If the
  human has replied by then, the request that follows is ignored because an answer is still
  there (`players/engine.py:353`), and nobody asks again: `EngineIsAsked` with `MaxTasks = 2`,
  on six squares with two pieces each;
- with a second touch before the first is handled, the occupancy is that of the second, and
  a move can be made that no lift began: `AnswersFit`, `PieceHasLeft` with `MaxEvents = 2`;
- a takeback or an indicated move carried out in correction mode leaves the mode active
  on a board that matches, until the next touch.

Engines:
- a request that overtakes the announcement of the move it answers loses its answer there
  too (`"overtake"`, `AskedAfterMove`);
- a queued request survives a takeback, a new game and a stop: `_pending_board` is not
  cleared, and the player asks about a position that is gone (`"requeue"`,
  `NoStaleAnswer`);
- an app that comes while the engine is loaded stops a player whose load thread then makes
  it ready, with the app in its seat (`"early"`: `NoStaleAnswer`, `AskedAfterMove`), and
  other overlaps of loads, stops and requests have the same effect (`"overlap"`);
- a new game that begins while the engine loads is not put to it: the request is dropped like
  that of an app that leaves (`controllers/local.py:276-277`), and `on_all_players_ready` has
  fired already;
- a player whose engine died keeps its handle and does not load again until it is stopped;
  one that ends in error is not asked again when it recovers.

Clock:
- a thread that the panel keeps busy for more than a unit charges one side for the other's
  time (`"slow"`, `OwnTime`);
- a menu open while a game ends or an app comes resumes the clock when it closes
  (`"menu"`, `StoppedOutsidePlay`);
- an app or a new game that comes before the last movers and the worker are done with the
  clock finds moves credited late, or not (`"hurry"`: `OwnTime`, `CreditedOnce`,
  `PlayIsTimed`, `StoppedOutsidePlay`);
- a takeback of a finished game leaves the clock stopped, since it counts as started
  (`"revived"`: `PlayIsTimed`, `CreditedOnce`);
- a tick and a credit change the same time without a lock, and so do two increments of the
  counter of credited plies (each change is modelled as one step), and
  each game adds a closure to `set_on_flag` which is never removed.

Board and menus:
- a garbled answer that held events loses them: only the state's answer has a failure
  callback (`sync_centaur.py:663`; `"noise"`, `MovesArrive`);
- a late answer is given to the next request of its type (`"late"`; the properties hold);
- requests for the state through the queue of the polls push these out of the deque of the
  last two commands, so that they are queued again and again on a slow board (`"direct"`);
- a game begun over a suspended one, because its players changed, discards the very lift
  that began it (`_cleanup_game`), an event between two menus with nothing queued is
  dropped, and one that comes when the menu's result has been read cancels nothing: while
  a submenu is open, later ones do not either (`app/board_app.py:7151`);
- events that are handed over while a game is closed go to a manager nobody replays;
- "Flush stale piece events" at the discovery (`sync_centaur.py:1398`) flushes nothing:
  the board is ready, and the answer is routed like any other.

## 7. Not modelled

`PROJECT.json` lists every component with its status. Not modelled at all, because they
are user interface, wrappers of system commands, texts from language models or
configuration: widgets and drawing, Wi-Fi and radios, USB gadget, coach, settings and
localisation, the web client, packaging. Of the modelled components, left out are:

- game record: analysis scores, clock columns and PGN data in the rows,
  `apply_uci_history` and `takeback_to_ply`;
- refresh scheduler: the batching of renders put off for the clock, the live exchange of the driver
  and the futures' results;
- referee: the gestures with kings, sessions of remote apps, setup and web-move modes,
  promotion and Chess960, and polls of the board that fail;
- engines: `acquire_dedicated` and the shutdown of the registry, what an engine is asked
  and answers over UCI, Hand+Brain, pondering;
- clock: games on Lichess and the times it sends, the turn events of a resumed stored game
  (`board_app.py:1410`) and of `apply_uci_history` (`game_manager.py:669`), delays and stages, settings applied to a running game,
  untimed games;
- board driver: packets byte by byte, keys, `sleep()` and `cleanup()`, lights and sounds,
  the limits of the queues (200, 10 and 256), notified events (`DGT_NOTIFY_EVENTS` is
  `None` in this code);
- menus and lifecycle: submenus, the keyboard, other pending work, the start of a game that
  is cancelled or skipped for Lichess, and a stop while the game thread is starting.

## 8. Plan

In this order; each module is written to be proved about (no recursive operators).

1. The indicated move in correction mode is accepted at last (`field_events.py:446`), under
   fairness of the hand that follows the lights: the one hazard without a property.
2. Proofs about `BoardLink`: type correctness, and that the poll noted is the poll queued.
3. An abstract `Countdown` for `ChessClock`: the two times and what was spent add up;
   then the delays and stages.
4. Framing of packets in the driver as a function of chunks, against a reference parse of
   the whole; then keys, their long presses and the discarding of stale ones.
5. `EngineInstall`: persisted state, interruption at every step, resumption.
6. `Analysis`, `LichessPlayer`, `Controllers`: superseded results; missed stream events;
   ownership of the board.
