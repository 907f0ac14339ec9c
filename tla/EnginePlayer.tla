----------------------------- MODULE EnginePlayer -----------------------------
(***************************************************************************)
(* A player whose moves an engine computes, over the registry it shares    *)
(* with the rest of the program: its start and recovery, the requests for  *)
(* a move, the computations, and the chess app that takes its seat.        *)
(*                                                                         *)
(* The threads are the game's (moves, takebacks, new games), the one that  *)
(* announces moves, the link's (an app connects and disconnects), one load *)
(* thread per start and one thread per computation.  A position is known   *)
(* by its number in the order the positions of the game arose.             *)
(***************************************************************************)
EXTENDS EngineRegistry

CONSTANTS
    Loaders,        \* the users that are the load threads of this player
    Conditions,     \* what else may happen: the answer may "overtake" the
                    \* announcement of the move before it, requests, loads and
                    \* stops may interrupt each other ("overlap"), an engine may
                    \* become ready while a request is queued ("race"), the app may
                    \* come while the engine is loaded ("early"), a queued request
                    \* may be overtaken by a takeback or a new game ("requeue"), and
                    \* a load may fail after its engine was stored ("raise")
    MaxLoadRetries, \* MAX_ENGINE_LOAD_RETRIES
    MaxPos,         \* bound: number of positions
    NoThread        \* not a thread

ASSUME LoadersAssumption ==
    /\ Loaders \subseteq Users
    /\ NoThread \notin Users
    /\ "game" \notin Users /\ "link" \notin Users
ASSUME PlayerBoundsAssumption == MaxLoadRetries \in Nat /\ MaxPos \in Nat \ {0}

VARIABLES
    status,         \* _state
    queued,         \* _pending_board: the position of a queued request, 0 if none
    seat,           \* _engine_handle: the thread whose reference the player has
    retries,        \* _load_retries
    gen,            \* _think_generation
    thinking,       \* _thinking
    answer,         \* _pending_move: the position it answers, 0 if none
    thinkers,       \* the computations that have not ended
    at,             \* where the game, the link and the load threads are
    board,          \* the position each is to ask about, 0 for the live board
    fired,          \* PlayerManager._ready_fired
    seated,         \* the player has its slot; FALSE while the app has it
    pos,            \* number of the position on the board
    turn,           \* whose turn it is
    first,          \* who has White
    origin,         \* how the position on the board arose
    news            \* a move is still to be announced to the players

playerVars == <<status, queued, seat, retries, gen, thinking, answer, thinkers, at, board, fired>>
gameVars == <<seated, pos, turn, first, origin, news>>
vars == <<registryVars, playerVars, gameVars>>

Threads == Loaders \union {"game", "link"}
Others == Users \ Loaders

Statuses == {"new", "init", "ready", "thinking", "stopped", "error"}
Origins == {"start", "move", "takeback", "new", "app"}
Steps == {"idle", "ask", "offer", "queue", "claim", "claimed", "serve", "reset", "undo", "leave",
          "release", "stop", "load", "loading", "first"}
Engine == IF seat = NoThread THEN None ELSE mine[seat]

Init ==
    /\ RegistryInit
    /\ status = "new"
    /\ queued = 0
    /\ seat = NoThread
    /\ retries = 0
    /\ gen = 0
    /\ thinking = FALSE
    /\ answer = 0
    /\ thinkers = {}
    /\ at = [p \in Threads |-> "idle"]
    /\ board = [p \in Threads |-> 0]
    /\ fired = FALSE
    /\ seated = TRUE
    /\ pos = 1
    /\ first \in {"human", "engine"}
    /\ turn = first
    /\ origin = "start"
    /\ news = FALSE

Go(p, step) == at' = [at EXCEPT ![p] = step]
Idle(p) == at[p] = "idle"

\* No thread is at one of these steps, or they may be interrupted.
Apart(steps) == "overlap" \in Conditions \/ \A p \in Threads: at[p] \notin steps

----------------------------------------------------------------------------
(* Start, recovery and stop                                                *)

\* start(): a new load thread.  p goes on at the given step.
Start(p, step) ==
    \E t \in Loaders:
        /\ t # p
        /\ Idle(t) /\ pc[t] = "idle"
        /\ status' = "init"
        /\ at' = [at EXCEPT ![t] = "load", ![p] = step]

FirstStart ==
    /\ status = "new"
    /\ Idle("game")
    /\ Start("game", "idle")
    /\ UNCHANGED <<registryVars, queued, seat, retries, gen, thinking, answer, thinkers, board,
                   fired, gameVars>>

Invalidate_KeepsFlag ==
    /\ gen' = gen + 1
    /\ answer' = 0
    /\ thinking' = thinking

\* Cancels the computation under way and clears the answer.
Invalidate ==
    /\ gen' = gen + 1
    /\ answer' = 0
    /\ thinking' = FALSE

AfterInvalidate == IF status = "thinking" THEN "ready" ELSE status

\* set_player: an app takes the seat of the engine and the player is stopped.
Connect ==
    /\ Idle("link")
    /\ seated
    /\ status # "new"
    /\ "early" \in Conditions \/ \A t \in Loaders: Idle(t)
    /\ Apart({"ask", "offer", "queue", "claim", "claimed", "reset"})
    /\ "requeue" \in Conditions \/ queued = 0
    /\ Invalidate
    /\ status' = AfterInvalidate
    /\ Go("link", "release")
    /\ UNCHANGED <<registryVars, queued, seat, retries, thinkers, board, fired, gameVars>>

DetachAndRelease_KeepsSeat ==
    /\ at["link"] = "release"
    /\ IF seat = NoThread
       THEN UNCHANGED registryVars
       ELSE Release(seat)
    /\ seat' = seat
    /\ Go("link", "stop")
    /\ UNCHANGED <<status, queued, retries, gen, thinking, answer, thinkers, board, fired, gameVars>>

DetachAndRelease ==
    /\ at["link"] = "release"
    /\ IF seat = NoThread
       THEN UNCHANGED registryVars
       ELSE Release(seat)
    /\ seat' = NoThread
    /\ Go("link", "stop")
    /\ UNCHANGED <<status, queued, retries, gen, thinking, answer, thinkers, board, fired, gameVars>>

Stopped ==
    /\ at["link"] = "stop"
    /\ status' = "stopped"
    /\ seated' = FALSE
    /\ Go("link", "leave")
    /\ UNCHANGED <<registryVars, queued, seat, retries, gen, thinking, answer, thinkers, board,
                   fired, pos, turn, first, origin, news>>

\* The app leaves after some moves: set_player starts the player again, and then
\* the player whose turn it is is offered to move.
Disconnect ==
    /\ at["link"] = "leave"
    /\ ~news
    /\ Idle("game")
    /\ pos < MaxPos
    /\ turn' \in {"human", "engine"}
    /\ pos' = pos + 1
    /\ origin' = "app"
    /\ seated' = TRUE
    /\ Start("link", "offer")
    /\ UNCHANGED <<registryVars, queued, seat, retries, gen, thinking, answer, thinkers, board,
                   fired, first, news>>

----------------------------------------------------------------------------
(* The load thread: acquire_async, _on_engine_ready, _on_engine_error      *)

BeginLoad(t) ==
    /\ at[t] = "load"
    /\ Acquire(t)
    /\ Go(t, "loading")
    /\ UNCHANGED <<status, queued, seat, retries, gen, thinking, answer, thinkers, board, fired,
                   gameVars>>

\* _set_state(READY), after the handle has been stored: a player that was
\* initialising tells the manager and then serves the queued request.
EngineReady(t) ==
    /\ at[t] = "loading"
    /\ pc[t] = "held"
    /\ seat' = t
    /\ retries' = 0
    /\ status' = "ready"
    /\ Go(t, IF status = "init" THEN "first" ELSE "idle")
    /\ UNCHANGED <<registryVars, queued, gen, thinking, answer, thinkers, board, fired, gameVars>>

ConfigureFails_KeepsReference(t) ==
    /\ at[t] = "loading"
    /\ pc[t] = "held"
    /\ UNCHANGED registryVars
    /\ status' = "error"
    /\ Go(t, "idle")
    /\ UNCHANGED <<queued, seat, retries, gen, thinking, answer, thinkers, board, fired, gameVars>>

\* on_ready raises, because the options are rejected, or once the handle is stored:
\* the reference is returned before the error is told.
ConfigureFails(t) ==
    /\ at[t] = "loading"
    /\ pc[t] = "held"
    /\ Release(t)
    /\ \E stored \in {s \in BOOLEAN: s => "raise" \in Conditions}:
        /\ seat' = IF stored THEN t ELSE seat
        /\ retries' = IF stored THEN 0 ELSE retries
    /\ status' = "error"
    /\ Go(t, "idle")
    /\ UNCHANGED <<queued, gen, thinking, answer, thinkers, board, fired, gameVars>>

LoadFails(t) ==
    /\ at[t] = "loading"
    /\ pc[t] = "idle"
    /\ status' = "error"
    /\ Go(t, "idle")
    /\ UNCHANGED <<registryVars, queued, seat, retries, gen, thinking, answer, thinkers, board,
                   fired, gameVars>>

\* The human is always ready, and so is the app in the engine's seat.
AllReady == ~seated \/ status = "ready"

\* on_all_players_ready, once both are: White is asked for the first move unless it
\* is a human.  The move is that of the side to move.
FirstReady(t) ==
    /\ at[t] = "first"
    /\ fired' = (fired \/ AllReady)
    /\ IF ~fired /\ first = "engine" /\ turn = "engine" /\ seated /\ status = "ready"
       THEN /\ queued' = 0
            /\ Go(t, "claim")
       ELSE /\ UNCHANGED queued
            /\ Go(t, "serve")
    /\ UNCHANGED <<registryVars, status, seat, retries, gen, thinking, answer, thinkers, board,
                   gameVars>>

ServeQueued_Forgets(t) ==
    /\ at[t] = "serve"
    /\ queued' = queued
    /\ Go(t, "idle")
    /\ UNCHANGED <<registryVars, status, seat, retries, gen, thinking, answer, thinkers, board,
                   fired, gameVars>>

ServeQueued(t) ==
    /\ at[t] = "serve"
    /\ board' = [board EXCEPT ![t] = queued]
    /\ queued' = 0
    /\ Go(t, IF queued = 0 THEN "idle" ELSE "claim")
    /\ UNCHANGED <<registryVars, status, seat, retries, gen, thinking, answer, thinkers, fired,
                   gameVars>>

----------------------------------------------------------------------------
(* Requests: PlayerManager.request_move, Player.request_move,              *)
(* _do_request_move                                                        *)

\* A failed load is tried again, a few times in a row.
Recover(p) ==
    /\ status = "error"
    /\ IF retries < MaxLoadRetries
       THEN /\ queued' = pos
            /\ retries' = retries + 1
            /\ Start(p, "idle")
       ELSE /\ queued' = 0
            /\ Go(p, "idle")
            /\ UNCHANGED <<retries, status>>

\* After a move the manager asks the player whatever its state.
Ask(p) ==
    /\ at[p] = "ask"
    /\ Apart({"release", "stop"})
    /\ \/ /\ turn = "engine" /\ seated /\ status = "ready"
          /\ queued' = 0
          /\ Go(p, "claim")
          /\ UNCHANGED <<status, retries>>
       \/ /\ turn = "engine" /\ seated /\ status = "init"
          /\ Go(p, "queue")
          /\ UNCHANGED <<queued, status, retries>>
       \/ /\ turn = "engine" /\ seated
          /\ Recover(p)
       \/ /\ turn = "human" \/ ~seated \/ status \in {"new", "thinking", "stopped"}
          /\ Go(p, "idle")
          /\ UNCHANGED <<queued, status, retries>>
    /\ UNCHANGED <<registryVars, seat, gen, thinking, answer, thinkers, board, fired, gameVars>>

\* After a new game and when an app has left, the controller asks only if both
\* players are ready (_request_current_player_move); otherwise nobody is asked.
Offer(p) ==
    /\ at[p] = "offer"
    /\ Apart({"release", "stop"})
    /\ IF turn = "engine" /\ seated /\ status = "ready"
       THEN /\ queued' = 0
            /\ Go(p, "claim")
       ELSE /\ UNCHANGED queued
            /\ Go(p, "idle")
    /\ UNCHANGED <<registryVars, status, seat, retries, gen, thinking, answer, thinkers, board,
                   fired, gameVars>>

\* The request is queued after the state has been read.
Queue(p) ==
    /\ at[p] = "queue"
    /\ queued' = pos
    /\ Go(p, "idle")
    /\ UNCHANGED <<registryVars, status, seat, retries, gen, thinking, answer, thinkers, board,
                   fired, gameVars>>

After(p) == IF p \in Loaders /\ board[p] = 0 THEN "serve" ELSE "idle"

\* Under the lock: one computation at a time, and none over an answer.
Claim(p) ==
    /\ at[p] = "claim"
    /\ IF ~thinking /\ answer = 0 /\ seat # NoThread
       THEN /\ gen' = gen + 1
            /\ thinking' = TRUE
            /\ thinkers' = thinkers \union
                   {[gen |-> gen + 1, pos |-> 0, engine |-> Engine, step |-> "claimed", by |-> p]}
            /\ Go(p, "claimed")
            /\ UNCHANGED board
       ELSE /\ Go(p, After(p))
            /\ board' = [board EXCEPT ![p] = 0]
            /\ UNCHANGED <<gen, thinking, thinkers>>
    /\ UNCHANGED <<registryVars, status, queued, seat, retries, answer, fired, gameVars>>

\* The board is copied and the computation begins.
Spawn(p) ==
    /\ at[p] = "claimed"
    /\ status' = "thinking"
    /\ \E th \in thinkers:
        /\ th.by = p /\ th.step = "claimed"
        /\ thinkers' = (thinkers \ {th}) \union
               {[gen |-> th.gen, pos |-> IF board[p] = 0 THEN pos ELSE board[p],
                 engine |-> th.engine, step |-> "compute", by |-> NoThread]}
    /\ Go(p, After(p))
    /\ board' = [board EXCEPT ![p] = 0]
    /\ UNCHANGED <<registryVars, queued, seat, retries, gen, thinking, answer, fired, gameVars>>

Ended(th) ==
    [gen |-> th.gen, pos |-> th.pos, engine |-> th.engine, step |-> "done", by |-> NoThread]

Commit_AnyGeneration(th) ==
    /\ th \in thinkers
    /\ th.step = "compute"
    /\ "overtake" \in Conditions \/ ~news
    /\ thinking' = FALSE
    /\ answer' = IF proc[th.engine] = "up" THEN th.pos ELSE answer
    /\ thinkers' = (thinkers \ {th}) \union {Ended(th)}
    /\ UNCHANGED <<registryVars, status, queued, seat, retries, gen, at, board, fired, gameVars>>

\* A computation ends: with a move while its engine runs, and perhaps without
\* one when the engine has ended.  Its result counts if it was not superseded.
Commit(th) ==
    /\ th \in thinkers
    /\ th.step = "compute"
    /\ "overtake" \in Conditions \/ ~news
    /\ IF th.gen = gen
       THEN /\ thinking' = FALSE
            /\ answer' = IF proc[th.engine] = "up" THEN th.pos ELSE answer
            /\ thinkers' = (thinkers \ {th}) \union {Ended(th)}
       ELSE /\ thinkers' = thinkers \ {th}
            /\ UNCHANGED <<thinking, answer>>
    /\ UNCHANGED <<registryVars, status, queued, seat, retries, gen, at, board, fired, gameVars>>

AfterCommit(th) ==
    /\ th \in thinkers
    /\ th.step = "done"
    /\ thinkers' = thinkers \ {th}
    /\ status' = IF status = "thinking" THEN "ready" ELSE status
    /\ UNCHANGED <<registryVars, queued, seat, retries, gen, thinking, answer, at, board, fired,
                   gameVars>>

----------------------------------------------------------------------------
(* The game                                                                *)

NextPosition ==
    /\ Idle("game")
    /\ seated
    /\ status # "new"
    /\ Apart({"claim", "claimed"})
    /\ "overlap" \in Conditions \/ \A th \in thinkers: th.step # "done"
    /\ pos < MaxPos
    /\ pos' = pos + 1
    /\ UNCHANGED <<seated, first>>

\* A move of the human, or the answer of the engine carried out on the board.
\* The next player is asked; the move is announced by another thread.
Move ==
    /\ NextPosition
    /\ ~news
    /\ turn = "engine" => answer = pos
    /\ turn' = IF turn = "human" THEN "engine" ELSE "human"
    /\ news' = TRUE
    /\ origin' = "move"
    /\ Go("game", "ask")
    /\ UNCHANGED <<registryVars, status, queued, seat, retries, gen, thinking, answer, thinkers,
                   board, fired>>

AnnounceMove_KeepsAnswer ==
    /\ news
    /\ news' = FALSE
    /\ answer' = answer
    /\ UNCHANGED <<registryVars, status, queued, seat, retries, gen, thinking, thinkers, at, board,
                   fired, seated, pos, turn, first, origin>>

\* on_move_made
AnnounceMove ==
    /\ news
    /\ news' = FALSE
    /\ answer' = IF thinking THEN answer ELSE 0
    /\ UNCHANGED <<registryVars, status, queued, seat, retries, gen, thinking, thinkers, at, board,
                   fired, seated, pos, turn, first, origin>>

Takeback ==
    /\ NextPosition
    /\ "requeue" \in Conditions \/ queued = 0
    /\ turn' \in {"human", "engine"}
    /\ origin' = "takeback"
    /\ Go("game", "undo")
    /\ UNCHANGED <<registryVars, status, queued, seat, retries, gen, thinking, answer, thinkers,
                   board, fired, news>>

NewGame ==
    /\ NextPosition
    /\ "requeue" \in Conditions \/ queued = 0
    /\ turn' = first
    /\ origin' = "new"
    /\ Go("game", "reset")
    /\ UNCHANGED <<registryVars, status, queued, seat, retries, gen, thinking, answer, thinkers,
                   board, fired, news>>

\* on_takeback
OnTakeback ==
    /\ at["game"] = "undo"
    /\ Apart({"claim", "claimed"})
    /\ Invalidate
    /\ status' = AfterInvalidate
    /\ Go("game", "idle")
    /\ UNCHANGED <<registryVars, queued, seat, retries, thinkers, board, fired, gameVars>>

\* on_new_game: a player in error is started again.
OnNewGame ==
    /\ at["game"] = "reset"
    /\ Apart({"claim", "claimed", "release", "stop"})
    /\ Invalidate
    /\ IF status = "error"
       THEN Start("game", "offer")
       ELSE status' = AfterInvalidate /\ Go("game", "offer")
    /\ UNCHANGED <<registryVars, queued, seat, retries, thinkers, board, fired, gameVars>>

----------------------------------------------------------------------------

\* The other users of the registry, and the engines.
Elsewhere ==
    /\ \/ \E u \in Others: Acquire(u) \/ Continue(u) \/ Release(u)
       \/ EngineStep
    /\ UNCHANGED <<playerVars, gameVars>>

LoadGoesOn(t) == Continue(t) /\ UNCHANGED <<playerVars, gameVars>>

\* No request is between the look at the state and its place in the queue.
NoneQueueing == "race" \in Conditions \/ \A p \in Threads: at[p] # "queue"

LoaderStep(t) ==
    \/ BeginLoad(t) \/ LoadGoesOn(t) \/ (EngineReady(t) /\ NoneQueueing) \/ LoadFails(t)
    \/ FirstReady(t) \/ ServeQueued(t)

Next ==
    \/ FirstStart \/ Connect \/ DetachAndRelease \/ Stopped \/ Disconnect
    \/ \E t \in Loaders: LoaderStep(t) \/ ConfigureFails(t)
    \/ \E p \in Threads: Ask(p) \/ Offer(p) \/ Queue(p) \/ Claim(p) \/ Spawn(p)
    \/ \E th \in thinkers: Commit(th) \/ AfterCommit(th)
    \/ Move \/ AnnounceMove \/ Takeback \/ NewGame \/ OnTakeback \/ OnNewGame
    \/ Elsewhere

Spec == Init /\ [][Next]_vars

\* Threads that were started go on; a launch ends, by an answer or an error.
Fairness ==
    /\ \A t \in Loaders: WF_vars(LoaderStep(t))
    /\ \A u \in Others: WF_vars(Continue(u) /\ UNCHANGED <<playerVars, gameVars>>)
    /\ \A p \in Threads: WF_vars(Ask(p) \/ Offer(p) \/ Queue(p) \/ Claim(p) \/ Spawn(p))

FairSpec == Spec /\ Fairness

----------------------------------------------------------------------------
(* Properties                                                              *)

\* Types of the player's state.
TypeOK ==
    /\ RegistryTypeOK
    /\ status \in Statuses
    /\ queued \in 0..MaxPos
    /\ seat \in Loaders \union {NoThread}
    /\ retries \in 0..MaxLoadRetries
    /\ gen \in Nat
    /\ thinking \in BOOLEAN
    /\ answer \in 0..MaxPos
    /\ thinkers \subseteq [gen: Nat, pos: 0..MaxPos, engine: Loads \union {None},
                           step: {"claimed", "compute", "done"}, by: Threads \union {NoThread}]
    /\ at \in [Threads -> Steps]
    /\ board \in [Threads -> 0..MaxPos]
    /\ fired \in BOOLEAN /\ seated \in BOOLEAN /\ news \in BOOLEAN /\ origin \in Origins
    /\ pos \in 1..MaxPos
    /\ turn \in {"human", "engine"} /\ first \in {"human", "engine"}

\* The player's reference counts in the registry for as long as it has a handle,
\* whatever loads, fails, stops or is evicted meanwhile.
SeatIsHeld == seat # NoThread => pc[seat] = "held"

\* A load thread that has ended left its reference with the player or returned
\* it: none is orphaned, which would keep the engine's process for good
\* (acquire_async: "that reference is otherwise orphaned").
NoOrphanReference ==
    \A t \in Loaders: Idle(t) /\ pc[t] = "held" => seat = t \/ at["link"] = "release"

\* The thinking flag always has a computation that will lower it: otherwise every
\* later request is taken for a duplicate (_do_request_move, _invalidate_pending).
FlagHasThinker ==
    thinking => \E th \in thinkers: th.gen = gen /\ th.step \in {"claimed", "compute"}

\* The answer shown answers the position on the board: what was computed before
\* a takeback, a new game or an app's session is not (on_takeback: "the computed
\* move is no longer valid"; stop).
NoStaleAnswer ==
    (answer # 0 /\ Idle("game") /\ Idle("link") /\ ~news) => answer = pos

Quiet ==
    /\ \A p \in Threads: Idle(p)
    /\ thinkers = {} /\ ~news
    /\ seated /\ status = "ready"

Answered == (Quiet /\ turn = "engine" /\ proc[Engine] = "up") => answer = pos

\* When it is the engine's turn, after a move or at the start of the program, it is
\* thinking or has answered, though it was still loading, had failed or was just
\* recovering when it was asked; a player that is ready and idle would leave the
\* board waiting for ever (request_move).  Unless its engine died.
AskedAfterMove == origin \in {"start", "move"} => Answered

\* The same when an app has given the seat back
\* (on_bluetooth_disconnected: "requests a move from the current player (in case an
\* engine player was just restored and it's their turn)").
AskedAfterApp == origin = "app" => Answered

\* A request made while the engine loads is served when it is ready, or the
\* player ends up in error (Player.request_move).
QueuedIsServed ==
    queued # 0 ~> (queued = 0 \/ status \in {"error", "stopped"} \/ loads = MaxLoads)

=============================================================================
