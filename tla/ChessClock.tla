------------------------------ MODULE ChessClock ------------------------------
(***************************************************************************)
(* The chess clock: its countdown threads, the service that starts and     *)
(* stops them, and the threads that call the service while the game is     *)
(* played - those that complete a move, the board's thread at a new game,  *)
(* the task worker at the end, the menus, the link to an app and the       *)
(* handler of a fallen flag.                                               *)
(*                                                                         *)
(* Time is counted in units, Period of them to a second.  A countdown      *)
(* thread polls several times in a unit: unless it is busy it sees each    *)
(* state in which time goes on.                                            *)
(***************************************************************************)
EXTENDS Integers, Sequences, FiniteSets

CONSTANTS
    MaxRuns,     \* bound: countdown threads that run at a time
    None,        \* no colour
    Period,      \* time units in a second
    Start,       \* seconds each side starts with
    Increment,   \* seconds a move gives
    Grace,       \* time units before a handed-over clock counts
    Engine,      \* the colours an engine plays
    Conditions,  \* what else may happen: the panel may be "slow" and keep a thread
                 \* busy, a suspended or app-played game may not have "begun", a
                 \* game may end or an app come while a "menu" is open or opens, an app or a
                 \* new game may come in a "hurry", before what went before has been
                 \* dealt with, a finished game may be "revived" by a takeback, two
                 \* "movers" may be at work at once, and the pieces may be "corrected"
                 \* before the game has begun
    MaxPly,      \* bound: plies of a game
    MaxEnds,     \* bound: ends of games the task worker is behind
    MaxGames,    \* bound: games
    MaxTime      \* bound: time units

ASSUME ClockNumbersAssumption ==
    /\ Period \in Nat \ {0} /\ Start \in Nat /\ Increment \in Nat /\ Grace \in Nat
    /\ MaxRuns \in Nat /\ MaxPly \in Nat /\ MaxEnds \in Nat /\ MaxGames \in Nat /\ MaxTime \in Nat

\* A countdown thread is known by the place it has while it runs.
Runs == 1..MaxRuns
NoRun == 0

Colors == {"white", "black"}
ASSUME ColorsAssumption == None \notin Colors /\ Engine \subseteq Colors

VARIABLES
    running,     \* ChessClockState._is_running
    paused,      \* _is_paused
    left,        \* _white_time, _black_time
    lastPly,     \* ChessClockService._last_ply
    goal,        \* the plies each mover credits (ply in notify_move_completed, 0 outside it)
    seen,        \* _last_ply as each mover has looked at it, 0 when it has not
    forced,      \* _forced_active_color
    forcedAt,    \* _forced_active_at
    current,     \* _countdown_thread
    event,       \* the thread _stop_event was made for
    watches,     \* the thread whose stop event each thread watches
    stops,       \* the threads whose stop event is set
    alive,       \* the threads that run
    anchor,      \* last_anchor of each thread, -1 for None
    lastActive,  \* last_active of each thread
    todo,        \* ticks a thread has still to make
    now,         \* time.monotonic()
    job,         \* what each caller of the service has still to do
    joining,     \* the thread each caller waits for
    ends,        \* ends of games the task worker has still to tell of
    started,     \* _clock_started
    held,        \* _clock_paused_for_menu
    screen,      \* what is shown: "game", "menu" or "suspended"
    session,     \* an app plays (is_remote_app_session)
    ply,         \* length of the move stack
    over,        \* is_game_over
    mated,       \* the position on the board ends the game (outcome)
    games,       \* number of new games
    ran,         \* history: time each side's clock was to run
    spent,       \* history: seconds each side was charged
    credits,     \* history: how often each ply of the game was credited
    appPlies,    \* history: plies that came from an app
    moved        \* history: a move was made in this game

flagVars == <<running, paused>>
creditVars == <<goal, seen>>
turnVars == <<forced, forcedAt>>
serviceVars == <<current, event, watches>>
loopVars == <<anchor, lastActive, todo>>
callVars == <<job, joining>>
appVars == <<ends, started, held, screen, session>>
gameVars == <<ply, over, mated, games>>
history == <<ran, spent, credits, appPlies, moved>>
vars == <<flagVars, left, lastPly, creditVars, turnVars, serviceVars, stops, alive, loopVars, now,
          callVars, appVars, gameVars, history>>

\* Who completes moves: the board's thread ("hand") and the web's.  The board's thread
\* is called "board" while it sets the clock of a new game: it does one or the other.
Movers == {"hand", "web"}
Callers == Movers \union {"worker", "board", "menu", "link", "flag"}

ToMove == IF ply % 2 = 0 THEN "white" ELSE "black"
Mover(k) == IF k % 2 = 1 THEN "white" ELSE "black"

\* active_color: the side to move, or the side the clock was handed over to.
Active ==
    IF forced = None \/ forced = ToMove
    THEN ToMove
    ELSE IF now < forcedAt THEN None ELSE forced

Counts == running /\ ~paused /\ Active # None

Init ==
    /\ running = FALSE /\ paused = FALSE
    /\ left = [c \in Colors |-> Start]
    /\ lastPly = 0
    /\ goal = [p \in Movers |-> 0] /\ seen = [p \in Movers |-> 0]
    /\ forced = None /\ forcedAt = 0
    /\ current = NoRun /\ event = NoRun
    /\ watches = [r \in Runs |-> r]
    /\ stops = {} /\ alive = {}
    /\ anchor = [r \in Runs |-> -1]
    /\ lastActive = [r \in Runs |-> None]
    /\ todo = [r \in Runs |-> 0]
    /\ now = 0
    /\ job = [p \in Callers |-> <<>>]
    /\ joining = [p \in Callers |-> NoRun]
    /\ ends = 0
    /\ started = FALSE /\ held = FALSE
    /\ screen = "game"
    /\ session = FALSE
    /\ ply = 0 /\ over = FALSE /\ mated = FALSE /\ games = 1
    /\ ran = [c \in Colors |-> 0]
    /\ spent = [c \in Colors |-> 0]
    /\ credits = [k \in 1..MaxPly |-> 0]
    /\ appPlies = {} /\ moved = FALSE

Free(p) == job[p] = <<>> /\ joining[p] = NoRun
Settled == ends = 0 /\ \A p \in Callers: Free(p)

----------------------------------------------------------------------------
(* The countdown thread (_countdown_loop)                                  *)

\* Told to end, a thread ends at its next cycle.
Exit(r) ==
    /\ r \in alive /\ todo[r] = 0
    /\ watches[r] \in stops
    /\ alive' = alive \ {r}
    /\ anchor' = [anchor EXCEPT ![r] = -1]
    /\ lastActive' = [lastActive EXCEPT ![r] = None]
    /\ UNCHANGED <<flagVars, left, lastPly, creditVars, turnVars, serviceVars, stops, todo, now,
                   callVars, appVars, gameVars, history>>

Rephased_IgnoresSwitch(r) == IF anchor[r] = -1 THEN now ELSE anchor[r]

\* A thread counts from now when another side's clock counts.
Rephased(r) == IF anchor[r] = -1 \/ lastActive[r] # Active THEN now ELSE anchor[r]

\* Whole seconds from a thread's anchor to the next instant.
Elapsed(r) == (now + 1 - Rephased(r)) \div Period

\* Time goes on.  A thread in S sees the state before and after: it forgets the
\* time while nobody's clock counts, and else has whole seconds to count.
Advance(S) ==
    /\ now < MaxTime
    /\ now' = now + 1
    /\ IF Counts
       THEN /\ anchor' = [r \in Runs |-> IF r \in S THEN Rephased(r) + Elapsed(r) * Period
                                        ELSE anchor[r]]
            /\ todo' = [r \in Runs |-> IF r \in S THEN Elapsed(r) ELSE todo[r]]
            /\ lastActive' = [r \in Runs |-> IF r \in S THEN Active ELSE lastActive[r]]
            /\ ran' = [ran EXCEPT ![Active] = @ + 1]
       ELSE /\ anchor' = [r \in Runs |-> IF r \in S THEN -1 ELSE anchor[r]]
            /\ lastActive' = [r \in Runs |-> IF r \in S THEN None ELSE lastActive[r]]
            /\ UNCHANGED <<todo, ran>>
    /\ UNCHANGED <<flagVars, left, lastPly, creditVars, turnVars, serviceVars, stops, alive,
                   callVars, appVars, gameVars, spent, credits, appPlies, moved>>

Idle == {r \in alive: todo[r] = 0 /\ watches[r] \notin stops}

Time ==
    /\ "menu" \in Conditions \/ Free("menu")
    /\ "hurry" \in Conditions \/ (Free("link") /\ Free("board"))
    /\ \E S \in SUBSET Idle: ("slow" \in Conditions \/ S = alive) /\ Advance(S)

\* tick: the side is looked up again.  A side without time has its flag fall, every
\* second anew; one handler is followed.
Tick(r) ==
    /\ r \in alive /\ todo[r] > 0
    /\ todo' = [todo EXCEPT ![r] = @ - 1]
    /\ IF Active = None
       THEN UNCHANGED <<left, job, spent>>
       ELSE /\ left' = [left EXCEPT ![Active] = IF @ = 0 THEN 0 ELSE @ - 1]
            /\ spent' = [spent EXCEPT ![Active] = @ + 1]
            /\ job' = IF left[Active] <= 1 /\ Free("flag")
                      THEN [job EXCEPT !["flag"] = <<"end", "stop">>]
                      ELSE job
    /\ UNCHANGED <<flagVars, lastPly, creditVars, turnVars, serviceVars, stops, alive, anchor,
                   lastActive, now, joining, appVars, gameVars, ran, credits, appPlies, moved>>

----------------------------------------------------------------------------
(* The service's operations; each is one step under the service's lock,    *)
(* and the wait for a thread comes after the lock was given back           *)

At(p, op) == joining[p] = NoRun /\ job[p] # <<>> /\ Head(job[p]) = op
Done(p) == job' = [job EXCEPT ![p] = Tail(@)]
ThenDo(p, ops) == job' = [job EXCEPT ![p] = ops \o Tail(@)]

\* stop: the thread is told to end, whatever the running flag says.
Stop(p) ==
    /\ At(p, "stop")
    /\ stops' = IF event = NoRun THEN stops ELSE stops \union {event}
    /\ current' = NoRun
    /\ running' = FALSE
    /\ joining' = [joining EXCEPT ![p] = current]
    /\ Done(p)
    /\ UNCHANGED <<paused, left, lastPly, creditVars, turnVars, event, watches, alive, loopVars,
                   now, appVars, gameVars, history>>

\* The wait for the thread ends with the thread, or after two seconds.
Joined(p) ==
    /\ joining[p] # NoRun
    /\ joining' = [joining EXCEPT ![p] = NoRun]
    /\ UNCHANGED <<flagVars, left, lastPly, creditVars, turnVars, serviceVars, stops, alive,
                   loopVars, now, job, appVars, gameVars, history>>

NextRun == CHOOSE r \in Runs: r \notin alive

Start_ReusesEvent(p) ==
    /\ At(p, "start")
    /\ paused' = FALSE
    /\ running' = TRUE
    /\ IF current \in alive
       THEN UNCHANGED <<serviceVars, stops, alive>>
       ELSE /\ current' = NextRun
            /\ event' = IF event = NoRun THEN NextRun ELSE event
            /\ watches' = [watches EXCEPT ![NextRun] = event']
            /\ stops' = stops \ {event'}
            /\ alive' = alive \union {NextRun}
    /\ Done(p)
    /\ UNCHANGED <<left, lastPly, creditVars, turnVars, loopVars, now, joining, appVars, gameVars,
                   history>>

\* start: nothing but the flags while a thread lives, else a thread with a stop
\* event of its own.
StartClock(p) ==
    /\ At(p, "start")
    /\ paused' = FALSE
    /\ running' = TRUE
    /\ IF current \in alive
       THEN UNCHANGED <<serviceVars, stops, alive>>
       ELSE /\ Runs \ alive # {}
            /\ stops' = (stops \union {event}) \ {NextRun, NoRun}
            /\ current' = NextRun
            /\ event' = NextRun
            /\ watches' = [watches EXCEPT ![NextRun] = NextRun]
            /\ alive' = alive \union {NextRun}
    /\ Done(p)
    /\ UNCHANGED <<left, lastPly, creditVars, turnVars, loopVars, now, joining, appVars, gameVars,
                   history>>

Pause(p) ==
    /\ At(p, "pause")
    /\ paused' = (paused \/ running)
    /\ Done(p)
    /\ UNCHANGED <<running, left, lastPly, creditVars, turnVars, serviceVars, stops, alive,
                   loopVars, now, joining, appVars, gameVars, history>>

\* resume: a clock that was stopped is started, after the lock was given back.
Resume(p) ==
    /\ At(p, "resume")
    /\ IF running
       THEN paused' = FALSE /\ Done(p)
       ELSE paused' = paused /\ ThenDo(p, <<"start">>)
    /\ UNCHANGED <<running, left, lastPly, creditVars, turnVars, serviceVars, stops, alive,
                   loopVars, now, joining, appVars, gameVars, history>>

\* configure, after its stop: the control's times, and no credit for what is on
\* the board.
Configure(p) ==
    /\ At(p, "configure")
    /\ lastPly' = ply
    /\ left' = [c \in Colors |-> Start]
    /\ paused' = FALSE
    /\ forced' = None /\ forcedAt' = 0
    /\ Done(p)
    /\ UNCHANGED <<running, creditVars, serviceVars, stops, alive, loopVars, now, joining,
                   appVars, gameVars, history>>

Reset(p) ==
    /\ At(p, "reset")
    /\ lastPly' = ply
    /\ left' = [c \in Colors |-> Start]
    /\ paused' = FALSE
    /\ Done(p)
    /\ UNCHANGED <<running, creditVars, turnVars, serviceVars, stops, alive, loopVars, now,
                   joining, appVars, gameVars, history>>

Baseline_Forgotten(p) ==
    /\ At(p, "baseline")
    /\ lastPly' = lastPly
    /\ credits' = [k \in 1..MaxPly |-> IF k <= ply THEN credits[k] ELSE 0]
    /\ appPlies' = appPlies \intersect 1..ply
    /\ Done(p)
    /\ UNCHANGED <<flagVars, left, creditVars, turnVars, serviceVars, stops, alive, loopVars, now,
                   joining, appVars, gameVars, ran, spent, moved>>

\* sync_move_counters_to_position: what is on the board is not credited; what was
\* taken back before counts as not yet played.
Baseline(p) ==
    /\ At(p, "baseline")
    /\ lastPly' = ply
    /\ credits' = [k \in 1..MaxPly |-> IF k <= ply THEN credits[k] ELSE 0]
    /\ appPlies' = appPlies \intersect 1..ply
    /\ Done(p)
    /\ UNCHANGED <<flagVars, left, creditVars, turnVars, serviceVars, stops, alive, loopVars, now,
                   joining, appVars, gameVars, ran, spent, moved>>

\* clear_forced_active_color_if_reached, with c to move
KeepForced(c) ==
    /\ forced' = IF forced = c THEN None ELSE forced
    /\ forcedAt' = IF forced = c THEN 0 ELSE forcedAt

\* _on_game_event for a turn: the first one starts the clock and each one credits what
\* was played; in an app's session it does neither.
Turn(p) ==
    /\ At(p, "turn")
    /\ started' = TRUE
    /\ ThenDo(p, IF session THEN <<>> ELSE IF started THEN <<"credit">> ELSE <<"start", "credit">>)
    /\ UNCHANGED <<flagVars, left, lastPly, creditVars, turnVars, serviceVars, stops, alive,
                   loopVars, now, joining, ends, held, screen, session, gameVars, history>>

\* notify_move_completed, without the lock: the plies to credit are counted once ...
Credit(p) ==
    /\ At(p, "credit")
    /\ goal' = [goal EXCEPT ![p] = ply]
    /\ ThenDo(p, <<"look">>)
    /\ UNCHANGED <<flagVars, left, lastPly, seen, turnVars, serviceVars, stops, alive, loopVars,
                   now, joining, appVars, gameVars, history>>

\* ... the counter is looked at ...
Look(p) ==
    /\ At(p, "look")
    /\ IF lastPly < goal[p]
       THEN /\ seen' = [seen EXCEPT ![p] = lastPly]
            /\ ThenDo(p, <<"give", "look">>)
            /\ UNCHANGED turnVars
            /\ UNCHANGED goal
       ELSE /\ KeepForced(ToMove)
            /\ goal' = [goal EXCEPT ![p] = 0]
            /\ Done(p)
            /\ UNCHANGED seen
    /\ UNCHANGED <<flagVars, left, lastPly, serviceVars, stops, alive, loopVars, now, joining,
                   appVars, gameVars, history>>

\* ... and moved on, and the mover of the ply it stood before is given the increment.
Give(p) ==
    /\ At(p, "give")
    /\ lastPly' = lastPly + 1
    /\ left' = [left EXCEPT ![Mover(seen[p] + 1)] = @ + Increment]
    /\ credits' = [credits EXCEPT ![seen[p] + 1] = @ + 1]
    /\ seen' = [seen EXCEPT ![p] = 0]
    /\ Done(p)
    /\ UNCHANGED <<flagVars, goal, turnVars, serviceVars, stops, alive, loopVars, now, joining,
                   appVars, gameVars, ran, spent, appPlies, moved>>

\* handle_flag
End(p) ==
    /\ At(p, "end")
    /\ over' = TRUE
    /\ Done(p)
    /\ UNCHANGED <<flagVars, left, lastPly, creditVars, turnVars, serviceVars, stops, alive,
                   loopVars, now, joining, appVars, ply, mated, games, history>>

\* set_remote_app_session(False): only a game that goes on has its clock resumed.
ResumeIfPlaying(p) ==
    /\ At(p, "resume if playing")
    /\ ThenDo(p, IF over THEN <<>> ELSE <<"resume">>)
    /\ UNCHANGED <<flagVars, left, lastPly, creditVars, turnVars, serviceVars, stops, alive,
                   loopVars, now, joining, appVars, gameVars, history>>

Call(p) ==
    \/ Stop(p) \/ Joined(p) \/ StartClock(p) \/ Pause(p) \/ Resume(p) \/ Configure(p) \/ Reset(p)
    \/ Baseline(p) \/ Turn(p) \/ End(p) \/ ResumeIfPlaying(p)
    \/ p \in Movers /\ (Credit(p) \/ Look(p) \/ Give(p))

----------------------------------------------------------------------------
(* The game and its callers                                                *)

\* No thread is in the middle of its ticks, unless the panel may be slow.
Prompt == "slow" \in Conditions \/ \A r \in alive: todo[r] = 0

NothingElse == UNCHANGED <<flagVars, left, lastPly, creditVars, serviceVars, stops, alive,
                           loopVars, now>>

\* The board's thread has nothing else to do; one thread at a time completes moves.
BoardIsFree == Free("board") /\ Free("hand")
OneMover == "movers" \in Conditions \/ \A p \in Movers: Free(p)

\* A move, on the board or from the web, local or an app's: the position observer ends a
\* hand-over that has been reached.  The mover's own thread tells of the turn next; only
\* the end of the game is the task worker's.
Move(p) ==
    /\ screen = "game" /\ ~over /\ ply < MaxPly
    /\ Free(p) /\ OneMover /\ Prompt
    /\ Free("board") \/ (p = "web" /\ "hurry" \in Conditions)
    /\ "hurry" \in Conditions \/ Free("link")
    /\ "menu" \in Conditions \/ Free("menu")
    /\ ply' = ply + 1
    /\ moved' = TRUE
    /\ KeepForced(Mover(ply + 2))
    /\ appPlies' = IF session /\ credits[ply + 1] = 0 THEN appPlies \union {ply + 1} ELSE appPlies
    /\ \/ /\ job' = [job EXCEPT ![p] = <<"turn">>]
          /\ UNCHANGED <<over, mated, ends>>
       \/ /\ over' = TRUE /\ mated' = TRUE
          /\ ends < MaxEnds /\ ends' = ends + 1
          /\ UNCHANGED job
    /\ NothingElse
    /\ UNCHANGED <<joining, started, held, screen, session, games, ran, spent, credits>>

\* _exit_correction_mode: the pieces are where the game has them again, and the turn is
\* told once more, whoever has ended the game and whether a move was made, unless the
\* position itself ends it.
Begun == started \/ "begun" \in Conditions
CorrectedInPlay == "corrected" \in Conditions \/ started

Correct ==
    /\ screen = "game" /\ ~mated
    /\ BoardIsFree /\ OneMover /\ CorrectedInPlay
    /\ "hurry" \in Conditions \/ Free("link")
    /\ "menu" \in Conditions \/ Free("menu")
    /\ job' = [job EXCEPT !["hand"] = <<"turn">>]
    /\ NothingElse
    /\ UNCHANGED <<turnVars, joining, appVars, gameVars, history>>

\* _pop_one_takeback: the game goes on if it had ended; no turn is told.
Takeback ==
    /\ screen = "game" /\ ply > 0
    /\ ~over \/ "revived" \in Conditions
    /\ BoardIsFree /\ Prompt
    /\ "menu" \in Conditions \/ Free("menu")
    /\ ply' = ply - 1
    /\ over' = FALSE /\ mated' = FALSE
    /\ KeepForced(Mover(ply))
    /\ NothingElse
    /\ UNCHANGED <<callVars, appVars, games, history>>

\* _begin_engine_move_clock_handoff: the engine has shown its move.
HandOver ==
    /\ screen = "game" /\ ~over /\ ~session /\ ToMove \in Engine
    /\ forced = None /\ Prompt
    /\ forced' = Mover(ply + 2)
    /\ forcedAt' = now + Grace
    /\ NothingElse
    /\ UNCHANGED <<callVars, appVars, gameVars, history>>

\* EVENT_NEW_GAME: the control is resolved again and the clock reset.
NewGame ==
    /\ games < MaxGames /\ screen = "game"
    /\ BoardIsFree /\ Prompt
    /\ "hurry" \in Conditions \/ Settled
    /\ games' = games + 1
    /\ ply' = 0
    /\ over' = FALSE /\ mated' = FALSE
    /\ KeepForced("white")
    /\ started' = FALSE
    /\ job' = [job EXCEPT !["board"] = <<"stop", "configure", "stop", "reset">>]
    /\ credits' = [k \in 1..MaxPly |-> 0]
    /\ appPlies' = {}
    /\ moved' = FALSE
    /\ NothingElse
    /\ UNCHANGED <<joining, ends, held, screen, session, ran, spent>>

Task_MateKeepsClock ==
    /\ ends > 0 /\ Free("worker")
    /\ ends' = ends - 1
    /\ over' = TRUE
    /\ NothingElse
    /\ UNCHANGED <<turnVars, callVars, started, held, screen, session, ply, mated, games,
                   history>>

\* _on_game_event for the end the task worker tells of: the clock is stopped.
Task ==
    /\ ends > 0 /\ Free("worker")
    /\ ends' = ends - 1
    /\ over' = TRUE
    /\ job' = [job EXCEPT !["worker"] = <<"stop">>]
    /\ NothingElse
    /\ UNCHANGED <<turnVars, joining, started, held, screen, session, ply, mated, games, history>>

Alone == "menu" \in Conditions \/ screen = "game"

OpenMenu_PausesFirst ==
    /\ screen = "game" /\ Free("menu") /\ ~over /\ Prompt
    /\ "menu" \in Conditions \/ (~session /\ Free("link") /\ Settled)
    /\ screen' = "menu"
    /\ held' = FALSE
    /\ job' = [job EXCEPT !["menu"] = IF running /\ ~paused THEN <<"pause">> ELSE <<>>]
    /\ NothingElse
    /\ UNCHANGED <<turnVars, joining, ends, started, session, gameVars, history>>

\* _pause_clock_for_menu: only a clock that counts is paused, and remembered.
OpenMenu ==
    /\ screen = "game" /\ Free("menu") /\ ~over /\ Prompt
    /\ "menu" \in Conditions \/ (~session /\ Free("link") /\ Settled)
    /\ screen' = "menu"
    /\ held' = (running /\ ~paused)
    /\ job' = [job EXCEPT !["menu"] = IF running /\ ~paused THEN <<"pause">> ELSE <<>>]
    /\ NothingElse
    /\ UNCHANGED <<turnVars, joining, ends, started, session, gameVars, history>>

\* _finalize_menu_selection: cancelling resumes a clock the menu has paused,
\* resigning ends the game.
CloseMenu ==
    /\ screen = "menu" /\ Free("menu")
    /\ screen' = "game"
    /\ held' = FALSE
    /\ \/ /\ over' = over
          /\ job' = [job EXCEPT !["menu"] = IF held THEN <<"resume">> ELSE <<>>]
       \/ /\ over' = TRUE
          /\ job' = [job EXCEPT !["menu"] = <<"stop">>]
    /\ NothingElse
    /\ UNCHANGED <<turnVars, joining, ends, started, session, ply, mated, games, history>>

\* _suspend_game and _resume_game_mode; a finished game is left instead.
Suspend ==
    /\ screen = "game" /\ Free("menu") /\ ~over /\ Begun /\ Prompt
    /\ "menu" \in Conditions \/ (~session /\ Free("link") /\ Settled)
    /\ screen' = "suspended"
    /\ job' = [job EXCEPT !["menu"] = <<"pause">>]
    /\ NothingElse
    /\ UNCHANGED <<turnVars, joining, ends, started, held, session, gameVars, history>>

ResumeGame ==
    /\ screen = "suspended" /\ Free("menu")
    /\ screen' = "game"
    /\ job' = [job EXCEPT !["menu"] = <<"resume">>]
    /\ NothingElse
    /\ UNCHANGED <<turnVars, joining, ends, started, held, session, gameVars, history>>

\* set_remote_app_session
AppComes ==
    /\ ~session /\ Free("link") /\ Begun /\ Alone /\ Prompt
    /\ "hurry" \in Conditions \/ Settled
    /\ session' = TRUE
    /\ job' = [job EXCEPT !["link"] = <<"pause">>]
    /\ NothingElse
    /\ UNCHANGED <<turnVars, joining, ends, started, held, screen, gameVars, history>>

AppLeaves ==
    /\ session /\ Free("link") /\ Begun /\ Alone /\ Prompt
    /\ "hurry" \in Conditions \/ Settled
    /\ session' = FALSE
    /\ job' = [job EXCEPT !["link"] = <<"baseline", "resume if playing">>]
    /\ NothingElse
    /\ UNCHANGED <<turnVars, joining, ends, started, held, screen, gameVars, history>>

Play ==
    \/ (\E p \in Movers: Move(p)) \/ Correct \/ Takeback \/ HandOver \/ NewGame \/ Task
    \/ OpenMenu \/ CloseMenu \/ Suspend \/ ResumeGame \/ AppComes \/ AppLeaves

Next ==
    \/ \E r \in Runs: Exit(r) \/ Tick(r)
    \/ Time
    \/ \E p \in Callers: Call(p)
    \/ Play

Spec == Init /\ [][Next]_vars

----------------------------------------------------------------------------
(* Properties                                                              *)

\* Types of the state.
TypeOK ==
    /\ running \in BOOLEAN /\ paused \in BOOLEAN
    /\ left \in [Colors -> Nat]
    /\ lastPly \in Nat
    /\ goal \in [Movers -> 0..MaxPly] /\ seen \in [Movers -> 0..MaxPly]
    /\ forced \in Colors \union {None} /\ forcedAt \in Nat
    /\ current \in Runs \union {NoRun} /\ event \in Runs \union {NoRun}
    /\ watches \in [Runs -> Runs]
    /\ stops \subseteq Runs /\ alive \subseteq Runs
    /\ anchor \in [Runs -> Int] /\ lastActive \in [Runs -> Colors \union {None}]
    /\ todo \in [Runs -> Nat]
    /\ now \in 0..MaxTime

\* At most one thread counts the clock down: every other one that still runs has
\* been told to end and can no longer be revived.  Two would burn two seconds for
\* each that passes (start: "letting a second thread be spawned alongside a
\* still-running one"; configure).
OneCountdown ==
    \A r \in alive: watches[r] \notin stops => r = current

\* A side is charged for no more time than its clock was to run: not for the
\* other side's thinking, a pause, the app's session or the grace of a
\* hand-over (_rephased_anchor, _countdown_loop).
OwnTime ==
    \A c \in Colors: spent[c] * Period <= ran[c]

\* A ply gives its increment once, whatever events, takebacks and new games
\* come, and an app's plies give none (notify_move_completed,
\* sync_move_counters_to_position).
CreditedOnce ==
    /\ \A k \in 1..MaxPly: credits[k] <= 1
    /\ \A k \in appPlies: credits[k] = 0
    /\ Settled /\ ~session /\ ~over /\ screen = "game" =>
        \A k \in 1..ply: k \notin appPlies => credits[k] = 1

\* The clock counts in a game that has begun and goes on, after every menu, pause
\* and session (_resume_clock_after_menu, set_remote_app_session).
PlayIsTimed ==
    Settled /\ started /\ ~over /\ ~session /\ screen = "game" => running /\ ~paused

\* Nobody's clock counts before the first move of a game, once it is over, in an app's
\* session and behind a menu (reset_clock: "The clock will not start until the first
\* move is made"; _on_game_event: "remaining time stays frozen until disconnect").
StoppedOutsidePlay ==
    Settled /\ (~moved \/ over \/ session \/ screen # "game") => ~running \/ paused

=============================================================================
