------------------------------ MODULE GameRecord ------------------------------
(***************************************************************************)
(* The game being played and its record in the database.                   *)
(*                                                                         *)
(* A move is pushed on the logical board by the thread that completes it   *)
(* (execute_complete_move) and written to the database later, by the task  *)
(* worker of GameManager (GameTaskWorker, _enqueue_post_move_tasks).  A    *)
(* takeback, a new game, a setup position and the end of a game by flag,   *)
(* resignation or agreement write to the database directly, on the thread  *)
(* that calls them, and share game_db_id with the worker without a lock.   *)
(*                                                                         *)
(* Every database helper (query to commit) is one step; between two of     *)
(* them, and between a helper and the assignment that follows it, any      *)
(* other thread may run.  A move is a serial number, given in the order    *)
(* the moves are pushed; how it ends the game is drawn when it is pushed.  *)
(***************************************************************************)
EXTENDS Integers, Sequences, FiniteSets

CONSTANTS
    Movers,     \* threads that complete moves, take them back and reset
    Ops,        \* the operations that occur
    AheadOfWorker,  \* those that may begin while the worker has tasks left
    AmidCallers,    \* those that may begin amid an operation of another thread
    OldGames,   \* games already in the database, each with one move
    Resumed,    \* the old game being resumed, 0 for a new game
    MaxMoves    \* bound: serial number of the last move pushed

ASSUME MoversAssumption == "ender" \notin Movers
ASSUME OldGamesAssumption == OldGames \in Nat
ASSUME ResumedAssumption == Resumed \in 0..OldGames
ASSUME MaxMovesAssumption == MaxMoves \in Nat

Ender == "ender"        \* the thread of handle_flag, handle_resign, handle_draw
Callers == Movers \cup {Ender}

NoGame == -1            \* game_db_id when no game is persisted
NoResult == "none"      \* a NULL result
Abandoned == "*"
Results == {NoResult, Abandoned, "mate", "ended"}

\* How a push leaves the board: play goes on, it is terminal, or a draw can
\* be claimed (threefold repetition, fifty moves).
Endings == {"no", "mate", "claim"}

VARIABLES
    stack,      \* the logical board's move stack, with each move's ending
    pushed,     \* serial number of the last move pushed
    result,     \* game_state._result
    cached,     \* cached_result
    gameId,     \* game_db_id
    games,      \* the result column of the game table
    rows,       \* the gameMove table: game and move, 0 for the initial row
    queue,      \* tasks submitted to the worker
    wpc,        \* where the worker is in its task
    task,       \* the worker's task
    newId,      \* what persist_move_and_maybe_create_game returned to it
    pc,         \* where each caller is in its operation
    mine        \* the task a mover is building

gameVars == <<stack, pushed, result>>
dbVars == <<games, rows>>
workerVars == <<wpc, task, newId>>
callerVars == <<pc, mine>>
vars == <<stack, pushed, result, cached, gameId, games, rows, queue,
          wpc, task, newId, pc, mine>>

LastSerial == OldGames + MaxMoves
Serials == 1..LastSerial
Moves == [n: Serials, end: Endings]
Tasks == [n: Serials \cup {0}, end: Endings, first: BOOLEAN]
Task(n, end, first) == [n |-> n, end |-> end, first |-> first]
NoTask == Task(0, "no", FALSE)
NoMove == [task |-> NoTask, ply |-> 0]
Rows == [game: Nat, n: Serials \cup {0}]
Locals == [task: Tasks, ply: Nat]
GameIds == 1..Len(games)

TypeOK ==
    /\ stack \in Seq(Moves)
    /\ pushed \in 0..LastSerial
    /\ result \in Results /\ cached \in Results
    /\ games \in Seq(Results)
    /\ gameId \in GameIds \cup {NoGame}
    /\ newId \in GameIds \cup {NoGame}
    /\ rows \in Seq(Rows)
    /\ queue \in Seq(Tasks)
    /\ wpc \in {"idle", "persisted", "ending", "stored"}
    /\ task \in Tasks
    /\ mine \in [Movers -> Locals]
    /\ pc \in [Callers -> {"idle", "checked", "pushed", "deleted", "cleared",
                           "abandoned", "reset", "setup", "fired", "stored"}]

-----------------------------------------------------------------------------
WorkerIdle == queue = <<>> /\ wpc = "idle"
CallersIdle == \A c \in Callers: pc[c] = "idle"
Quiescent == WorkerIdle /\ CallersIdle

\* Caller c may begin operation op.  The code makes no operation wait; one that
\* is not in AheadOfWorker (AmidCallers) comes so late in a run that the worker
\* (the other callers) have finished by then.
Begin(op, c) ==
    /\ op \in Ops
    /\ pc[c] = "idle"
    /\ op \in AheadOfWorker \/ WorkerIdle
    /\ op \in AmidCallers \/ CallersIdle

Goto(c, label) == pc' = [pc EXCEPT ![c] = label]

IsGameOver == result # NoResult

-----------------------------------------------------------------------------
\* Initial states: a new game, or an old one resumed with its moves replayed.

OldRow(i) == [game |-> (i + 1) \div 2, n |-> IF i % 2 = 1 THEN 0 ELSE i \div 2]

Init ==
    /\ stack = IF Resumed = 0 THEN <<>> ELSE <<[n |-> Resumed, end |-> "no"]>>
    /\ pushed = OldGames
    /\ result = NoResult
    /\ cached = NoResult
    /\ gameId = IF Resumed = 0 THEN NoGame ELSE Resumed
    /\ games = [g \in 1..OldGames |-> IF g = Resumed THEN NoResult ELSE "ended"]
    /\ rows = [i \in 1..(2 * OldGames) |-> OldRow(i)]
    /\ queue = <<>>
    /\ wpc = "idle" /\ task = NoTask /\ newId = NoGame
    /\ pc = [c \in Callers |-> "idle"]
    /\ mine = [c \in Movers |-> NoMove]

-----------------------------------------------------------------------------
\* execute_complete_move: the game-over guard and the read of game_db_id,
\* then the push, then (after the turn event) the submission of the task.

MoveName == IF gameId < 0 THEN "FirstMove" ELSE "Move"

MoveCheck(c) ==
    /\ Begin(MoveName, c)
    /\ ~IsGameOver
    /\ pushed + Cardinality({m \in Movers: pc[m] = "checked"}) < LastSerial
    /\ mine' = [mine EXCEPT ![c] = [task |-> Task(0, "no", gameId < 0),
                                    ply |-> Len(stack)]]
    /\ Goto(c, "checked")
    /\ UNCHANGED <<gameVars, cached, gameId, dbVars, queue, workerVars>>

\* push_move plays legal moves: the side to move must be the one that chose the
\* move, on a board that is not mate.
Legal(c) ==
    /\ (Len(stack) - mine[c].ply) % 2 = 0
    /\ stack # <<>> => stack[Len(stack)].end # "mate"

\* a move may be illegal on the board as it is by then: the attempt is aborted
MoveStale(c) ==
    /\ pc[c] = "checked"
    /\ mine' = [mine EXCEPT ![c] = NoMove]
    /\ Goto(c, "idle")
    /\ UNCHANGED <<gameVars, cached, gameId, dbVars, queue, workerVars>>

MovePush(c, end) ==
    /\ pc[c] = "checked"
    /\ Legal(c)
    /\ pushed < LastSerial
    /\ pushed' = pushed + 1
    /\ stack' = Append(stack, [n |-> pushed', end |-> end])
    /\ result' = IF end = "mate" THEN "mate" ELSE result
    /\ mine' = [mine EXCEPT ![c] = [task |-> Task(pushed', end, mine[c].task.first),
                                    ply |-> mine[c].ply]]
    /\ Goto(c, "pushed")
    /\ UNCHANGED <<cached, gameId, dbVars, queue, workerVars>>

MoveEnqueue_Front(c) ==
    /\ pc[c] = "pushed"
    /\ queue' = <<mine[c].task>> \o queue
    /\ mine' = [mine EXCEPT ![c] = NoMove]
    /\ Goto(c, "idle")
    /\ UNCHANGED <<gameVars, cached, gameId, dbVars, workerVars>>

MoveEnqueue(c) ==
    /\ pc[c] = "pushed"
    /\ queue' = Append(queue, mine[c].task)
    /\ mine' = [mine EXCEPT ![c] = NoMove]
    /\ Goto(c, "idle")
    /\ UNCHANGED <<gameVars, cached, gameId, dbVars, workerVars>>

-----------------------------------------------------------------------------
\* _pop_one_takeback: delete_last_move, clear_game_result, then pop_move.

DeleteLastMove_None == UNCHANGED rows
DeleteLastMove_Oldest == rows' = IF rows = <<>> THEN rows ELSE Tail(rows)

\* delete_last_move: the last row of the whole table
DeleteLastMove ==
    rows' = IF rows = <<>> THEN rows ELSE SubSeq(rows, 1, Len(rows) - 1)

TakebackDelete(c) ==
    /\ Begin("Takeback", c)
    /\ stack # <<>>
    /\ DeleteLastMove
    /\ Goto(c, "deleted")
    /\ UNCHANGED <<gameVars, cached, gameId, games, queue, workerVars, mine>>

\* either write may raise; the error is logged and the takeback goes on
TakebackFails(c) ==
    /\ "DbError" \in Ops
    /\ \/ Begin("Takeback", c) /\ stack # <<>>
       \/ pc[c] = "deleted"
    /\ Goto(c, "cleared")
    /\ UNCHANGED <<gameVars, cached, gameId, dbVars, queue, workerVars, mine>>

TakebackClear_Keeps(c) ==
    /\ pc[c] = "deleted"
    /\ Goto(c, "cleared")
    /\ UNCHANGED <<gameVars, cached, gameId, dbVars, queue, workerVars, mine>>

TakebackClear(c) ==
    /\ pc[c] = "deleted"
    /\ games' = IF gameId < 0 THEN games ELSE [games EXCEPT ![gameId] = NoResult]
    /\ Goto(c, "cleared")
    /\ UNCHANGED <<gameVars, cached, gameId, rows, queue, workerVars, mine>>

TakebackPop(c) ==
    /\ pc[c] = "cleared"
    /\ cached' = NoResult
    /\ IF stack = <<>>
       THEN UNCHANGED <<stack, result>>
       ELSE /\ stack' = SubSeq(stack, 1, Len(stack) - 1)
            /\ result' = NoResult
    /\ Goto(c, "idle")
    /\ UNCHANGED <<pushed, gameId, dbVars, queue, workerVars, mine>>

-----------------------------------------------------------------------------
\* _reset_game: abandon_current_game, the reset of the game state, game_db_id.

AbandonCurrent_IdOnly == gameId' = NoGame /\ UNCHANGED games

AbandonCurrent ==
    IF gameId >= 0 /\ games[gameId] = NoResult
    THEN /\ games' = [games EXCEPT ![gameId] = Abandoned]
         /\ gameId' = NoGame
    ELSE UNCHANGED <<games, gameId>>

\* the error of the write is logged, and the reset goes on
AbandonFails == "DbError" \in Ops /\ UNCHANGED <<games, gameId>>

ResetAbandon(c) ==
    /\ Begin("Reset", c)
    /\ AbandonCurrent \/ AbandonFails
    /\ Goto(c, "abandoned")
    /\ UNCHANGED <<gameVars, cached, rows, queue, workerVars, mine>>

ResetState(c) ==
    /\ pc[c] = "abandoned"
    /\ stack' = <<>> /\ result' = NoResult /\ cached' = NoResult
    /\ Goto(c, "reset")
    /\ UNCHANGED <<pushed, gameId, dbVars, queue, workerVars, mine>>

ResetId_Zero(c) ==
    /\ pc[c] \in {"reset", "setup"}
    /\ gameId' = 0
    /\ Goto(c, "idle")
    /\ UNCHANGED <<gameVars, cached, dbVars, queue, workerVars, mine>>

ResetId(c) ==
    /\ pc[c] \in {"reset", "setup"}
    /\ gameId' = NoGame
    /\ Goto(c, "idle")
    /\ UNCHANGED <<gameVars, cached, dbVars, queue, workerVars, mine>>

\* apply_setup_position: a new start position.  The running game is not closed,
\* and the cached result is kept.
Setup(c) ==
    /\ Begin("Setup", c)
    /\ stack' = <<>> /\ result' = NoResult
    /\ Goto(c, "setup")
    /\ UNCHANGED <<pushed, cached, gameId, dbVars, queue, workerVars, mine>>

-----------------------------------------------------------------------------
\* _update_game_result.  The row is written only for a persisted game, and an
\* error of the write is logged; the live result is set in any case.

StoreResult(r) ==
    \/ games' = IF gameId < 0 THEN games ELSE [games EXCEPT ![gameId] = r]
    \/ "DbError" \in Ops /\ UNCHANGED games

\* handle_flag, handle_resign, handle_draw, on a thread of their own.  None of
\* them asks whether the game is over already.
EndFire ==
    /\ Begin("End", Ender)
    /\ Goto(Ender, "fired")
    /\ UNCHANGED <<gameVars, cached, gameId, dbVars, queue, workerVars, mine>>

EndStore ==
    /\ pc[Ender] = "fired"
    /\ StoreResult("ended")
    /\ Goto(Ender, "stored")
    /\ UNCHANGED <<gameVars, cached, gameId, rows, queue, workerVars, mine>>

EndSet ==
    /\ pc[Ender] = "stored"
    /\ cached' = "ended" /\ result' = "ended"
    /\ Goto(Ender, "idle")
    /\ UNCHANGED <<stack, pushed, gameId, dbVars, queue, workerVars, mine>>

-----------------------------------------------------------------------------
\* The worker: the task of _enqueue_post_move_tasks, first in first out.

AfterPersist(t) ==
    IF t.end = "no" THEN wpc' = "idle" /\ task' = NoTask
    ELSE wpc' = "ending" /\ task' = t

PersistMove_FirstOnly(t) ==
    IF t.first
    THEN /\ games' = Append(games, NoResult)
         /\ newId' = Len(games')
         /\ rows' = rows \o <<[game |-> newId', n |-> 0],
                              [game |-> newId', n |-> t.n]>>
    ELSE newId' = gameId /\ UNCHANGED <<games, rows>>

\* persist_move_and_maybe_create_game, with game_db_id read when it is called
PersistMove(t) ==
    IF t.first
    THEN /\ games' = Append(games, NoResult)
         /\ newId' = Len(games')
         /\ rows' = rows \o <<[game |-> newId', n |-> 0],
                              [game |-> newId', n |-> t.n]>>
    ELSE /\ newId' = gameId
         /\ rows' = IF gameId < 0 THEN rows
                    ELSE Append(rows, [game |-> gameId, n |-> t.n])
         /\ UNCHANGED games

WorkerPersist ==
    /\ wpc = "idle" /\ queue # <<>>
    /\ task' = Head(queue)
    /\ queue' = Tail(queue)
    /\ PersistMove(task')
    /\ wpc' = "persisted"
    /\ UNCHANGED <<gameVars, cached, gameId, callerVars>>

\* the write raised: it is rolled back and game_db_id keeps its value
WorkerPersistFails ==
    /\ "DbError" \in Ops
    /\ wpc = "idle" /\ queue # <<>>
    /\ queue' = Tail(queue)
    /\ AfterPersist(Head(queue))
    /\ UNCHANGED <<gameVars, cached, gameId, dbVars, newId, callerVars>>

WorkerAssignId ==
    /\ wpc = "persisted"
    /\ gameId' = newId /\ newId' = NoGame
    /\ AfterPersist(task)
    /\ UNCHANGED <<gameVars, cached, dbVars, queue, callerVars>>

\* handle_game_end, with the result string execute_complete_move computed: the
\* result of the board, which is "*" when the draw would have to be claimed
EndResult(t) == IF t.end = "mate" THEN "mate" ELSE Abandoned

WorkerEndStore ==
    /\ wpc = "ending"
    /\ StoreResult(EndResult(task))
    /\ wpc' = "stored"
    /\ UNCHANGED <<gameVars, cached, gameId, rows, queue, task, newId, callerVars>>

WorkerEndSet ==
    /\ wpc = "stored"
    /\ cached' = EndResult(task) /\ result' = EndResult(task)
    /\ wpc' = "idle" /\ task' = NoTask
    /\ UNCHANGED <<stack, pushed, gameId, dbVars, queue, newId, callerVars>>

-----------------------------------------------------------------------------
Worker ==
    \/ WorkerPersist \/ WorkerPersistFails \/ WorkerAssignId
    \/ WorkerEndStore \/ WorkerEndSet

Mover(c) ==
    \/ MoveCheck(c) \/ MoveStale(c)
    \/ \E end \in Endings: MovePush(c, end)
    \/ MoveEnqueue(c)
    \/ TakebackDelete(c) \/ TakebackFails(c) \/ TakebackClear(c) \/ TakebackPop(c)
    \/ ResetAbandon(c) \/ ResetState(c) \/ ResetId(c)
    \/ Setup(c)

EndGame == EndFire \/ EndStore \/ EndSet

Next == Worker \/ EndGame \/ \E c \in Movers: Mover(c)

\* The worker's loop and the steps of an operation once begun are scheduled;
\* that anyone begins an operation is not.
Fairness ==
    /\ WF_vars(Worker)
    /\ WF_vars(EndStore \/ EndSet)
    /\ \A c \in Movers: WF_vars(/\ pc[c] # "idle" /\ Mover(c))

Spec == Init /\ [][Next]_vars
FairSpec == Spec /\ Fairness
-----------------------------------------------------------------------------
(***************************************************************************)
(* Properties                                                              *)
(***************************************************************************)
RowsOf(g) == {i \in DOMAIN rows: rows[i].game = g}

\* how many rows of its game come before row i
Place(i) == Cardinality({j \in RowsOf(rows[i].game): j < i})

\* The rows of a game are in the order its moves were played, however far the
\* worker lags: what the docstring of _enqueue_post_move_tasks calls "proper
\* ordering".  A resume replays them in this order.
RowsInPlayOrder ==
    \A i, j \in 1..Len(rows):
        i < j /\ rows[i].game = rows[j].game => rows[i].n < rows[j].n

\* When nothing is in progress, the rows of the current game are its initial
\* row and exactly the moves on the board, and a game without a row has no move:
\* neither takebacks, resets nor moves leave a hole or a stray row.
RecordIsGame ==
    Quiescent =>
        IF gameId < 0 THEN stack = <<>>
        ELSE /\ Cardinality(RowsOf(gameId)) = Len(stack) + 1
             /\ \A i \in RowsOf(gameId):
                    rows[i].n = IF Place(i) = 0 THEN 0 ELSE stack[Place(i)].n

\* The same without the order, which two movers do not keep: when nothing is in
\* progress every move on the board is stored once in its game, and no other is.
RecordHasEveryMove ==
    Quiescent /\ gameId >= 0 =>
        /\ Cardinality(RowsOf(gameId)) = Len(stack) + 1
        /\ {rows[i].n: i \in RowsOf(gameId)} = {0} \cup {stack[i].n: i \in DOMAIN stack}

\* When nothing is in progress, the result in the database is the result on the
\* board, and get_result's cache is either unset or that same result.
ResultsAgree ==
    Quiescent =>
        /\ gameId >= 0 => games[gameId] = result
        /\ cached \in {NoResult, result}

\* When nothing is in progress, every game left behind has a result: the one
\* game the incomplete-game lookup of a restart can find is the current game.
LeftGamesAreClosed ==
    Quiescent => \A g \in GameIds: games[g] = NoResult => g = gameId

\* A takeback deletes the row of the move it takes back: delete_last_move takes
\* the last row of the whole table.
TakebackErasesItsOwnMove ==
    [][Len(rows') < Len(rows) =>
        rows = Append(rows', [game |-> gameId, n |-> stack[Len(stack)].n])]_vars

\* Once a game is decided no move is played on it.  The guard that opens
\* execute_complete_move is not repeated at the push, and a flag can fall in
\* between: what its docstring promises does not hold.
Decided == {"mate", "ended"}
PlayStopsAtTheEnd == [][Len(stack') > Len(stack) => result \notin Decided]_vars

\* A decided result is only ever removed by a takeback.  Neither the handlers of
\* flag, resignation and draw nor the worker's end of a game look at what is
\* stored, and the last of them wins.
DecidedResultStands ==
    [][\A g \in GameIds: games[g] \in Decided =>
        \/ games'[g] = games[g]
        \/ \E c \in Movers: pc[c] = "deleted"]_vars

\* Every move played is eventually in the table, unless it is taken back or its
\* game is left.
MovesReachTheRecord ==
    \A n \in Serials:
        (\E i \in DOMAIN stack: stack[i].n = n)
            ~> (\/ \E i \in DOMAIN rows: rows[i].n = n
                \/ \A i \in DOMAIN stack: stack[i].n # n)
=============================================================================
