-------------------------- MODULE GameHistory_proofs --------------------------
(***************************************************************************)
(* What the operations on a game leave behind, proved of GameRecord: the   *)
(* rows of the game, the games before it, and its result.  The hypotheses  *)
(* are the schedules on which the code keeps these promises: threads that  *)
(* take turns (but for the last theorem, where they need not), a worker    *)
(* that has caught up when the record is cut or left, and writes that do   *)
(* not fail.                                                               *)
(***************************************************************************)
EXTENDS GameRecord_proofs, FiniteSetTheorems

-----------------------------------------------------------------------------
(***************************************************************************)
(* The record of the game.  The table ends with the rows of the current    *)
(* game: its initial row and the first moves of the board; the queue holds *)
(* the moves that follow, and the mover the last one while it is pushed    *)
(* and not submitted.  This needs movers that take turns, a worker idle    *)
(* when a game gets its first move, is taken back or reset, and no game    *)
(* behind the current one in the table.                                    *)
(***************************************************************************)
CurrentGame == IF wpc = "persisted" THEN newId ELSE gameId

TakingBack(m) == pc[m] \in {"deleted", "cleared"}
Resetting(m) == pc[m] \in {"abandoned", "reset"}
Moving(m) == pc[m] \in {"checked", "pushed"}

\* How many moves of the board remain, are not stored yet, and are stored.
Remaining(m) == IF TakingBack(m) THEN Len(stack) - 1 ELSE Len(stack)
Unsaved(m) == IF pc[m] = "pushed" THEN Len(queue) + 1 ELSE Len(queue)
Saved(m) == Remaining(m) - Unsaved(m)

\* The table ends with game g: its initial row and the first k moves of st.
EndsWith(table, st, g, k) ==
    /\ k \in 0..Len(st) /\ Len(table) > k
    /\ table[Len(table) - k] = [game |-> g, n |-> 0]
    /\ \A i \in 1..k: table[Len(table) - k + i] = [game |-> g, n |-> st[i].n]
    /\ \A i \in 1..(Len(table) - k - 1): table[i].game < g

TableHolds(m) ==
    ~Resetting(m) =>
        /\ CurrentGame < 0 => Saved(m) = 0
        /\ CurrentGame >= 0 => EndsWith(rows, stack, CurrentGame, Saved(m))
        /\ \A k \in 1..Len(queue): queue[k].n = stack[Saved(m) + k].n
        /\ pc[m] = "pushed" => stack # <<>> /\ mine[m].task.n = stack[Len(stack)].n

FirstMoves(m) ==
    /\ \A k \in 1..Len(queue): queue[k].first <=> CurrentGame < 0
    /\ Moving(m) => (mine[m].task.first <=> CurrentGame < 0)
    /\ CurrentGame < 0 => Len(queue) <= 1 /\ (Moving(m) => queue = <<>>)

OneAtATime(m) ==
    /\ TakingBack(m) \/ Resetting(m) => WorkerIdle
    /\ TakingBack(m) => stack # <<>>
    /\ pc[m] = "reset" => stack = <<>>
    /\ pc[m] # "setup"
    /\ wpc = "persisted" => newId >= 0

OthersClosed(m) ==
    \A g \in GameIds: games[g] = NoResult => g = CurrentGame /\ ~Resetting(m)

RowsKnown == \A i \in 1..Len(rows): rows[i].game <= Len(games)

Kept(m) ==
    /\ TableHolds(m) /\ FirstMoves(m) /\ OneAtATime(m) /\ OthersClosed(m) /\ RowsKnown

\* Several threads move, each when the others are done: one of them at most is at work.
InTurns ==
    /\ Movers # {}
    /\ \/ \E m: Movers = {m}
       \/ AmidCallers \cap {"FirstMove", "Move", "Takeback", "Reset", "Setup"} = {}

OnTurn(m) == \A c \in Movers: c # m => pc[c] = "idle"
\* A step of m, or of no thread that moves.
StepOf(m) == Mover(m) \/ Worker \/ EndGame \/ UNCHANGED vars
RecordKept == \E m \in Movers: OnTurn(m) /\ Kept(m)

-----------------------------------------------------------------------------
(* The end of the table                                                    *)

\* The next move is stored.
LEMMA EndsWithMore ==
    ASSUME NEW table \in Seq(Rows), NEW st \in Seq(Moves), NEW g \in Nat, NEW k \in Nat,
           EndsWith(table, st, g, k), k < Len(st), NEW row \in Rows,
           row = [game |-> g, n |-> st[k + 1].n]
    PROVE  EndsWith(Append(table, row), st, g, k + 1)
<1> DEFINE more == Append(table, row)
<1>1. /\ Len(more) = Len(table) + 1 /\ Len(table) \in Nat /\ Len(st) \in Nat
      /\ \A i \in 1..Len(table): more[i] = table[i]
      /\ more[Len(table) + 1] = row
  OBVIOUS
<1> HIDE DEF more
<1>2. k + 1 \in 0..Len(st) /\ Len(more) > k + 1 /\ Len(more) - (k + 1) = Len(table) - k
  BY <1>1 DEF EndsWith
<1>3. Len(table) - k \in 1..Len(table)
  BY <1>1 DEF EndsWith
<1>4. more[Len(more) - (k + 1)] = [game |-> g, n |-> 0]
  BY <1>1, <1>2, <1>3 DEF EndsWith
<1>5. ASSUME NEW i \in 1..(k + 1)
      PROVE  more[Len(more) - (k + 1) + i] = [game |-> g, n |-> st[i].n]
  <2>1. CASE i = k + 1
    <3>1. Len(more) - (k + 1) + i = Len(table) + 1
      BY <1>1, <2>1
    <3> QED
      BY <1>1, <2>1, <3>1
  <2>2. CASE i \in 1..k
    <3>1. Len(table) - k + i \in 1..Len(table)
      BY <1>1, <1>3, <2>2
    <3> QED
      BY <1>1, <1>2, <2>2, <3>1 DEF EndsWith
  <2> QED
    BY <2>1, <2>2
<1>6. ASSUME NEW i \in 1..(Len(more) - (k + 1) - 1) PROVE more[i].game < g
  <2>1. i \in 1..Len(table) /\ i \in 1..(Len(table) - k - 1)
    BY <1>1, <1>2
  <2> QED
    BY <1>1, <2>1 DEF EndsWith
<1>7. EndsWith(more, st, g, k + 1)
  BY <1>2, <1>4, <1>5, <1>6 DEF EndsWith
<1> QED
  BY <1>7 DEF more

\* A new game is stored with its first move.
LEMMA EndsWithNew ==
    ASSUME NEW table \in Seq(Rows), NEW st \in Seq(Moves), NEW g \in Nat, Len(st) >= 1,
           \A i \in 1..Len(table): table[i].game < g,
           NEW a \in Rows, NEW b \in Rows,
           a = [game |-> g, n |-> 0], b = [game |-> g, n |-> st[1].n]
    PROVE  EndsWith(table \o <<a, b>>, st, g, 1)
<1> DEFINE more == table \o <<a, b>>
<1>1. /\ Len(more) = Len(table) + 2 /\ Len(table) \in Nat /\ Len(st) \in Nat
      /\ \A i \in 1..Len(table): more[i] = table[i]
      /\ more[Len(table) + 1] = a /\ more[Len(table) + 2] = b
  OBVIOUS
<1> HIDE DEF more
<1>2. Len(more) - 1 = Len(table) + 1 /\ Len(more) - 1 + 1 = Len(table) + 2
  BY <1>1
<1>3. \A i \in 1..(Len(more) - 1 - 1): more[i].game < g
  BY <1>1
<1>4. \A i \in 1..1: more[Len(more) - 1 + i] = [game |-> g, n |-> st[i].n]
  BY <1>1, <1>2
<1>5. more[Len(more) - 1] = [game |-> g, n |-> 0]
  BY <1>1, <1>2
<1>6. EndsWith(more, st, g, 1)
  BY <1>1, <1>3, <1>4, <1>5 DEF EndsWith
<1> QED
  BY <1>6 DEF more

\* The last row is deleted: it was the last stored move.
LEMMA EndsWithLess ==
    ASSUME NEW table \in Seq(Rows), NEW st \in Seq(Moves), NEW g \in Nat, NEW k \in Nat \ {0},
           EndsWith(table, st, g, k),
           NEW less \in Seq(Rows), Len(less) = Len(table) - 1,
           \A i \in 1..(Len(table) - 1): less[i] = table[i]
    PROVE  /\ EndsWith(less, st, g, k - 1)
           /\ table[Len(table)] = [game |-> g, n |-> st[k].n]
<1>1. /\ Len(table) \in Nat /\ Len(st) \in Nat /\ Len(table) > k /\ k \in 1..Len(st)
      /\ k - 1 \in 0..Len(st)
  BY DEF EndsWith
<1>2. Len(less) > k - 1 /\ Len(less) - (k - 1) = Len(table) - k
      /\ Len(table) - k \in 1..(Len(table) - 1)
  BY <1>1
<1>3. less[Len(less) - (k - 1)] = [game |-> g, n |-> 0]
  BY <1>2 DEF EndsWith
<1>4. ASSUME NEW i \in 1..(k - 1)
      PROVE  less[Len(less) - (k - 1) + i] = [game |-> g, n |-> st[i].n]
  <2>1. Len(table) - k + i \in 1..(Len(table) - 1) /\ i \in 1..k
    BY <1>1, <1>2
  <2> QED
    BY <1>2, <2>1 DEF EndsWith
<1>5. ASSUME NEW i \in 1..(Len(less) - (k - 1) - 1) PROVE less[i].game < g
  <2>1. i \in 1..(Len(table) - 1) /\ i \in 1..(Len(table) - k - 1)
    BY <1>1, <1>2
  <2> QED
    BY <2>1 DEF EndsWith
<1>6. table[Len(table)] = [game |-> g, n |-> st[k].n]
  <2>1. k \in 1..k /\ Len(table) - k + k = Len(table)
    BY <1>1
  <2> QED
    BY <2>1 DEF EndsWith
<1> QED
  BY <1>1, <1>2, <1>3, <1>4, <1>5, <1>6 DEF EndsWith

\* Another board with the same first moves.
LEMMA EndsWithOther ==
    ASSUME NEW table \in Seq(Rows), NEW st, NEW g \in Nat, NEW k \in Nat,
           EndsWith(table, st, g, k),
           NEW other, k \in 0..Len(other), \A i \in 1..k: other[i] = st[i]
    PROVE  EndsWith(table, other, g, k)
BY DEF EndsWith

-----------------------------------------------------------------------------
(* The steps                                                               *)

\* The types the steps need of the mover's and the worker's state.
LEMMA KeptTypes ==
    ASSUME TypeOK, NEW m \in Movers
    PROVE  /\ stack \in Seq(Moves) /\ rows \in Seq(Rows) /\ games \in Seq(Results)
           /\ queue \in Seq(Tasks)
           /\ Len(stack) \in Nat /\ Len(rows) \in Nat /\ Len(games) \in Nat /\ Len(queue) \in Nat
           /\ gameId \in Int /\ newId \in Int /\ CurrentGame \in Int /\ NoGame = -1
           /\ CurrentGame >= 0 => CurrentGame \in GameIds /\ CurrentGame \in Nat
           /\ gameId >= 0 => gameId \in GameIds /\ gameId \in Nat
           /\ m \in Callers /\ Ender \in Callers /\ m # Ender
           /\ Saved(m) \in Int /\ Remaining(m) \in Int /\ Unsaved(m) \in Int
<1>1. /\ stack \in Seq(Moves) /\ rows \in Seq(Rows) /\ games \in Seq(Results)
      /\ queue \in Seq(Tasks)
      /\ Len(stack) \in Nat /\ Len(rows) \in Nat /\ Len(games) \in Nat /\ Len(queue) \in Nat
  BY DEF TypeOK
<1>2. gameId \in 1..Len(games) \cup {-1} /\ newId \in 1..Len(games) \cup {-1}
  BY DEF TypeOK, GameIds, NoGame
<1> QED
  BY <1>1, <1>2, MoversAssumption
  DEF CurrentGame, NoGame, GameIds, Callers, Ender, Saved, Remaining, Unsaved

\* A step that leaves the board, the rows and the mover alone, and opens no game.
LEMMA KeptUntouched ==
    ASSUME TypeOK, NEW m \in Movers, Kept(m),
           UNCHANGED <<stack, rows, queue>>, pc'[m] = pc[m], mine'[m] = mine[m],
           CurrentGame' = CurrentGame,
           WorkerIdle => WorkerIdle', wpc' = "persisted" => newId' >= 0,
           Len(games') = Len(games),
           \A g \in GameIds: games'[g] = NoResult => games[g] = NoResult
    PROVE  Kept(m)'
<1> USE DEF TakingBack, Resetting, Moving
<1>1. Saved(m)' = Saved(m)
  BY DEF Saved, Remaining, Unsaved
<1>2. TableHolds(m)'
  BY <1>1 DEF Kept, TableHolds
<1>3. FirstMoves(m)'
  BY DEF Kept, FirstMoves
<1>4. OneAtATime(m)'
  BY DEF Kept, OneAtATime
<1>5. OthersClosed(m)'
  BY DEF Kept, OthersClosed, GameIds
<1>6. RowsKnown'
  BY DEF Kept, RowsKnown
<1> QED
  BY <1>2, <1>3, <1>4, <1>5, <1>6 DEF Kept

\* A result written closes the current game, and no other one is written.
LEMMA ResultCloses ==
    ASSUME TypeOK, NEW r \in Results \ {NoResult}, "DbError" \notin Ops, StoreResult(r)
    PROVE  /\ Len(games') = Len(games)
           /\ \A g \in GameIds: games'[g] = NoResult => games[g] = NoResult
<1>1. games \in Seq(Results) /\ gameId \in 1..Len(games) \cup {-1}
  BY DEF TypeOK, GameIds, NoGame
<1>2. CASE games' = games
  BY <1>1, <1>2
<1>3. CASE gameId >= 0 /\ games' = [games EXCEPT ![gameId] = r]
  <2>1. gameId \in 1..Len(games)
    BY <1>1, <1>3
  <2>2. Len(games') = Len(games)
    BY <1>1, <1>3, <2>1, SetResult
  <2>3. \A g \in 1..Len(games): games'[g] = IF g = gameId THEN r ELSE games[g]
    BY <1>1, <1>3, <2>1
  <2> QED
    BY <2>2, <2>3 DEF GameIds
<1> QED
  BY <1>1, <1>2, <1>3 DEF StoreResult

\* The worker after the write, and the thread that ends games, leave it as it is.
LEMMA KeptByEndings ==
    ASSUME TypeOK, NEW m \in Movers, Kept(m), "DbError" \notin Ops,
           \/ WorkerAssignId \/ WorkerEndStore \/ WorkerEndSet
           \/ EndFire \/ EndStore \/ EndSet \/ UNCHANGED vars
    PROVE  Kept(m)'
<1> USE DEF Goto, gameVars, dbVars, workerVars, callerVars
<1>0. m \in Callers /\ Ender \in Callers /\ m # Ender
  BY KeptTypes
<1>1. CASE WorkerAssignId
  <2>1. UNCHANGED <<stack, rows, queue, pc, mine, games>> /\ wpc = "persisted"
        /\ gameId' = newId /\ wpc' \in {"idle", "ending"}
    BY <1>1 DEF WorkerAssignId, AfterPersist
  <2>2. CurrentGame' = CurrentGame
    BY <2>1 DEF CurrentGame
  <2> QED
    BY <2>1, <2>2, KeptUntouched DEF WorkerIdle
<1>2. CASE WorkerEndStore
  <2>1. UNCHANGED <<stack, rows, queue, pc, mine, gameId, newId>>
        /\ wpc = "ending" /\ wpc' = "stored"
    BY <1>2 DEF WorkerEndStore
  <2>2. CurrentGame' = CurrentGame
    BY <2>1 DEF CurrentGame
  <2>3. EndResult(task) \in Results \ {NoResult}
    BY DEF EndResult, Results, Abandoned, NoResult
  <2>4. /\ Len(games') = Len(games)
        /\ \A g \in GameIds: games'[g] = NoResult => games[g] = NoResult
    BY <1>2, <2>3, ResultCloses DEF WorkerEndStore
  <2> QED
    BY <2>1, <2>2, <2>4, KeptUntouched DEF WorkerIdle
<1>3. CASE WorkerEndSet
  <2>1. UNCHANGED <<stack, rows, queue, pc, mine, gameId, newId, games>>
        /\ wpc = "stored" /\ wpc' = "idle"
    BY <1>3 DEF WorkerEndSet
  <2> QED
    BY <2>1, KeptUntouched DEF WorkerIdle, CurrentGame
<1>4. CASE EndFire \/ EndSet
  <2>1. UNCHANGED <<stack, rows, queue, mine, gameId, newId, games, wpc>> /\ pc'[m] = pc[m]
    BY <1>0, <1>4 DEF EndFire, EndSet, Begin, TypeOK
  <2> QED
    BY <2>1, KeptUntouched DEF WorkerIdle, CurrentGame, Kept, OneAtATime
<1>5. CASE EndStore
  <2>1. UNCHANGED <<stack, rows, queue, mine, gameId, newId, wpc>> /\ pc'[m] = pc[m]
    BY <1>0, <1>5 DEF EndStore, TypeOK
  <2>2. "ended" \in Results \ {NoResult}
    BY DEF Results, NoResult
  <2>3. /\ Len(games') = Len(games)
        /\ \A g \in GameIds: games'[g] = NoResult => games[g] = NoResult
    BY <1>5, <2>2, ResultCloses DEF EndStore
  <2> QED
    BY <2>1, <2>3, KeptUntouched DEF WorkerIdle, CurrentGame, Kept, OneAtATime
<1>6. CASE UNCHANGED vars
  BY <1>6, KeptUntouched DEF vars, WorkerIdle, CurrentGame, Kept, OneAtATime
<1> QED
  BY <1>1, <1>2, <1>3, <1>4, <1>5, <1>6

\* The worker stores the oldest move: the first one of a game together with the
\* game and its initial row, a later one behind those of its game.
LEMMA KeptByPersist ==
    ASSUME TypeOK, TypeOK', NEW m \in Movers, Kept(m), WorkerPersist
    PROVE  Kept(m)'
<1>t. PICK t: t = Head(queue)
  OBVIOUS
<1>k. PICK k: k = Saved(m)
  OBVIOUS
<1>1. /\ wpc = "idle" /\ queue # <<>> /\ queue' = Tail(queue) /\ wpc' = "persisted"
      /\ UNCHANGED <<stack, gameId, pc, mine>>
  BY DEF WorkerPersist, gameVars, callerVars
<1>2. ~TakingBack(m) /\ ~Resetting(m) /\ CurrentGame = gameId /\ CurrentGame' = newId'
  BY <1>1 DEF Kept, OneAtATime, WorkerIdle, CurrentGame
<1>3. /\ t \in Tasks /\ Len(queue') = Len(queue) - 1 /\ Len(queue) >= 1
      /\ t = queue[1] /\ 1 \in 1..Len(queue)
      /\ \A j \in 1..Len(queue'): queue'[j] = queue[j + 1] /\ j + 1 \in 1..Len(queue)
  BY <1>t, <1>1, KeptTypes
<1>4. k = Len(stack) - Unsaved(m) /\ Saved(m)' = k + 1 /\ k + 1 <= Len(stack) /\ k \in Int
  <2>1. Unsaved(m)' = Unsaved(m) - 1 /\ Unsaved(m) >= 1 /\ Unsaved(m) \in Int
    BY <1>1, <1>3, KeptTypes DEF Unsaved
  <2>2. Remaining(m) = Len(stack) /\ Remaining(m)' = Len(stack)
    BY <1>1, <1>2 DEF Remaining, TakingBack
  <2> QED
    BY <1>k, <2>1, <2>2, KeptTypes DEF Saved
<1>5. t.n = stack[k + 1].n
  BY <1>k, <1>2, <1>3 DEF Kept, TableHolds
<1>6. (t.first <=> gameId < 0) /\ t.first \in BOOLEAN
  BY <1>2, <1>3, TaskFields DEF Kept, FirstMoves
<1>7. newId' >= 0 /\ EndsWith(rows', stack, newId', k + 1) /\ RowsKnown' /\ OthersClosed(m)'
  <2>0. \A i \in 1..Len(rows): rows[i].game \in Nat
    BY RowsAndTasks
  <2>1. CASE gameId < 0
    <3>1. /\ games' = Append(games, NoResult) /\ newId' = Len(games')
          /\ rows' = rows \o <<[game |-> newId', n |-> 0], [game |-> newId', n |-> t.n]>>
      BY <1>t, <1>6, <2>1 DEF WorkerPersist, PersistMove
    <3>2. Len(games') = Len(games) + 1 /\ newId' \in Nat /\ newId' = Len(games) + 1
          /\ \A g \in 1..Len(games): games'[g] = games[g]
      BY <3>1, KeptTypes
    <3>3. k = 0
      BY <1>k, <1>2, <2>1 DEF Kept, TableHolds
    <3>4. \A i \in 1..Len(rows): rows[i].game < newId'
      BY <2>0, <3>2, KeptTypes DEF Kept, RowsKnown
    <3>5. t.n \in Serials \cup {0}
      BY <1>3, TaskFields
    <3>6. [game |-> newId', n |-> 0] \in Rows /\ [game |-> newId', n |-> t.n] \in Rows
      BY <3>2, <3>5, Members
    <3>7. EndsWith(rows', stack, newId', 1)
      <4>1. t.n = stack[1].n /\ Len(stack) >= 1
        BY <1>4, <1>5, <3>3
      <4>2. stack \in Seq(Moves) /\ rows \in Seq(Rows)
        BY KeptTypes
      <4> QED
        BY <3>1, <3>2, <3>4, <3>6, <4>1, <4>2, EndsWithNew
    <3>8. RowsKnown'
      <4>1. /\ Len(rows') = Len(rows) + 2
            /\ \A i \in 1..Len(rows): rows'[i] = rows[i]
            /\ rows'[Len(rows) + 1].game = newId' /\ rows'[Len(rows) + 2].game = newId'
        <5>1. \A a, b \in Rows: LET more == rows \o <<a, b>> IN
                 /\ Len(more) = Len(rows) + 2
                 /\ \A i \in 1..Len(rows): more[i] = rows[i]
                 /\ more[Len(rows) + 1] = a /\ more[Len(rows) + 2] = b
          BY KeptTypes
        <5> QED
          BY <3>1, <3>6, <5>1
      <4>2. \A i \in 1..Len(rows'): i \in 1..Len(rows) \/ i = Len(rows) + 1 \/ i = Len(rows) + 2
        <5>1. Len(rows') = Len(rows) + 2 /\ Len(rows) \in Nat
          BY <4>1, KeptTypes
        <5> QED
          BY <5>1
      <4> QED
        BY <3>2, <3>4, <4>1, <4>2, <2>0 DEF RowsKnown
    <3>9. OthersClosed(m)'
      <4>1. \A g \in 1..Len(games): games[g] # NoResult
        BY <1>2, <2>1 DEF Kept, OthersClosed, GameIds
      <4>2. \A g \in 1..Len(games'): g \in 1..Len(games) \/ g = newId'
        BY <3>2, KeptTypes
      <4> QED
        BY <1>1, <1>2, <3>2, <4>1, <4>2 DEF OthersClosed, GameIds, Resetting
    <3> QED
      BY <3>2, <3>3, <3>7, <3>8, <3>9
  <2>2. CASE gameId >= 0
    <3>1. newId' = gameId /\ games' = games
          /\ rows' = Append(rows, [game |-> gameId, n |-> t.n])
      BY <1>t, <1>6, <2>2, KeptTypes DEF WorkerPersist, PersistMove
    <3>2. EndsWith(rows, stack, gameId, k) /\ gameId \in Nat /\ gameId <= Len(games)
      BY <1>k, <1>2, <2>2, KeptTypes DEF Kept, TableHolds, GameIds
    <3>3. k \in Nat /\ k < Len(stack)
      BY <1>4, <3>2, KeptTypes DEF EndsWith
    <3>4. [game |-> gameId, n |-> t.n] \in Rows
      BY <1>3, <3>2, TaskFields, Members
    <3>5. EndsWith(rows', stack, gameId, k + 1)
      BY <1>5, <3>1, <3>2, <3>3, <3>4, EndsWithMore, KeptTypes
    <3>6. RowsKnown'
      <4>1. /\ Len(rows') = Len(rows) + 1
            /\ \A i \in 1..Len(rows): rows'[i] = rows[i]
            /\ rows'[Len(rows) + 1].game = gameId
        BY <3>1, KeptTypes
      <4>2. \A i \in 1..Len(rows'): i \in 1..Len(rows) \/ i = Len(rows) + 1
        BY <4>1, KeptTypes
      <4> QED
        BY <3>1, <3>2, <4>1, <4>2 DEF RowsKnown, Kept
    <3>7. OthersClosed(m)'
      BY <1>1, <1>2, <3>1 DEF Kept, OthersClosed, GameIds, Resetting
    <3> QED
      BY <3>1, <3>2, <3>5, <3>6, <3>7
  <2> QED
    BY <2>1, <2>2, KeptTypes
<1>8. TableHolds(m)'
  <2>1. \A j \in 1..Len(queue'): queue'[j].n = stack[(k + 1) + j].n
    <3>1. ASSUME NEW j \in 1..Len(queue') PROVE queue'[j].n = stack[(k + 1) + j].n
      <4>1. queue'[j] = queue[j + 1] /\ j + 1 \in 1..Len(queue) /\ k + (j + 1) = (k + 1) + j
        BY <1>3, <1>4
      <4> QED
        BY <1>k, <1>2, <4>1 DEF Kept, TableHolds
    <3> QED
      BY <3>1
  <2>2. pc'[m] = "pushed" => stack # <<>> /\ mine'[m].task.n = stack[Len(stack)].n
    BY <1>1, <1>2 DEF Kept, TableHolds
  <2> QED
    <3>1. newId' \in Int
      BY DEF TypeOK, GameIds, NoGame
    <3> QED
      BY <1>1, <1>2, <1>4, <1>7, <2>1, <2>2, <3>1 DEF TableHolds
<1>9. FirstMoves(m)'
  <2>1. gameId < 0 => queue' = <<>> /\ ~Moving(m)
    BY <1>1, <1>2, <1>3, KeptTypes DEF Kept, FirstMoves
  <2>2. \A j \in 1..Len(queue'): gameId >= 0 /\ ~queue'[j].first
    <3>1. ASSUME NEW j \in 1..Len(queue') PROVE gameId >= 0 /\ ~queue'[j].first
      <4>1. gameId >= 0
        BY <2>1, <1>3, KeptTypes
      <4>2. queue'[j].first <=> gameId < 0
        BY <1>2, <1>3 DEF Kept, FirstMoves
      <4> QED
        BY <4>1, <4>2, KeptTypes
    <3> QED
      BY <3>1
  <2>3. Moving(m)' => ~mine'[m].task.first
    BY <1>1, <1>2, <2>1, KeptTypes DEF Kept, FirstMoves, Moving
  <2>4. ~(newId' < 0)
    <3>1. newId' \in Int
      BY DEF TypeOK, GameIds, NoGame
    <3> QED
      BY <1>7, <3>1
  <2> QED
    BY <1>2, <1>7, <2>2, <2>3, <2>4 DEF FirstMoves
<1>10. OneAtATime(m)'
  BY <1>1, <1>2, <1>7 DEF Kept, OneAtATime, TakingBack, Resetting
<1> QED
  BY <1>7, <1>8, <1>9, <1>10 DEF Kept

\* What the steps of a takeback and of a reset find: nothing is queued, the
\* worker is idle, and the mover holds no task.
LEMMA KeptAtRest ==
    ASSUME TypeOK, NEW m \in Movers, Kept(m), WorkerIdle
    PROVE  /\ queue = <<>> /\ Len(queue) = 0 /\ wpc = "idle" /\ CurrentGame = gameId
           /\ pc[m] = "idle" => Saved(m) = Len(stack)
           /\ pc[m] \in {"deleted", "cleared"} => Saved(m) = Len(stack) - 1
<1>1. queue = <<>> /\ Len(queue) = 0 /\ wpc = "idle" /\ CurrentGame = gameId
  BY DEF WorkerIdle, CurrentGame
<1>2. Len(stack) \in Nat
  BY KeptTypes
<1>3. CASE pc[m] = "idle"
  BY <1>1, <1>2, <1>3 DEF Saved, Remaining, Unsaved, TakingBack
<1>4. CASE pc[m] \in {"deleted", "cleared"}
  BY <1>1, <1>2, <1>4 DEF Saved, Remaining, Unsaved, TakingBack
<1> QED
  BY <1>1, <1>3, <1>4

\* A move begins: its task is the first of a game exactly when there is none.
LEMMA KeptByCheck ==
    ASSUME TypeOK, NEW m \in Movers, Kept(m), MoveCheck(m), "FirstMove" \notin AheadOfWorker
    PROVE  Kept(m)'
<1> USE DEF TakingBack, Resetting, Moving
<1>1. /\ pc[m] = "idle" /\ pc'[m] = "checked"
      /\ UNCHANGED <<stack, gameId, games, rows, queue, wpc, newId>>
      /\ mine'[m].task.first = (gameId < 0)
      /\ gameId < 0 => WorkerIdle
  <2>1. mine'[m] = [task |-> Task(0, "no", gameId < 0), ply |-> Len(stack)]
    BY DEF MoveCheck, TypeOK
  <2>2. gameId < 0 => WorkerIdle
    BY DEF MoveCheck, Begin, MoveName
  <2>3. pc'[m] = "checked"
    BY KeptTypes DEF MoveCheck, Goto, TypeOK
  <2> QED
    BY <2>1, <2>2, <2>3 DEF MoveCheck, Begin, Task, gameVars, dbVars, workerVars
<1>2. Saved(m)' = Saved(m) /\ CurrentGame' = CurrentGame
  BY <1>1 DEF Saved, Remaining, Unsaved, CurrentGame
<1>3. gameId < 0 <=> CurrentGame < 0
  <2>1. gameId < 0 => CurrentGame < 0
    BY <1>1 DEF CurrentGame, WorkerIdle
  <2>2. wpc = "persisted" => CurrentGame >= 0
    BY DEF CurrentGame, Kept, OneAtATime
  <2>3. wpc # "persisted" => CurrentGame = gameId
    BY DEF CurrentGame
  <2> QED
    BY <2>1, <2>2, <2>3, KeptTypes
<1>4. TableHolds(m)'
  BY <1>1, <1>2 DEF Kept, TableHolds
<1>5. FirstMoves(m)'
  <2>1. gameId < 0 => queue = <<>>
    BY <1>1 DEF WorkerIdle
  <2> QED
    BY <1>1, <1>2, <1>3, <2>1 DEF Kept, FirstMoves
<1>6. OneAtATime(m)' /\ OthersClosed(m)' /\ RowsKnown'
  BY <1>1, <1>2 DEF Kept, OneAtATime, OthersClosed, RowsKnown, GameIds
<1> QED
  BY <1>4, <1>5, <1>6 DEF Kept

\* An attempt on another position is given up.
LEMMA KeptByStale ==
    ASSUME TypeOK, NEW m \in Movers, Kept(m), MoveStale(m)
    PROVE  Kept(m)'
<1> USE DEF TakingBack, Resetting, Moving
<1>1. /\ pc[m] = "checked" /\ pc'[m] = "idle"
      /\ UNCHANGED <<stack, gameId, games, rows, queue, wpc, newId>>
  BY KeptTypes DEF MoveStale, Goto, TypeOK, gameVars, dbVars, workerVars
<1>2. Saved(m)' = Saved(m) /\ CurrentGame' = CurrentGame
  BY <1>1 DEF Saved, Remaining, Unsaved, CurrentGame
<1> QED
  BY <1>1, <1>2
  DEF Kept, TableHolds, FirstMoves, OneAtATime, OthersClosed, RowsKnown, GameIds

\* What a push does to the moves of the board.
LEMMA OneMore ==
    ASSUME NEW S, NEW s \in Seq(S), NEW k, NEW e, [n |-> k, end |-> e] \in S,
           NEW t, t = Append(s, [n |-> k, end |-> e])
    PROVE  /\ Len(t) = Len(s) + 1 /\ t[Len(t)].n = k /\ t # <<>>
           /\ \A i \in 1..Len(s): t[i] = s[i]
<1>1. PICK r: r = [n |-> k, end |-> e]
  OBVIOUS
<1>2. r \in S /\ t = Append(s, r) /\ r.n = k
  BY <1>1
<1>3. Len(t) = Len(s) + 1 /\ t[Len(s) + 1] = r /\ \A i \in 1..Len(s): t[i] = s[i]
  BY <1>2, AppendProperties
<1> QED
  BY <1>2, <1>3, LenProperties

\* The move is pushed: one more on the board, and one more not stored.
LEMMA KeptByPush ==
    ASSUME TypeOK, TypeOK', NEW m \in Movers, Kept(m), NEW end \in Endings, MovePush(m, end)
    PROVE  Kept(m)'
<1> USE DEF TakingBack, Resetting, Moving
<1>k. PICK k: k = Saved(m)
  OBVIOUS
<1>1. /\ pc[m] = "checked" /\ pc'[m] = "pushed" /\ pushed' = pushed + 1
      /\ stack' = Append(stack, [n |-> pushed', end |-> end])
      /\ UNCHANGED <<gameId, games, rows, queue, wpc, newId>>
  BY KeptTypes DEF MovePush, Goto, TypeOK, dbVars, workerVars
<1>2. /\ mine'[m].task.n = pushed' /\ mine'[m].task.first = mine[m].task.first
  <2>1. mine'[m] = [task |-> Task(pushed', end, mine[m].task.first), ply |-> mine[m].ply]
    BY DEF MovePush, TypeOK
  <2> QED
    BY <2>1 DEF Task
<1>3. /\ Len(stack') = Len(stack) + 1 /\ stack'[Len(stack')].n = pushed' /\ stack' # <<>>
      /\ \A i \in 1..Len(stack): stack'[i] = stack[i]
  <2>1. stack \in Seq(Moves) /\ [n |-> pushed', end |-> end] \in Moves
    <3>1. pushed \in Nat /\ pushed < LastSerial /\ LastSerial \in Nat
      BY SerialNumbers DEF MovePush, TypeOK
    <3>2. pushed' \in Serials
      BY <1>1, <3>1 DEF Serials
    <3> QED
      BY <3>2, Members, KeptTypes
  <2> QED
    BY <1>1, <2>1, OneMore
<1>4. Saved(m)' = k /\ CurrentGame' = CurrentGame /\ k = Len(stack) - Len(queue)
  BY <1>k, <1>1, <1>3, KeptTypes DEF Saved, Remaining, Unsaved, CurrentGame
<1>5. TableHolds(m)'
  <2>1. CurrentGame < 0 => k = 0
    BY <1>k, <1>1 DEF Kept, TableHolds
  <2>2. CurrentGame >= 0 => EndsWith(rows, stack', CurrentGame, k)
    <3> SUFFICES ASSUME CurrentGame >= 0 PROVE EndsWith(rows, stack', CurrentGame, k)
      OBVIOUS
    <3>1. EndsWith(rows, stack, CurrentGame, k) /\ CurrentGame \in Nat
      BY <1>k, <1>1, KeptTypes DEF Kept, TableHolds
    <3>2. k \in 0..Len(stack) /\ Len(stack) \in Nat /\ Len(stack') = Len(stack) + 1
      BY <1>3, <3>1, KeptTypes DEF EndsWith
    <3>3. k \in Nat /\ k \in 0..Len(stack') /\ \A i \in 1..k: i \in 1..Len(stack)
      BY <3>2
    <3>4. \A i \in 1..k: stack'[i] = stack[i]
      BY <1>3, <3>3
    <3> QED
      BY <3>1, <3>3, <3>4, KeptTypes, EndsWithOther
  <2>3. \A j \in 1..Len(queue): queue[j].n = stack'[k + j].n
    <3>1. k \in Nat
      BY <1>k, <2>1, <1>1, KeptTypes DEF Kept, TableHolds, EndsWith
    <3>2. \A j \in 1..Len(queue): k + j \in 1..Len(stack)
      BY <1>4, <3>1, KeptTypes
    <3> QED
      BY <1>k, <1>1, <1>3, <3>2 DEF Kept, TableHolds
  <2> QED
    BY <1>1, <1>2, <1>3, <1>4, <2>1, <2>2, <2>3 DEF TableHolds
<1>6. FirstMoves(m)'
  BY <1>1, <1>2, <1>4 DEF Kept, FirstMoves
<1>7. OneAtATime(m)' /\ OthersClosed(m)' /\ RowsKnown'
  BY <1>1, <1>4 DEF Kept, OneAtATime, OthersClosed, RowsKnown, GameIds
<1> QED
  BY <1>5, <1>6, <1>7 DEF Kept

\* Its task is submitted behind the others.
LEMMA KeptByEnqueue ==
    ASSUME TypeOK, NEW m \in Movers, Kept(m), MoveEnqueue(m)
    PROVE  Kept(m)'
<1> USE DEF TakingBack, Resetting, Moving
<1>k. PICK k: k = Saved(m)
  OBVIOUS
<1>t. PICK t: t = mine[m].task
  OBVIOUS
<1>1. /\ pc[m] = "pushed" /\ pc'[m] = "idle" /\ queue' = Append(queue, t)
      /\ UNCHANGED <<stack, gameId, games, rows, wpc, newId>>
  BY <1>t, KeptTypes DEF MoveEnqueue, Goto, TypeOK, gameVars, dbVars, workerVars
<1>2. t \in Tasks
  BY <1>t DEF TypeOK, Locals
<1>3. /\ Len(queue') = Len(queue) + 1 /\ queue'[Len(queue) + 1] = t
      /\ \A j \in 1..Len(queue): queue'[j] = queue[j]
      /\ \A j \in 1..Len(queue'): j \in 1..Len(queue) \/ j = Len(queue) + 1
  <2>1. /\ Len(queue') = Len(queue) + 1 /\ queue'[Len(queue) + 1] = t
        /\ \A j \in 1..Len(queue): queue'[j] = queue[j]
    BY <1>1, <1>2, KeptTypes
  <2>2. Len(queue) \in Nat
    BY KeptTypes
  <2> QED
    BY <2>1, <2>2
<1>4. Saved(m)' = k /\ CurrentGame' = CurrentGame /\ k + (Len(queue) + 1) = Len(stack)
  BY <1>k, <1>1, <1>3, KeptTypes DEF Saved, Remaining, Unsaved, CurrentGame
<1>5. TableHolds(m)'
  <2>1. \A j \in 1..Len(queue): queue[j].n = stack[k + j].n
    BY <1>k, <1>1 DEF Kept, TableHolds
  <2>2. t.n = stack[k + (Len(queue) + 1)].n
    BY <1>t, <1>1, <1>4 DEF Kept, TableHolds
  <2>3. \A j \in 1..Len(queue'): queue'[j].n = stack[k + j].n
    BY <1>3, <2>1, <2>2
  <2> QED
    BY <1>k, <1>1, <1>4, <2>3 DEF Kept, TableHolds
<1>6. FirstMoves(m)'
  <2>1. \A j \in 1..Len(queue'): queue'[j].first <=> CurrentGame < 0
    BY <1>t, <1>1, <1>3 DEF Kept, FirstMoves
  <2>2. CurrentGame < 0 => Len(queue') <= 1
    BY <1>1, <1>3 DEF Kept, FirstMoves
  <2> QED
    BY <1>1, <1>4, <2>1, <2>2 DEF FirstMoves
<1>7. OneAtATime(m)' /\ OthersClosed(m)' /\ RowsKnown'
  BY <1>1, <1>4 DEF Kept, OneAtATime, OthersClosed, RowsKnown, GameIds
<1> QED
  BY <1>5, <1>6, <1>7 DEF Kept

\* A takeback deletes the last row: the last move of the board is stored there.
LEMMA TakebackDeletes ==
    ASSUME TypeOK, NEW m \in Movers, Kept(m), TakebackDelete(m), "Takeback" \notin AheadOfWorker
    PROVE  /\ WorkerIdle /\ CurrentGame \in Nat /\ CurrentGame = gameId
           /\ Len(stack) >= 1 /\ Len(rows) >= 1 /\ Len(rows') = Len(rows) - 1
           /\ rows' \in Seq(Rows)
           /\ \A i \in 1..(Len(rows) - 1): rows'[i] = rows[i]
           /\ EndsWith(rows', stack, CurrentGame, Len(stack) - 1)
           /\ rows[Len(rows)] = [game |-> gameId, n |-> stack[Len(stack)].n]
<1>1. pc[m] = "idle" /\ WorkerIdle /\ stack # <<>> /\ DeleteLastMove
  BY DEF TakebackDelete, Begin
<1>2. Len(stack) >= 1 /\ Len(stack) \in Nat \ {0}
  BY <1>1, KeptTypes
<1>3. Saved(m) = Len(stack) /\ CurrentGame = gameId /\ ~Resetting(m)
  BY <1>1, KeptAtRest DEF Resetting
<1>4. CurrentGame >= 0 /\ EndsWith(rows, stack, CurrentGame, Len(stack))
  BY <1>2, <1>3, KeptTypes DEF Kept, TableHolds
<1>5. Len(rows) >= 1 /\ rows # <<>>
  BY <1>2, <1>4, KeptTypes DEF EndsWith
<1>6. rows' = SubSeq(rows, 1, Len(rows) - 1)
  BY <1>1, <1>5 DEF DeleteLastMove
<1>7. /\ rows' \in Seq(Rows) /\ Len(rows') = Len(rows) - 1
      /\ \A i \in 1..(Len(rows) - 1): rows'[i] = rows[i]
  BY <1>5, <1>6, DropLast, KeptTypes
<1>8. /\ EndsWith(rows', stack, CurrentGame, Len(stack) - 1)
      /\ rows[Len(rows)] = [game |-> CurrentGame, n |-> stack[Len(stack)].n]
  BY <1>2, <1>4, <1>7, EndsWithLess, KeptTypes
<1> QED
  BY <1>1, <1>2, <1>3, <1>4, <1>5, <1>7, <1>8, KeptTypes

LEMMA KeptByTakeback ==
    ASSUME TypeOK, NEW m \in Movers, Kept(m), "Takeback" \notin AheadOfWorker,
           TakebackDelete(m) \/ TakebackClear(m) \/ TakebackPop(m)
    PROVE  Kept(m)'
<1> USE DEF TakingBack, Resetting, Moving, Goto, gameVars, dbVars, workerVars
<1>1. CASE TakebackDelete(m)
  <2>1. /\ pc[m] = "idle" /\ pc'[m] = "deleted"
        /\ UNCHANGED <<stack, gameId, games, queue, wpc, newId>>
    BY <1>1, KeptTypes DEF TakebackDelete, Begin, TypeOK
  <2>2. /\ WorkerIdle /\ CurrentGame \in Nat /\ Len(stack) >= 1
        /\ EndsWith(rows', stack, CurrentGame, Len(stack) - 1)
        /\ Len(rows') = Len(rows) - 1 /\ Len(rows) \in Nat
        /\ \A i \in 1..(Len(rows) - 1): rows'[i] = rows[i]
    BY <1>1, TakebackDeletes, KeptTypes
  <2>3. CurrentGame' = CurrentGame /\ queue = <<>> /\ WorkerIdle'
    BY <2>1, <2>2 DEF CurrentGame, WorkerIdle
  <2>4. Saved(m)' = Len(stack) - 1
    BY <2>1, <2>3, KeptTypes DEF Saved, Remaining, Unsaved
  <2>5. TableHolds(m)'
    BY <2>1, <2>2, <2>3, <2>4, KeptTypes DEF TableHolds
  <2>6. RowsKnown'
    BY <2>1, <2>2 DEF Kept, RowsKnown
  <2>7. FirstMoves(m)' /\ OneAtATime(m)' /\ OthersClosed(m)'
    BY <2>1, <2>2, <2>3, KeptTypes DEF Kept, FirstMoves, OneAtATime, OthersClosed, GameIds
  <2> QED
    BY <2>5, <2>6, <2>7 DEF Kept
<1>2. CASE TakebackClear(m)
  <2>1. /\ pc[m] = "deleted" /\ pc'[m] = "cleared"
        /\ UNCHANGED <<stack, gameId, rows, queue, wpc, newId>>
        /\ games' = IF gameId < 0 THEN games ELSE [games EXCEPT ![gameId] = NoResult]
    BY <1>2, KeptTypes DEF TakebackClear, TypeOK
  <2>2. WorkerIdle /\ WorkerIdle' /\ CurrentGame = gameId /\ CurrentGame' = gameId
    BY <2>1 DEF Kept, OneAtATime, WorkerIdle, CurrentGame
  <2>3. Saved(m)' = Saved(m)
    BY <2>1 DEF Saved, Remaining, Unsaved
  <2>4. Len(games') = Len(games)
        /\ \A g \in 1..Len(games): games'[g] = games[g] \/ g = gameId
    <3>1. CASE gameId < 0
      BY <2>1, <3>1
    <3>2. CASE ~(gameId < 0)
      <4>1. gameId \in 1..Len(games) /\ games' = [games EXCEPT ![gameId] = NoResult]
        BY <2>1, <3>2, KeptTypes DEF GameIds
      <4> QED
        BY <4>1, KeptTypes, SetResult, Members
    <3> QED
      BY <3>1, <3>2
  <2>5. TableHolds(m)' /\ FirstMoves(m)' /\ OneAtATime(m)'
    BY <2>1, <2>2, <2>3 DEF Kept, TableHolds, FirstMoves, OneAtATime
  <2>6. OthersClosed(m)' /\ RowsKnown'
    BY <2>1, <2>2, <2>4 DEF Kept, OthersClosed, RowsKnown, GameIds
  <2> QED
    BY <2>5, <2>6 DEF Kept
<1>3. CASE TakebackPop(m)
  <2>1. /\ pc[m] = "cleared" /\ pc'[m] = "idle" /\ stack # <<>>
        /\ UNCHANGED <<gameId, games, rows, queue, wpc, newId>>
        /\ stack' = SubSeq(stack, 1, Len(stack) - 1)
    BY <1>3, KeptTypes DEF TakebackPop, TypeOK, Kept, OneAtATime
  <2>2. WorkerIdle /\ WorkerIdle' /\ CurrentGame = gameId /\ CurrentGame' = gameId
    BY <2>1 DEF Kept, OneAtATime, WorkerIdle, CurrentGame
  <2>3. Len(stack') = Len(stack) - 1 /\ \A i \in 1..(Len(stack) - 1): stack'[i] = stack[i]
    BY <2>1, DropLast, KeptTypes
  <2>4. queue = <<>> /\ Len(queue) = 0 /\ Saved(m) = Len(stack) - 1
    BY <2>1, <2>2, KeptAtRest
  <2>5. Saved(m)' = Len(stack) - 1
    BY <2>1, <2>3, <2>4, KeptTypes DEF Saved, Remaining, Unsaved
  <2>6. TableHolds(m)'
    <3>1. gameId < 0 => Len(stack) - 1 = 0
      BY <2>1, <2>2, <2>4 DEF Kept, TableHolds
    <3>2. gameId >= 0 => EndsWith(rows, stack', gameId, Len(stack) - 1)
      <4> SUFFICES ASSUME gameId >= 0 PROVE EndsWith(rows, stack', gameId, Len(stack) - 1)
        OBVIOUS
      <4>1. EndsWith(rows, stack, gameId, Len(stack) - 1)
        BY <2>1, <2>2, <2>4 DEF Kept, TableHolds
      <4>2. Len(stack) - 1 \in Nat /\ Len(stack) - 1 \in 0..Len(stack')
        BY <2>3, <4>1, KeptTypes DEF EndsWith
      <4> QED
        BY <2>3, <4>1, <4>2, EndsWithOther, KeptTypes
    <3> QED
      BY <2>1, <2>2, <2>4, <2>5, <3>1, <3>2 DEF TableHolds
  <2>7. FirstMoves(m)' /\ OneAtATime(m)' /\ OthersClosed(m)' /\ RowsKnown'
    BY <2>1, <2>2, <2>4
    DEF Kept, FirstMoves, OneAtATime, OthersClosed, RowsKnown, GameIds
  <2> QED
    BY <2>6, <2>7 DEF Kept
<1> QED
  BY <1>1, <1>2, <1>3

\* A reset closes the current game before it is left.
LEMMA KeptByReset ==
    ASSUME TypeOK, NEW m \in Movers, Kept(m), "Reset" \notin AheadOfWorker, "DbError" \notin Ops,
           ResetAbandon(m) \/ ResetState(m) \/ ResetId(m)
    PROVE  Kept(m)'
<1> USE DEF TakingBack, Resetting, Moving, Goto, gameVars, dbVars, workerVars
<1>1. CASE ResetAbandon(m)
  <2>1. /\ pc[m] = "idle" /\ pc'[m] = "abandoned" /\ WorkerIdle
        /\ UNCHANGED <<stack, rows, queue, wpc, newId>>
    BY <1>1, KeptTypes DEF ResetAbandon, Begin, TypeOK
  <2>2. queue = <<>> /\ Len(queue) = 0 /\ CurrentGame = gameId /\ WorkerIdle'
    BY <2>1, KeptAtRest DEF WorkerIdle
  <2>3. Len(games') = Len(games) /\ \A g \in 1..Len(games): games'[g] # NoResult
    <3>1. \A g \in 1..Len(games): games[g] = NoResult => g = gameId
      BY <2>2 DEF Kept, OthersClosed, GameIds
    <3>2. CASE gameId >= 0 /\ games[gameId] = NoResult
      <4>1. games' = [games EXCEPT ![gameId] = Abandoned] /\ gameId \in 1..Len(games)
        BY <1>1, <3>2, KeptTypes DEF ResetAbandon, AbandonCurrent, AbandonFails, GameIds
      <4>2. Len(games') = Len(games)
        BY <4>1, SetResult, Members, KeptTypes
      <4>3. Abandoned # NoResult
        BY DEF Abandoned, NoResult
      <4>4. \A g \in 1..Len(games): games'[g] = IF g = gameId THEN Abandoned ELSE games[g]
        BY <4>1, KeptTypes
      <4> QED
        BY <3>1, <4>2, <4>3, <4>4
    <3>3. CASE ~(gameId >= 0 /\ games[gameId] = NoResult)
      <4>1. games' = games
        BY <1>1, <3>3 DEF ResetAbandon, AbandonCurrent, AbandonFails
      <4>2. \A g \in 1..Len(games): g >= 0
        BY KeptTypes
      <4> QED
        BY <3>1, <3>3, <4>1, <4>2
    <3> QED
      BY <3>2, <3>3
  <2>4. TableHolds(m)' /\ FirstMoves(m)' /\ OneAtATime(m)'
    BY <2>1, <2>2 DEF Kept, TableHolds, FirstMoves, OneAtATime, WorkerIdle
  <2>5. OthersClosed(m)' /\ RowsKnown'
    BY <2>1, <2>3 DEF Kept, OthersClosed, RowsKnown, GameIds
  <2> QED
    BY <2>4, <2>5 DEF Kept
<1>2. CASE ResetState(m)
  <2>1. /\ pc[m] = "abandoned" /\ pc'[m] = "reset" /\ stack' = <<>>
        /\ UNCHANGED <<gameId, games, rows, queue, wpc, newId>>
    BY <1>2, KeptTypes DEF ResetState, TypeOK
  <2>2. WorkerIdle /\ WorkerIdle'
    BY <2>1 DEF Kept, OneAtATime, WorkerIdle
  <2> QED
    BY <2>1, <2>2, KeptAtRest
    DEF Kept, TableHolds, FirstMoves, OneAtATime, OthersClosed, RowsKnown, GameIds, WorkerIdle
<1>3. CASE ResetId(m)
  <2>1. /\ pc[m] = "reset" /\ pc'[m] = "idle" /\ gameId' = NoGame
        /\ UNCHANGED <<stack, games, rows, queue, wpc, newId>>
    BY <1>3, KeptTypes DEF ResetId, TypeOK, Kept, OneAtATime
  <2>2. WorkerIdle /\ stack = <<>> /\ queue = <<>> /\ wpc = "idle"
    BY <2>1 DEF Kept, OneAtATime, WorkerIdle
  <2>3. CurrentGame' = -1 /\ Saved(m)' = 0
    BY <2>1, <2>2 DEF CurrentGame, NoGame, Saved, Remaining, Unsaved
  <2>4. \A g \in GameIds: games[g] # NoResult
    BY <2>1 DEF Kept, OthersClosed
  <2> QED
    BY <2>1, <2>2, <2>3, <2>4
    DEF Kept, TableHolds, FirstMoves, OneAtATime, OthersClosed, RowsKnown, GameIds
<1> QED
  BY <1>1, <1>2, <1>3

LEMMA KeptByMover ==
    ASSUME TypeOK, TypeOK', NEW m \in Movers, Kept(m), Mover(m), "Setup" \notin Ops,
           "DbError" \notin Ops, AheadOfWorker \cap {"FirstMove", "Takeback", "Reset"} = {}
    PROVE  Kept(m)'
<1>1. /\ "FirstMove" \notin AheadOfWorker /\ "Takeback" \notin AheadOfWorker
      /\ "Reset" \notin AheadOfWorker
  OBVIOUS
<1>2. CASE MoveCheck(m)
  BY <1>1, <1>2, KeptByCheck
<1>3. CASE MoveStale(m)
  BY <1>3, KeptByStale
<1>4. CASE \E end \in Endings: MovePush(m, end)
  BY <1>4, KeptByPush
<1>5. CASE MoveEnqueue(m)
  BY <1>5, KeptByEnqueue
<1>6. CASE TakebackDelete(m) \/ TakebackClear(m) \/ TakebackPop(m)
  BY <1>1, <1>6, KeptByTakeback
<1>7. CASE ResetAbandon(m) \/ ResetState(m) \/ ResetId(m)
  BY <1>1, <1>7, KeptByReset
<1>8. ~Setup(m) /\ ~TakebackFails(m)
  BY DEF Setup, Begin, TakebackFails
<1> QED
  BY <1>2, <1>3, <1>4, <1>5, <1>6, <1>7, <1>8 DEF Mover

\* The table at the start: the rows of the old games in pairs, those of the
\* resumed game, when there is one, last.
LEMMA KeptInit ==
    ASSUME Init, NEW m \in Movers, Resumed \in {0, OldGames}
    PROVE  Kept(m)
<1> USE DEF TakingBack, Resetting, Moving
<1>1. /\ queue = <<>> /\ Len(queue) = 0 /\ wpc = "idle" /\ pc[m] = "idle" /\ WorkerIdle
      /\ Len(games) = OldGames /\ Len(rows) = 2 * OldGames /\ OldGames \in Nat
      /\ \A i \in 1..(2 * OldGames): rows[i] = OldRow(i)
      /\ \A g \in 1..OldGames: games[g] = IF g = Resumed THEN NoResult ELSE "ended"
  BY OldGamesAssumption DEF Init, WorkerIdle, Callers
<1>2. CurrentGame = gameId
  BY <1>1 DEF CurrentGame
<1>3. \A i \in 1..(2 * OldGames): rows[i].game = (i + 1) \div 2
  BY <1>1 DEF OldRow
<1>4. RowsKnown
  BY <1>1, <1>3 DEF RowsKnown
<1>5. CASE Resumed = 0
  <2>1. gameId = -1 /\ stack = <<>> /\ Len(stack) = 0
    BY <1>5 DEF Init, NoGame
  <2>2. Saved(m) = 0
    BY <1>1, <2>1 DEF Saved, Remaining, Unsaved
  <2>3. \A g \in 1..OldGames: games[g] # NoResult
    BY <1>1, <1>5 DEF NoResult
  <2> QED
    BY <1>1, <1>2, <1>4, <2>1, <2>2, <2>3
    DEF Kept, TableHolds, FirstMoves, OneAtATime, OthersClosed, GameIds
<1>6. CASE Resumed = OldGames /\ Resumed # 0
  <2>1. /\ gameId = OldGames /\ OldGames >= 1 /\ stack = <<[n |-> OldGames, end |-> "no"]>>
        /\ Len(stack) = 1 /\ stack[1].n = OldGames
    BY <1>1, <1>6 DEF Init
  <2>2. Saved(m) = 1
    BY <1>1, <2>1 DEF Saved, Remaining, Unsaved
  <2>3. EndsWith(rows, stack, OldGames, 1)
    <3>1. (2 * OldGames - 1) % 2 = 1 /\ (2 * OldGames - 1 + 1) \div 2 = OldGames
          /\ (2 * OldGames) % 2 = 0 /\ (2 * OldGames + 1) \div 2 = OldGames
          /\ (2 * OldGames) \div 2 = OldGames
      BY <1>1, <2>1
    <3>2. OldRow(2 * OldGames - 1) = [game |-> OldGames, n |-> 0]
      BY <3>1 DEF OldRow
    <3>3. OldRow(2 * OldGames) = [game |-> OldGames, n |-> OldGames]
      BY <3>1 DEF OldRow
    <3>4. 2 * OldGames - 1 \in 1..(2 * OldGames) /\ 2 * OldGames \in 1..(2 * OldGames)
      BY <1>1, <2>1
    <3>5. rows[2 * OldGames - 1] = [game |-> OldGames, n |-> 0]
          /\ rows[2 * OldGames] = [game |-> OldGames, n |-> OldGames]
      BY <1>1, <3>2, <3>3, <3>4
    <3>6. \A i \in 1..(2 * OldGames - 1 - 1): rows[i].game < OldGames
      <4>1. \A i \in 1..(2 * OldGames - 1 - 1):
                i \in 1..(2 * OldGames) /\ (i + 1) \div 2 < OldGames
        BY <1>1
      <4> QED
        BY <1>3, <4>1
    <3>7. \A i \in 1..1: rows[2 * OldGames - 1 + i] = [game |-> OldGames, n |-> stack[i].n]
      <4>1. 2 * OldGames - 1 + 1 = 2 * OldGames
        BY <1>1
      <4> QED
        BY <2>1, <3>5, <4>1
    <3> QED
      BY <1>1, <2>1, <3>5, <3>6, <3>7 DEF EndsWith
  <2>4. \A g \in 1..OldGames: games[g] = NoResult => g = gameId
    BY <1>1, <1>6, <2>1 DEF NoResult
  <2> QED
    BY <1>1, <1>2, <1>4, <2>1, <2>2, <2>3, <2>4
    DEF Kept, TableHolds, FirstMoves, OneAtATime, OthersClosed, GameIds
<1> QED
  BY <1>5, <1>6

\* A thread at rest and another know the same of the record.
LEMMA KeptPassesOn ==
    ASSUME NEW m \in Movers, NEW c \in Movers, pc[m] = "idle", pc[c] = "idle", Kept(m)
    PROVE  Kept(c)
<1> USE DEF TakingBack, Resetting, Moving
<1>1. Saved(c) = Saved(m)
  BY DEF Saved, Remaining, Unsaved
<1>2. TableHolds(c) /\ FirstMoves(c) /\ OneAtATime(c) /\ OthersClosed(c)
  BY <1>1 DEF Kept, TableHolds, FirstMoves, OneAtATime, OthersClosed
<1> QED
  BY <1>2 DEF Kept

\* Another thread than the one on turn begins when that one is at rest.
LEMMA TurnPasses ==
    ASSUME TypeOK, InTurns, NEW m \in Movers, OnTurn(m), NEW c \in Movers, c # m, Mover(c)
    PROVE  pc[m] = "idle" /\ pc[c] = "idle" /\ OnTurn(c)
<1>1. pc[c] = "idle"
  BY DEF OnTurn
<1>2. \E op \in {"FirstMove", "Move", "Takeback", "Reset", "Setup"}: Begin(op, c)
  <2>1. \/ MoveCheck(c) \/ TakebackDelete(c) \/ ResetAbandon(c) \/ Setup(c)
        \/ TakebackFails(c) /\ Begin("Takeback", c)
    BY <1>1
    DEF TakebackFails, Mover, MoveStale, MovePush, MoveEnqueue, TakebackClear, TakebackPop, ResetState, ResetId
  <2> QED
    BY <2>1 DEF MoveCheck, TakebackDelete, ResetAbandon, Setup, MoveName
<1>3. ~ \E d: Movers = {d}
  OBVIOUS
<1>4. CallersIdle
  BY <1>2, <1>3 DEF InTurns, Begin
<1> QED
  BY <1>1, <1>4 DEF CallersIdle, Callers, OnTurn

\* The thread that moves is on turn and knows of the record.
LEMMA MoverIsOnTurn ==
    ASSUME TypeOK, InTurns, RecordKept, NEW c \in Movers, Mover(c)
    PROVE  OnTurn(c) /\ Kept(c)
<1>1. PICK m \in Movers: OnTurn(m) /\ Kept(m)
  BY DEF RecordKept
<1> QED
  BY <1>1, TurnPasses, KeptPassesOn

\* The turn stays with the thread that moves; the worker and the end of the game
\* leave it alone.
LEMMA TurnStays ==
    ASSUME TypeOK, NEW m \in Movers, OnTurn(m), StepOf(m)
    PROVE  OnTurn(m)'
<1>0. PICK labels: pc \in [Callers -> labels] /\ \A c \in Movers: c \in Callers /\ c # Ender
  BY MoversAssumption DEF TypeOK, Callers, Ender
<1>1. \A c \in Movers: c # m => pc'[c] = pc[c]
  <2>1. CASE Worker \/ UNCHANGED vars
    BY <2>1 DEF Worker, WorkerPersist, WorkerPersistFails, WorkerAssignId, WorkerEndStore,
                WorkerEndSet, vars, callerVars
  <2>2. CASE EndGame
    BY <1>0, <2>2 DEF EndGame, EndFire, EndStore, EndSet, Goto
  <2>3. CASE Mover(m)
    BY <1>0, <2>3
    DEF Mover, MoveCheck, MoveStale, MovePush, MoveEnqueue, TakebackDelete, TakebackFails,
        TakebackClear, TakebackPop, ResetAbandon, ResetState, ResetId, Setup, Goto
  <2> QED
    BY <2>1, <2>2, <2>3 DEF StepOf
<1> QED
  BY <1>1 DEF OnTurn

LEMMA KeptByStep ==
    ASSUME TypeOK, TypeOK', NEW m \in Movers, Kept(m), StepOf(m),
           "Setup" \notin Ops, "DbError" \notin Ops,
           AheadOfWorker \cap {"FirstMove", "Takeback", "Reset"} = {}
    PROVE  Kept(m)'
<1>1. CASE WorkerPersist
  BY <1>1, KeptByPersist
<1>2. CASE Mover(m)
  BY <1>2, KeptByMover
<1>3. CASE \/ WorkerAssignId \/ WorkerEndStore \/ WorkerEndSet
           \/ EndFire \/ EndStore \/ EndSet \/ UNCHANGED vars
  BY <1>3, KeptByEndings
<1>4. ~WorkerPersistFails
  BY DEF WorkerPersistFails
<1> QED
  BY <1>1, <1>2, <1>3, <1>4 DEF StepOf, Worker, EndGame

\* The table ends with the current game in every reachable state.
LEMMA RecordIsKept ==
    ASSUME InTurns, Ops \cap {"Setup", "DbError"} = {},
           AheadOfWorker \cap {"FirstMove", "Takeback", "Reset"} = {},
           Resumed \in {0, OldGames}
    PROVE  Spec => [](TypeOK /\ RecordKept)
<1>0. "Setup" \notin Ops /\ "DbError" \notin Ops
  OBVIOUS
<1>1. Init => RecordKept
  <2> SUFFICES ASSUME Init PROVE RecordKept
    OBVIOUS
  <2>1. PICK m \in Movers: TRUE
    BY DEF InTurns
  <2>2. OnTurn(m)
    BY DEF Init, Callers, OnTurn
  <2> QED
    BY <2>1, <2>2, KeptInit DEF RecordKept
<1>2. TypeOK /\ TypeOK' /\ RecordKept /\ [Next]_vars => RecordKept'
  <2> SUFFICES ASSUME TypeOK, TypeOK', RecordKept, [Next]_vars PROVE RecordKept'
    OBVIOUS
  <2>1. PICK m \in Movers: OnTurn(m) /\ Kept(m) /\ StepOf(m)
    <3>1. CASE \E c \in Movers: Mover(c)
      <4>1. PICK c \in Movers: Mover(c)
        BY <3>1
      <4>2. OnTurn(c) /\ Kept(c)
        BY <4>1, MoverIsOnTurn
      <4> QED
        BY <4>1, <4>2 DEF StepOf
    <3>2. CASE ~ \E c \in Movers: Mover(c)
      BY <3>2 DEF RecordKept, StepOf, Next
    <3> QED
      BY <3>1, <3>2
  <2>2. OnTurn(m)'
    BY <2>1, TurnStays
  <2>3. Kept(m)'
    BY <1>0, <2>1, KeptByStep
  <2> QED
    BY <2>2, <2>3 DEF RecordKept
<1> QED
  BY <1>1, <1>2, TypeCorrect, PTL DEF Spec

\* What the table holds when nothing is in progress.
LEMMA KeptQuiescent ==
    ASSUME TypeOK, NEW m \in Movers, Kept(m), Quiescent
    PROVE  /\ CurrentGame = gameId /\ ~Resetting(m)
           /\ gameId < 0 => Len(stack) = 0
           /\ gameId >= 0 => EndsWith(rows, stack, gameId, Len(stack))
<1>1. pc[m] = "idle" /\ WorkerIdle
  BY KeptTypes DEF Quiescent, CallersIdle
<1>2. CurrentGame = gameId /\ Saved(m) = Len(stack) /\ ~Resetting(m)
  BY <1>1, KeptAtRest DEF Resetting
<1> QED
  BY <1>2 DEF Kept, TableHolds

\* With movers that take turns, a worker that catches up before a first move, a
\* takeback or a reset, and no write that fails: whenever nothing is in progress, the rows
\* of the current game are its initial row and exactly the moves on the board,
\* in their order, for a new game and for the resumed last one, however many
\* games, moves, takebacks, resets and decided results came before.
THEOREM RecordIsTheGame ==
    ASSUME InTurns, Ops \cap {"Setup", "DbError"} = {},
           AheadOfWorker \cap {"FirstMove", "Takeback", "Reset"} = {},
           Resumed \in {0, OldGames}
    PROVE  Spec => []RecordIsGame
<1>1. TypeOK /\ RecordKept => RecordIsGame
  <2> SUFFICES ASSUME TypeOK, NEW m \in Movers, Kept(m), Quiescent
               PROVE  IF gameId < 0 THEN stack = <<>>
                      ELSE /\ Cardinality(RowsOf(gameId)) = Len(stack) + 1
                           /\ \A i \in RowsOf(gameId):
                                  rows[i].n = IF Place(i) = 0 THEN 0 ELSE stack[Place(i)].n
    BY DEF RecordIsGame, RecordKept
  <2>1. CASE gameId < 0
    <3>1. Len(stack) = 0 /\ stack \in Seq(Moves)
      BY <2>1, KeptQuiescent, KeptTypes
    <3> QED
      BY <2>1, <3>1
  <2>2. CASE ~(gameId < 0)
    <3>g. gameId \in Nat /\ gameId >= 0
      BY <2>2, KeptTypes
    <3>1. EndsWith(rows, stack, gameId, Len(stack))
      BY <3>g, KeptQuiescent
    <3>n. PICK n: n = Len(rows)
      OBVIOUS
    <3>k. PICK k: k = Len(stack)
      OBVIOUS
    <3>2. n \in Nat /\ k \in Nat /\ n > k /\ DOMAIN rows = 1..n
      BY <3>n, <3>k, <3>1, KeptTypes DEF EndsWith
    <3>3. /\ rows[n - k] = [game |-> gameId, n |-> 0]
          /\ \A i \in 1..k: rows[n - k + i] = [game |-> gameId, n |-> stack[i].n]
          /\ \A i \in 1..(n - k - 1): rows[i].game < gameId
      BY <3>n, <3>k, <3>1 DEF EndsWith
    <3>f. /\ rows[n - k].game = gameId /\ rows[n - k].n = 0
          /\ \A i \in 1..k: rows[n - k + i].game = gameId /\ rows[n - k + i].n = stack[i].n
      <4>1. rows[n - k].game = gameId /\ rows[n - k].n = 0
        <5>1. rows[n - k] = [game |-> gameId, n |-> 0]
          BY <3>3
        <5> QED
          BY <5>1
      <4>2. ASSUME NEW i \in 1..k
            PROVE  rows[n - k + i].game = gameId /\ rows[n - k + i].n = stack[i].n
        <5>1. rows[n - k + i] = [game |-> gameId, n |-> stack[i].n]
          BY <3>3
        <5> QED
          BY <5>1
      <4> QED
        BY <4>1, <4>2
    <3>4. RowsOf(gameId) = (n - k)..n
      <4>1. ASSUME NEW i \in (n - k)..n PROVE rows[i].game = gameId /\ i \in 1..n
        <5>1. i = n - k \/ \E j \in 1..k: i = n - k + j
          <6>1. PICK j: j = i - (n - k)
            OBVIOUS
          <6>2. i = n - k + j /\ (i = n - k \/ j \in 1..k)
            BY <3>2, <6>1
          <6> QED
            BY <6>2
        <5>2. i \in 1..n
          BY <3>2
        <5> QED
          BY <3>f, <5>1, <5>2
      <4>2. ASSUME NEW i \in 1..n, rows[i].game = gameId PROVE i \in (n - k)..n
        <5>1. i \in 1..(n - k - 1) \/ i \in (n - k)..n
          BY <3>2
        <5>2. i \notin 1..(n - k - 1)
          BY <3>g, <3>3, <4>2
        <5> QED
          BY <5>1, <5>2
      <4> QED
        BY <3>2, <4>1, <4>2 DEF RowsOf
    <3>5. Cardinality(RowsOf(gameId)) = k + 1
      <4>1. Cardinality((n - k)..n) = n - (n - k) + 1
        BY <3>2, FS_Interval
      <4> QED
        BY <3>2, <3>4, <4>1
    <3>6. ASSUME NEW i \in RowsOf(gameId)
          PROVE  rows[i].n = IF Place(i) = 0 THEN 0 ELSE stack[Place(i)].n
      <4>1. i \in (n - k)..n /\ rows[i].game = gameId
        BY <3>4 DEF RowsOf
      <4>2. {j \in RowsOf(rows[i].game): j < i} = (n - k)..(i - 1)
        BY <3>2, <3>4, <4>1
      <4>3. Cardinality((n - k)..(i - 1)) = i - (n - k)
        BY <3>2, <4>1, FS_Interval
      <4>4. Place(i) = i - (n - k)
        BY <4>2, <4>3 DEF Place
      <4>5. CASE i = n - k
        BY <3>2, <3>f, <4>4, <4>5
      <4>6. CASE i # n - k
        <5>1. Place(i) \in 1..k /\ n - k + Place(i) = i
          BY <3>2, <4>1, <4>4, <4>6
        <5>2. rows[i].n = stack[Place(i)].n
          BY <3>f, <5>1
        <5>3. Place(i) # 0
          BY <3>2, <5>1
        <5> QED
          BY <5>2, <5>3
      <4> QED
        BY <4>5, <4>6
    <3> QED
      BY <2>2, <3>k, <3>5, <3>6
  <2> QED
    BY <2>1, <2>2
<1> QED
  BY <1>1, RecordIsKept, PTL

\* Under the same conditions the incomplete-game lookup of a restart finds no
\* game but the current one: abandon_current_game has closed every other.
THEOREM GamesLeftAreClosed ==
    ASSUME InTurns, Ops \cap {"Setup", "DbError"} = {},
           AheadOfWorker \cap {"FirstMove", "Takeback", "Reset"} = {},
           Resumed \in {0, OldGames}
    PROVE  Spec => []LeftGamesAreClosed
<1>1. TypeOK /\ RecordKept => LeftGamesAreClosed
  <2> SUFFICES ASSUME TypeOK, NEW m \in Movers, Kept(m), Quiescent,
                      NEW g \in GameIds, games[g] = NoResult
               PROVE  g = gameId
    BY DEF LeftGamesAreClosed, RecordKept
  <2> QED
    BY KeptQuiescent DEF Kept, OthersClosed
<1> QED
  BY <1>1, RecordIsKept, PTL

\* Under the same conditions, delete_last_move, which takes the last row of the
\* whole table, deletes the row of the move being taken back and no other.
THEOREM TakebacksAreOwn ==
    ASSUME InTurns, Ops \cap {"Setup", "DbError"} = {},
           AheadOfWorker \cap {"FirstMove", "Takeback", "Reset"} = {},
           Resumed \in {0, OldGames}
    PROVE  Spec => TakebackErasesItsOwnMove
<1> DEFINE Own == Len(rows') < Len(rows) =>
                      rows = Append(rows', [game |-> gameId, n |-> stack[Len(stack)].n])
<1>1. TypeOK /\ RecordKept /\ [Next]_vars => [Own]_vars
  <2> SUFFICES ASSUME TypeOK, RecordKept, Next, Len(rows') < Len(rows)
               PROVE  rows = Append(rows', [game |-> gameId, n |-> stack[Len(stack)].n])
    OBVIOUS
  <2>0. Len(rows) \in Nat /\ rows \in Seq(Rows) /\ "Takeback" \notin AheadOfWorker
    BY DEF TypeOK
  <2>1. ASSUME NEW m \in Movers, TakebackDelete(m)
        PROVE  rows = Append(rows', [game |-> gameId, n |-> stack[Len(stack)].n])
    <3>0. Kept(m)
      BY <2>1, MoverIsOnTurn DEF Mover
    <3>1. /\ rows' \in Seq(Rows) /\ Len(rows') = Len(rows) - 1 /\ Len(rows) >= 1
          /\ \A i \in 1..(Len(rows) - 1): rows'[i] = rows[i]
          /\ rows[Len(rows)] = [game |-> gameId, n |-> stack[Len(stack)].n]
      BY <2>0, <2>1, <3>0, TakebackDeletes
    <3>2. \A s, t \in Seq(Rows):
              /\ Len(t) = Len(s) - 1 /\ Len(s) >= 1
              /\ \A i \in 1..(Len(s) - 1): t[i] = s[i]
              => s = Append(t, s[Len(s)])
      OBVIOUS
    <3> QED
      BY <2>0, <3>1, <3>2
  <2>2. CASE WorkerPersist
    <3>1. /\ Len(Append(rows, [game |-> gameId, n |-> task'.n])) = Len(rows) + 1
          /\ Len(rows \o <<[game |-> newId', n |-> 0],
                           [game |-> newId', n |-> task'.n]>>) = Len(rows) + 2
      BY <2>0
    <3>2. \/ rows' = rows \/ Len(rows') = Len(rows) + 1 \/ Len(rows') = Len(rows) + 2
      BY <2>2, <3>1 DEF WorkerPersist, PersistMove
    <3> QED
      BY <2>0, <3>2
  <2>3. CASE (\A c \in Movers: ~TakebackDelete(c)) /\ ~WorkerPersist
    <3>1. rows' = rows
      <4> USE DEF dbVars
      <4>1. CASE Worker
        BY <2>3, <4>1
        DEF Worker, WorkerPersistFails, WorkerAssignId, WorkerEndStore, WorkerEndSet
      <4>2. CASE EndGame
        BY <4>2 DEF EndGame, EndFire, EndStore, EndSet
      <4>3. CASE \E c \in Movers: Mover(c)
        BY <2>3, <4>3
        DEF Mover, MoveCheck, MoveStale, MovePush, MoveEnqueue, TakebackFails, TakebackClear,
            TakebackPop, ResetAbandon, ResetState, ResetId, Setup
      <4> QED
        BY <4>1, <4>2, <4>3 DEF Next
    <3> QED
      BY <2>0, <3>1
  <2> QED
    BY <2>1, <2>2, <2>3
<1>2. Spec => [][Own]_vars
  BY <1>1, RecordIsKept, PTL DEF Spec
<1> QED
  BY <1>2 DEF TakebackErasesItsOwnMove

-----------------------------------------------------------------------------
(***************************************************************************)
(* The result.  It has three copies: game_state._result, the result column *)
(* of the current game, and the cache of get_result.  They agree when no   *)
(* task that ends the game is waiting; the last of those that are makes    *)
(* them agree again.  This needs the end of a game to be decided between   *)
(* two moves, with the worker idle.                                        *)
(***************************************************************************)
\* No task that ends the game is waiting to be stored or set.
NoEnding(m) ==
    /\ \A k \in 1..Len(queue): queue[k].end = "no"
    /\ wpc # "idle" => task.end = "no"
    /\ pc[m] = "pushed" => mine[m].task.end = "no"

\* Then the three copies of the result agree.
CopiesAgree(m) ==
    NoEnding(m) /\ ~TakingBack(m) /\ ~Resetting(m) /\ pc[Ender] # "stored" =>
        /\ cached \in {NoResult, result}
        /\ CurrentGame >= 0 => games[CurrentGame] = result
        /\ CurrentGame < 0 /\ (Moving(m) \/ queue # <<>>) => result = NoResult

\* Halfway through the end of a game, and through a takeback or a reset.
HalfWay(m) ==
    /\ wpc \in {"ending", "stored"} => gameId >= 0 /\ task.end # "no"
    /\ wpc = "stored" => games[gameId] = EndResult(task)
    /\ pc[Ender] = "stored" /\ gameId >= 0 => games[gameId] = "ended"
    /\ pc[m] = "cleared" /\ gameId >= 0 => games[gameId] = NoResult
    /\ pc[m] = "reset" => result = NoResult /\ cached = NoResult
    /\ pc[Ender] # "idle" => WorkerIdle /\ pc[m] = "idle" /\ pc[Ender] \in {"fired", "stored"}

Agreed(m) == CopiesAgree(m) /\ HalfWay(m)

ResultKept == \E m \in Movers: OnTurn(m) /\ Kept(m) /\ Agreed(m)

-----------------------------------------------------------------------------
\* What the worker's tasks are, and who is idle while it has any.
LEMMA AtWork ==
    ASSUME TypeOK, NEW m \in Movers, Kept(m), Agreed(m), ~WorkerIdle
    PROVE  /\ pc[Ender] = "idle" /\ ~TakingBack(m) /\ ~Resetting(m)
           /\ task \in Tasks /\ \A k \in 1..Len(queue): queue[k] \in Tasks
<1>1. pc[Ender] = "idle" /\ ~TakingBack(m) /\ ~Resetting(m)
  BY DEF Kept, OneAtATime, Agreed, HalfWay
<1>2. task \in Tasks /\ \A k \in 1..Len(queue): queue[k] \in Tasks
  BY RowsAndTasks DEF TypeOK
<1> QED
  BY <1>1, <1>2

LEMMA AgreedByPersist ==
    ASSUME TypeOK, TypeOK', NEW m \in Movers, Kept(m), Agreed(m), WorkerPersist
    PROVE  Agreed(m)'
<1>t. PICK t: t = Head(queue)
  OBVIOUS
<1>1. /\ wpc = "idle" /\ queue # <<>> /\ queue' = Tail(queue) /\ wpc' = "persisted"
      /\ task' = t /\ UNCHANGED <<stack, result, cached, gameId, pc, mine>>
  BY <1>t DEF WorkerPersist, gameVars, callerVars
<1>2. pc[Ender] = "idle" /\ ~TakingBack(m) /\ ~Resetting(m)
  BY <1>1, AtWork DEF WorkerIdle
<1>3. /\ t \in Tasks /\ Len(queue') = Len(queue) - 1 /\ Len(queue) >= 1 /\ Len(queue) \in Nat
      /\ t = queue[1] /\ 1 \in 1..Len(queue)
      /\ \A j \in 1..Len(queue'): queue'[j] = queue[j + 1] /\ j + 1 \in 1..Len(queue)
  BY <1>t, <1>1, KeptTypes
<1>4. CurrentGame = gameId /\ CurrentGame' = newId'
  BY <1>1 DEF CurrentGame
<1>5. /\ newId' \in Int /\ newId' >= 0
      /\ \/ gameId < 0 /\ games'[newId'] = NoResult
         \/ gameId >= 0 /\ newId' = gameId /\ games' = games
  <2>1. t.first <=> gameId < 0
    BY <1>3, <1>4 DEF Kept, FirstMoves
  <2>2. CASE gameId < 0
    <3>1. games' = Append(games, NoResult) /\ newId' = Len(games')
      BY <1>t, <2>1, <2>2 DEF WorkerPersist, PersistMove
    <3>2. Len(games') \in Nat /\ games'[Len(games')] = NoResult
      BY <3>1, KeptTypes
    <3> QED
      BY <2>2, <3>1, <3>2
  <2>3. CASE ~(gameId < 0)
    <3>1. games' = games /\ newId' = gameId /\ gameId >= 0 /\ gameId \in Int
      BY <1>t, <2>1, <2>3, KeptTypes DEF WorkerPersist, PersistMove
    <3> QED
      BY <3>1
  <2> QED
    BY <2>2, <2>3
<1>6. CopiesAgree(m)'
  <2> SUFFICES ASSUME NoEnding(m)'
               PROVE  cached \in {NoResult, result} /\ games'[newId'] = result
    BY <1>1, <1>4, <1>5 DEF CopiesAgree
  <2>1. NoEnding(m)
    <3>1. ASSUME NEW k \in 1..Len(queue) PROVE queue[k].end = "no"
      <4>1. k = 1 \/ (k - 1 \in 1..Len(queue') /\ k = (k - 1) + 1)
        BY <1>3
      <4>2. t.end = "no"
        BY <1>1 DEF NoEnding
      <4>3. \A j \in 1..Len(queue'): queue[j + 1].end = "no"
        BY <1>3 DEF NoEnding
      <4> QED
        BY <1>3, <4>1, <4>2, <4>3
    <3> QED
      BY <1>1, <3>1 DEF NoEnding
  <2>2. /\ cached \in {NoResult, result}
        /\ gameId >= 0 => games[gameId] = result
        /\ gameId < 0 => result = NoResult
    BY <1>1, <1>2, <1>4, <2>1 DEF Agreed, CopiesAgree
  <2> QED
    BY <1>5, <2>2
<1>9. HalfWay(m)'
  BY <1>1, <1>2 DEF Agreed, HalfWay, TakingBack
<1> QED
  BY <1>6, <1>9 DEF Agreed

LEMMA AgreedByAssignId ==
    ASSUME TypeOK, NEW m \in Movers, Kept(m), Agreed(m), WorkerAssignId
    PROVE  Agreed(m)'
<1>1. /\ wpc = "persisted" /\ gameId' = newId /\ newId >= 0
      /\ UNCHANGED <<stack, result, cached, games, rows, queue, pc, mine>>
      /\ \/ wpc' = "idle" /\ task.end = "no"
         \/ wpc' = "ending" /\ task' = task /\ task.end # "no"
  BY DEF WorkerAssignId, AfterPersist, Kept, OneAtATime, gameVars, dbVars, callerVars
<1>2. pc[Ender] = "idle" /\ ~TakingBack(m) /\ ~Resetting(m)
  BY <1>1, AtWork DEF WorkerIdle
<1>3. CurrentGame' = CurrentGame /\ CurrentGame = newId
  BY <1>1 DEF CurrentGame
<1>4. CopiesAgree(m)'
  <2>1. NoEnding(m)' => NoEnding(m)
    BY <1>1 DEF NoEnding
  <2> QED
    BY <1>1, <1>2, <1>3, <2>1 DEF Agreed, CopiesAgree, TakingBack, Resetting, Moving
<1>7. HalfWay(m)'
  BY <1>1, <1>2 DEF Agreed, HalfWay, TakingBack
<1> QED
  BY <1>4, <1>7 DEF Agreed

LEMMA AgreedByEndStore ==
    ASSUME TypeOK, NEW m \in Movers, Kept(m), Agreed(m), "DbError" \notin Ops, WorkerEndStore
    PROVE  Agreed(m)'
<1>r. PICK r: r = EndResult(task)
  OBVIOUS
<1>1. /\ wpc = "ending" /\ wpc' = "stored" /\ gameId >= 0 /\ task.end # "no"
      /\ UNCHANGED <<stack, result, cached, gameId, queue, task, newId, pc, mine>>
      /\ games' = [games EXCEPT ![gameId] = r]
  BY <1>r, KeptTypes DEF WorkerEndStore, StoreResult, Agreed, HalfWay, gameVars, callerVars
<1>2. pc[Ender] = "idle" /\ ~TakingBack(m) /\ ~Resetting(m) /\ task \in Tasks
  BY <1>1, AtWork DEF WorkerIdle
<1>3. CurrentGame' = gameId /\ CurrentGame = gameId
  BY <1>1 DEF CurrentGame
<1>4. games'[gameId] = r
  BY <1>1, KeptTypes DEF GameIds
<1>5. CopiesAgree(m)'
  BY <1>1 DEF CopiesAgree, NoEnding
<1>8. HalfWay(m)'
  <2>1. EndResult(task)' = r
    BY <1>r, <1>1 DEF EndResult
  <2> QED
    BY <1>1, <1>2, <1>4, <2>1 DEF Agreed, HalfWay, TakingBack
<1> QED
  BY <1>5, <1>8 DEF Agreed

LEMMA AgreedByEndSet ==
    ASSUME TypeOK, NEW m \in Movers, Kept(m), Agreed(m), WorkerEndSet
    PROVE  Agreed(m)'
<1>r. PICK r: r = EndResult(task)
  OBVIOUS
<1>1. /\ wpc = "stored" /\ wpc' = "idle" /\ gameId >= 0 /\ task.end # "no" /\ games[gameId] = r
      /\ UNCHANGED <<stack, games, gameId, queue, newId, pc, mine>>
      /\ result' = r /\ cached' = r
  BY <1>r DEF WorkerEndSet, Agreed, HalfWay, dbVars, callerVars
<1>2. pc[Ender] = "idle" /\ ~TakingBack(m) /\ ~Resetting(m) /\ task \in Tasks
  BY <1>1, AtWork DEF WorkerIdle
<1>3. CurrentGame' = gameId /\ CurrentGame = gameId /\ gameId \in Int
  BY <1>1, KeptTypes DEF CurrentGame
<1>5. CopiesAgree(m)'
  BY <1>1, <1>3 DEF CopiesAgree
<1>8. HalfWay(m)'
  BY <1>1, <1>2 DEF Agreed, HalfWay, TakingBack, Resetting
<1> QED
  BY <1>5, <1>8 DEF Agreed

\* The thread that ends a game runs alone: no move is under way, and the worker
\* is idle.
LEMMA AgreedByEnder ==
    ASSUME TypeOK, NEW m \in Movers, Kept(m), Agreed(m), "DbError" \notin Ops,
           AheadOfWorker \subseteq {"Move"}, AmidCallers = {},
           EndFire \/ EndStore \/ EndSet
    PROVE  Agreed(m)'
<1> USE DEF Goto, gameVars, dbVars, workerVars
<1>0. m \in Callers /\ Ender \in Callers /\ m # Ender /\ "End" \notin AheadOfWorker
  BY KeptTypes
<1>1. /\ WorkerIdle /\ pc[m] = "idle" /\ wpc = "idle" /\ queue = <<>> /\ Len(queue) = 0
      /\ UNCHANGED <<stack, gameId, queue, wpc, task, newId, mine>>
      /\ pc'[m] = "idle"
  <2>1. CASE EndFire
    BY <1>0, <2>1 DEF EndFire, Begin, CallersIdle, WorkerIdle, TypeOK
  <2>2. CASE EndStore \/ EndSet
    <3>1. pc[Ender] # "idle"
      BY <2>2 DEF EndStore, EndSet
    <3>2. WorkerIdle /\ pc[m] = "idle"
      BY <3>1 DEF Agreed, HalfWay
    <3> QED
      BY <1>0, <2>2, <3>2 DEF EndStore, EndSet, WorkerIdle, TypeOK
  <2> QED
    BY <2>1, <2>2
<1>2. /\ CurrentGame = gameId /\ CurrentGame' = gameId
      /\ WorkerIdle' /\ NoEnding(m) /\ ~TakingBack(m) /\ ~Resetting(m) /\ ~Moving(m)
      /\ ~TakingBack(m)' /\ ~Resetting(m)' /\ ~Moving(m)'
  BY <1>1 DEF CurrentGame, WorkerIdle, NoEnding, TakingBack, Resetting, Moving
<1>4. CASE EndFire
  <2>1. pc[Ender] = "idle" /\ pc'[Ender] = "fired" /\ UNCHANGED <<games, result, cached>>
    BY <1>0, <1>4 DEF EndFire, Begin, TypeOK
  <2>2. CopiesAgree(m)'
    BY <1>1, <1>2, <2>1 DEF Agreed, CopiesAgree
  <2>3. HalfWay(m)'
    BY <1>1, <1>2, <2>1 DEF HalfWay
  <2> QED
    BY <2>2, <2>3 DEF Agreed
<1>5. CASE EndStore
  <2>1. pc[Ender] = "fired" /\ pc'[Ender] = "stored" /\ UNCHANGED <<result, cached>>
        /\ games' = IF gameId < 0 THEN games ELSE [games EXCEPT ![gameId] = "ended"]
    BY <1>0, <1>5 DEF EndStore, StoreResult, TypeOK
  <2>2. gameId >= 0 => games'[gameId] = "ended"
    BY <2>1, KeptTypes DEF GameIds
  <2>3. CopiesAgree(m)' /\ HalfWay(m)'
    BY <1>1, <1>2, <2>1, <2>2 DEF CopiesAgree, HalfWay
  <2> QED
    BY <2>3 DEF Agreed
<1>6. CASE EndSet
  <2>1. pc[Ender] = "stored" /\ pc'[Ender] = "idle" /\ games' = games
        /\ result' = "ended" /\ cached' = "ended"
    BY <1>0, <1>6 DEF EndSet, TypeOK
  <2>2. gameId >= 0 => games[gameId] = "ended"
    BY <2>1 DEF Agreed, HalfWay
  <2>3. CopiesAgree(m)' /\ HalfWay(m)'
    BY <1>1, <1>2, <2>1, <2>2 DEF CopiesAgree, HalfWay
  <2> QED
    BY <2>3 DEF Agreed
<1> QED
  BY <1>4, <1>5, <1>6

\* A move begins: nothing is decided yet.
LEMMA AgreedByCheck ==
    ASSUME TypeOK, NEW m \in Movers, Kept(m), Kept(m)', Agreed(m),
           AheadOfWorker \subseteq {"Move"}, AmidCallers = {}, MoveCheck(m)
    PROVE  Agreed(m)'
<1> USE DEF Goto, gameVars, dbVars, workerVars
<1>0. m \in Callers /\ Ender \in Callers /\ m # Ender /\ "FirstMove" \notin AheadOfWorker
  BY KeptTypes
<1>1. /\ pc[m] = "idle" /\ pc'[m] = "checked" /\ pc[Ender] = "idle" /\ pc'[Ender] = "idle"
      /\ result = NoResult
      /\ UNCHANGED <<stack, result, cached, gameId, games, queue, wpc, task, newId>>
  BY <1>0 DEF MoveCheck, Begin, CallersIdle, IsGameOver, TypeOK
<1>2. CurrentGame' = CurrentGame
  BY <1>1 DEF CurrentGame
<1>3. CopiesAgree(m)'
  <2>1. NoEnding(m)' => NoEnding(m)
    BY <1>1 DEF NoEnding
  <2> QED
    BY <1>1, <1>2, <2>1 DEF Agreed, CopiesAgree, TakingBack, Resetting, Moving
<1>6. HalfWay(m)'
  BY <1>1 DEF Agreed, HalfWay, EndResult
<1> QED
  BY <1>3, <1>6 DEF Agreed

\* A move on another position is given up.
LEMMA AgreedByStale ==
    ASSUME TypeOK, NEW m \in Movers, Kept(m), Agreed(m), MoveStale(m)
    PROVE  Agreed(m)'
<1> USE DEF Goto, gameVars, dbVars, workerVars
<1>0. m \in Callers /\ Ender \in Callers /\ m # Ender
  BY KeptTypes
<1>1. /\ pc[m] = "checked" /\ pc'[m] = "idle" /\ pc[Ender] = "idle" /\ pc'[Ender] = "idle"
      /\ UNCHANGED <<stack, result, cached, gameId, games, queue, wpc, task, newId>>
  BY <1>0 DEF MoveStale, TypeOK, Agreed, HalfWay
<1>2. CurrentGame' = CurrentGame
  BY <1>1 DEF CurrentGame
<1>3. CopiesAgree(m)'
  <2>1. NoEnding(m)' => NoEnding(m)
    BY <1>1 DEF NoEnding
  <2> QED
    BY <1>1, <1>2, <2>1 DEF Agreed, CopiesAgree, TakingBack, Resetting, Moving
<1>6. HalfWay(m)'
  BY <1>1 DEF Agreed, HalfWay, EndResult
<1> QED
  BY <1>3, <1>6 DEF Agreed

\* A mate sets the result at the push, before the row is written.
LEMMA AgreedByPush ==
    ASSUME TypeOK, NEW m \in Movers, Kept(m), Agreed(m), NEW end \in Endings, MovePush(m, end)
    PROVE  Agreed(m)'
<1> USE DEF Goto, gameVars, dbVars, workerVars
<1>0. m \in Callers /\ Ender \in Callers /\ m # Ender
  BY KeptTypes
<1>1. /\ pc[m] = "checked" /\ pc'[m] = "pushed" /\ pc[Ender] = "idle" /\ pc'[Ender] = "idle"
      /\ result' = IF end = "mate" THEN "mate" ELSE result
      /\ UNCHANGED <<cached, gameId, games, queue, wpc, task, newId>>
  BY <1>0 DEF MovePush, TypeOK, Agreed, HalfWay
<1>2. CurrentGame' = CurrentGame /\ Moving(m) /\ Moving(m)'
  BY <1>1 DEF CurrentGame, Moving
<1>3. mine'[m].task.end = end
  <2>1. mine'[m] = [task |-> Task(pushed', end, mine[m].task.first), ply |-> mine[m].ply]
    BY DEF MovePush, TypeOK
  <2> QED
    BY <2>1 DEF Task
<1>4. CopiesAgree(m)'
  <2>1. NoEnding(m)' => NoEnding(m) /\ result' = result
    BY <1>1, <1>3 DEF NoEnding
  <2> QED
    BY <1>1, <1>2, <2>1 DEF Agreed, CopiesAgree, TakingBack, Resetting
<1>7. HalfWay(m)'
  BY <1>1 DEF Agreed, HalfWay, EndResult
<1> QED
  BY <1>4, <1>7 DEF Agreed

\* The task that ends the game now waits in the queue.
LEMMA AgreedByEnqueue ==
    ASSUME TypeOK, NEW m \in Movers, Kept(m), Agreed(m), MoveEnqueue(m)
    PROVE  Agreed(m)'
<1> USE DEF Goto, gameVars, dbVars, workerVars
<1>t. PICK t: t = mine[m].task
  OBVIOUS
<1>0. m \in Callers /\ Ender \in Callers /\ m # Ender
  BY KeptTypes
<1>1. /\ pc[m] = "pushed" /\ pc'[m] = "idle" /\ pc[Ender] = "idle" /\ pc'[Ender] = "idle"
      /\ queue' = Append(queue, t)
      /\ UNCHANGED <<result, cached, gameId, games, wpc, task, newId>>
  BY <1>t, <1>0 DEF MoveEnqueue, TypeOK, Agreed, HalfWay
<1>2. t \in Tasks
  BY <1>t DEF TypeOK, Locals
<1>3. /\ Len(queue') = Len(queue) + 1 /\ Len(queue) \in Nat /\ queue'[Len(queue) + 1] = t
      /\ \A j \in 1..Len(queue): queue'[j] = queue[j] /\ j \in 1..Len(queue')
      /\ \A j \in 1..Len(queue'): j \in 1..Len(queue) \/ j = Len(queue) + 1
      /\ Len(queue) + 1 \in 1..Len(queue')
  <2>1. /\ Len(queue') = Len(queue) + 1 /\ queue'[Len(queue) + 1] = t
        /\ \A j \in 1..Len(queue): queue'[j] = queue[j]
    BY <1>1, <1>2, KeptTypes
  <2>2. Len(queue) \in Nat
    BY KeptTypes
  <2> QED
    BY <2>1, <2>2
<1>4. CurrentGame' = CurrentGame /\ Moving(m) /\ ~Moving(m)'
  BY <1>1 DEF CurrentGame, Moving
<1>5. CopiesAgree(m)'
  <2>1. ASSUME NoEnding(m)' PROVE NoEnding(m)
    <3>1. \A k \in 1..Len(queue): queue[k].end = "no"
      BY <1>3, <2>1 DEF NoEnding
    <3>2. t.end = "no"
      BY <1>3, <2>1 DEF NoEnding
    <3> QED
      BY <1>t, <1>1, <2>1, <3>1, <3>2 DEF NoEnding
  <2> QED
    BY <1>1, <1>4, <2>1 DEF Agreed, CopiesAgree, TakingBack, Resetting
<1>8. HalfWay(m)'
  BY <1>1 DEF Agreed, HalfWay, EndResult
<1> QED
  BY <1>5, <1>8 DEF Agreed

\* A takeback and a reset find the worker idle, and reopen the game.
LEMMA AgreedAtRest ==
    ASSUME TypeOK, NEW m \in Movers, Kept(m), Agreed(m),
           AheadOfWorker \subseteq {"Move"}, AmidCallers = {},
           \/ TakebackDelete(m) \/ TakebackClear(m) \/ TakebackPop(m)
           \/ ResetAbandon(m) \/ ResetState(m) \/ ResetId(m)
    PROVE  Agreed(m)'
<1> USE DEF Goto, gameVars, dbVars, workerVars
<1>0. /\ m \in Callers /\ Ender \in Callers /\ m # Ender
      /\ "Takeback" \notin AheadOfWorker /\ "Reset" \notin AheadOfWorker
  BY KeptTypes
<1>1. /\ WorkerIdle /\ pc[Ender] = "idle" /\ pc[m] \notin {"checked", "pushed"}
      /\ UNCHANGED <<queue, wpc, task, newId, mine>>
      /\ pc'[Ender] = "idle" /\ pc'[m] \notin {"checked", "pushed", "fired"}
  <2>1. CASE TakebackDelete(m) \/ ResetAbandon(m)
    BY <1>0, <2>1 DEF TakebackDelete, ResetAbandon, Begin, CallersIdle, TypeOK
  <2>2. CASE TakebackClear(m) \/ TakebackPop(m) \/ ResetState(m) \/ ResetId(m)
    <3>1. pc[m] \in {"deleted", "cleared", "abandoned", "reset"}
      BY <2>2 DEF TakebackClear, TakebackPop, ResetState, ResetId, Kept, OneAtATime
    <3>2. WorkerIdle /\ pc[Ender] = "idle"
      BY <3>1 DEF Kept, OneAtATime, TakingBack, Resetting, Agreed, HalfWay
    <3> QED
      BY <1>0, <2>2, <3>1, <3>2
      DEF TakebackClear, TakebackPop, ResetState, ResetId, TypeOK
  <2> QED
    BY <2>1, <2>2
<1>2. queue = <<>> /\ wpc = "idle" /\ Len(queue) = 0 /\ CurrentGame = gameId
      /\ CurrentGame' = gameId' /\ NoEnding(m) /\ ~Moving(m) /\ ~Moving(m)'
  BY <1>1 DEF WorkerIdle, CurrentGame, NoEnding, Moving
<1>4. CASE TakebackDelete(m) \/ ResetAbandon(m)
  <2>1. pc'[m] \in {"deleted", "abandoned"}
    BY <1>0, <1>4 DEF TakebackDelete, ResetAbandon, TypeOK
  <2>2. CopiesAgree(m)' /\ HalfWay(m)'
    BY <1>1, <1>2, <2>1 DEF CopiesAgree, HalfWay, TakingBack, Resetting
  <2> QED
    BY <2>2 DEF Agreed
<1>5. CASE TakebackClear(m)
  <2>1. /\ pc'[m] = "cleared" /\ gameId' = gameId
        /\ games' = IF gameId < 0 THEN games ELSE [games EXCEPT ![gameId] = NoResult]
    BY <1>0, <1>5 DEF TakebackClear, TypeOK
  <2>2. gameId >= 0 => games'[gameId] = NoResult
    BY <2>1, KeptTypes DEF GameIds
  <2>3. CopiesAgree(m)' /\ HalfWay(m)'
    BY <1>1, <1>2, <2>1, <2>2 DEF CopiesAgree, HalfWay, TakingBack
  <2> QED
    BY <2>3 DEF Agreed
<1>6. CASE TakebackPop(m)
  <2>1. /\ pc[m] = "cleared" /\ pc'[m] = "idle" /\ cached' = NoResult /\ result' = NoResult
        /\ UNCHANGED <<gameId, games>>
    BY <1>0, <1>6 DEF TakebackPop, TypeOK, Kept, OneAtATime, TakingBack
  <2>2. gameId >= 0 => games[gameId] = NoResult
    BY <2>1 DEF Agreed, HalfWay
  <2>3. CopiesAgree(m)' /\ HalfWay(m)'
    BY <1>1, <1>2, <2>1, <2>2 DEF CopiesAgree, HalfWay
  <2> QED
    BY <2>3 DEF Agreed
<1>7. CASE ResetState(m)
  <2>1. pc'[m] = "reset" /\ cached' = NoResult /\ result' = NoResult
    BY <1>0, <1>7 DEF ResetState, TypeOK
  <2>2. CopiesAgree(m)' /\ HalfWay(m)'
    BY <1>1, <1>2, <2>1 DEF CopiesAgree, HalfWay, Resetting
  <2> QED
    BY <2>2 DEF Agreed
<1>8. CASE ResetId(m)
  <2>1. /\ pc[m] = "reset" /\ pc'[m] = "idle" /\ gameId' = -1
        /\ UNCHANGED <<result, cached>>
    BY <1>0, <1>8 DEF ResetId, TypeOK, Kept, OneAtATime, NoGame
  <2>2. cached = NoResult /\ result = NoResult
    BY <2>1 DEF Agreed, HalfWay
  <2>3. CopiesAgree(m)' /\ HalfWay(m)'
    BY <1>1, <1>2, <2>1, <2>2 DEF CopiesAgree, HalfWay
  <2> QED
    BY <2>3 DEF Agreed
<1> QED
  BY <1>4, <1>5, <1>6, <1>7, <1>8

LEMMA AgreedInit ==
    ASSUME Init, NEW m \in Movers
    PROVE  Agreed(m)
<1> USE DEF TakingBack, Resetting, Moving
<1>1. /\ queue = <<>> /\ Len(queue) = 0 /\ wpc = "idle" /\ pc[m] = "idle" /\ pc[Ender] = "idle"
      /\ result = NoResult /\ cached = NoResult
  BY DEF Init, Callers
<1>2. CurrentGame >= 0 => games[CurrentGame] = result
  <2>1. CurrentGame = gameId
    BY <1>1 DEF CurrentGame
  <2>2. CASE Resumed = 0
    BY <2>1, <2>2 DEF Init, NoGame
  <2>3. CASE Resumed # 0
    <3>1. Resumed \in 1..OldGames /\ gameId = Resumed
      BY <2>3, OldGamesAssumption, ResumedAssumption DEF Init
    <3>2. games[Resumed] = NoResult
      BY <3>1 DEF Init
    <3> QED
      BY <1>1, <2>1, <3>1, <3>2
  <2> QED
    BY <2>2, <2>3
<1>3. CopiesAgree(m)
  BY <1>1, <1>2 DEF CopiesAgree
<1>4. HalfWay(m)
  BY <1>1 DEF HalfWay
<1> QED
  BY <1>3, <1>4 DEF Agreed

\* Two threads at rest know the same of the result.
LEMMA AgreedPassesOn ==
    ASSUME NEW m \in Movers, NEW c \in Movers, pc[m] = "idle", pc[c] = "idle", Agreed(m)
    PROVE  Agreed(c)
<1> USE DEF TakingBack, Resetting, Moving
<1>1. CopiesAgree(c)
  BY DEF Agreed, CopiesAgree, NoEnding
<1>2. HalfWay(c)
  BY DEF Agreed, HalfWay
<1> QED
  BY <1>1, <1>2 DEF Agreed

\* The thread that moves is on turn and knows of the record and the result.
LEMMA MoverAgrees ==
    ASSUME TypeOK, InTurns, ResultKept, NEW c \in Movers, Mover(c)
    PROVE  OnTurn(c) /\ Kept(c) /\ Agreed(c)
<1>1. PICK m \in Movers: OnTurn(m) /\ Kept(m) /\ Agreed(m)
  BY DEF ResultKept
<1> QED
  BY <1>1, TurnPasses, KeptPassesOn, AgreedPassesOn

LEMMA AgreedByStep ==
    ASSUME TypeOK, TypeOK', NEW m \in Movers, Kept(m), Kept(m)', Agreed(m), StepOf(m),
           "Setup" \notin Ops, "DbError" \notin Ops,
           AheadOfWorker \subseteq {"Move"}, AmidCallers = {}
    PROVE  Agreed(m)'
<1>1. CASE WorkerPersist
  BY <1>1, AgreedByPersist
<1>2. CASE WorkerAssignId
  BY <1>2, AgreedByAssignId
<1>3. CASE WorkerEndStore
  BY <1>3, AgreedByEndStore
<1>4. CASE WorkerEndSet
  BY <1>4, AgreedByEndSet
<1>5. CASE EndFire \/ EndStore \/ EndSet
  BY <1>5, AgreedByEnder
<1>6. CASE Mover(m)
  <2>1. CASE MoveCheck(m)
    BY <2>1, AgreedByCheck
  <2>2. CASE MoveStale(m)
    BY <2>2, AgreedByStale
  <2>3. CASE \E end \in Endings: MovePush(m, end)
    BY <2>3, AgreedByPush
  <2>4. CASE MoveEnqueue(m)
    BY <2>4, AgreedByEnqueue
  <2>5. CASE \/ TakebackDelete(m) \/ TakebackClear(m) \/ TakebackPop(m)
             \/ ResetAbandon(m) \/ ResetState(m) \/ ResetId(m)
    BY <2>5, AgreedAtRest
  <2>6. ~Setup(m) /\ ~TakebackFails(m)
    BY DEF Setup, Begin, TakebackFails
  <2> QED
    BY <1>6, <2>1, <2>2, <2>3, <2>4, <2>5, <2>6 DEF Mover
<1>7. CASE UNCHANGED vars
  BY <1>7 DEF vars, Agreed, CopiesAgree, NoEnding, HalfWay,
              TakingBack, Resetting, Moving, CurrentGame, WorkerIdle, EndResult
<1>8. ~WorkerPersistFails
  BY DEF WorkerPersistFails
<1> QED
  BY <1>1, <1>2, <1>3, <1>4, <1>5, <1>6, <1>7, <1>8 DEF StepOf, Worker, EndGame

\* The copies of the result agree, or a task or an operation is about to make
\* them, in every reachable state.
LEMMA ResultIsAgreed ==
    ASSUME Movers # {}, Ops \cap {"Setup", "DbError"} = {},
           AheadOfWorker \subseteq {"Move"}, AmidCallers = {}, Resumed \in {0, OldGames}
    PROVE  Spec => [](TypeOK /\ ResultKept)
<1>0. /\ InTurns /\ "Setup" \notin Ops /\ "DbError" \notin Ops
      /\ AheadOfWorker \cap {"FirstMove", "Takeback", "Reset"} = {}
  BY DEF InTurns
<1>1. Init => ResultKept
  <2> SUFFICES ASSUME Init PROVE ResultKept
    OBVIOUS
  <2>1. PICK m \in Movers: TRUE
    OBVIOUS
  <2>2. OnTurn(m)
    BY DEF Init, Callers, OnTurn
  <2> QED
    BY <2>1, <2>2, KeptInit, AgreedInit DEF ResultKept
<1>2. TypeOK /\ TypeOK' /\ ResultKept /\ [Next]_vars => ResultKept'
  <2> SUFFICES ASSUME TypeOK, TypeOK', ResultKept, [Next]_vars PROVE ResultKept'
    OBVIOUS
  <2>1. PICK m \in Movers: OnTurn(m) /\ Kept(m) /\ Agreed(m) /\ StepOf(m)
    <3>1. CASE \E c \in Movers: Mover(c)
      <4>1. PICK c \in Movers: Mover(c)
        BY <3>1
      <4>2. OnTurn(c) /\ Kept(c) /\ Agreed(c)
        BY <1>0, <4>1, MoverAgrees
      <4> QED
        BY <4>1, <4>2 DEF StepOf
    <3>2. CASE ~ \E c \in Movers: Mover(c)
      BY <3>2 DEF ResultKept, StepOf, Next
    <3> QED
      BY <3>1, <3>2
  <2>2. OnTurn(m)'
    BY <2>1, TurnStays
  <2>3. Kept(m)'
    BY <1>0, <2>1, KeptByStep
  <2>4. Agreed(m)'
    BY <1>0, <2>1, <2>3, AgreedByStep
  <2> QED
    BY <2>2, <2>3, <2>4 DEF ResultKept
<1> QED
  BY <1>1, <1>2, TypeCorrect, PTL DEF Spec

\* With movers that take turns, no write that fails, and a game that is taken back, reset
\* or ended between two moves once the worker has caught up: whenever nothing is in
\* progress the result in the database is the result on the board, and the cache
\* of get_result holds nothing else.  Moves need not wait for the worker.
THEOREM ResultsDoAgree ==
    ASSUME Movers # {}, Ops \cap {"Setup", "DbError"} = {},
           AheadOfWorker \subseteq {"Move"}, AmidCallers = {}, Resumed \in {0, OldGames}
    PROVE  Spec => []ResultsAgree
<1>1. TypeOK /\ ResultKept => ResultsAgree
  <2> SUFFICES ASSUME TypeOK, NEW m \in Movers, Kept(m), Agreed(m), Quiescent
               PROVE  /\ gameId >= 0 => games[gameId] = result
                      /\ cached \in {NoResult, result}
    BY DEF ResultsAgree, ResultKept
  <2>1. pc[m] = "idle" /\ pc[Ender] = "idle" /\ WorkerIdle
    BY KeptTypes DEF Quiescent, CallersIdle
  <2>2. NoEnding(m) /\ CurrentGame = gameId /\ ~TakingBack(m) /\ ~Resetting(m)
    BY <2>1 DEF NoEnding, WorkerIdle, CurrentGame, TakingBack, Resetting
  <2> QED
    BY <2>1, <2>2 DEF Agreed, CopiesAgree
<1> QED
  BY <1>1, ResultIsAgreed, PTL

-----------------------------------------------------------------------------
(***************************************************************************)
(* Several movers in one game.  Each move on the board is at one place on  *)
(* its way to the record: in the hands of the mover that pushed it, in the *)
(* queue, or in the rows of the game; and nothing else is on that way.     *)
(***************************************************************************)
OnBoard(n) == \E i \in 1..Len(stack): stack[i].n = n
InHand(n) == \E c \in Movers: pc[c] = "pushed" /\ mine[c].task.n = n
InQueue(n) == \E i \in 1..Len(queue): queue[i].n = n
InRows(n) == \E i \in 1..Len(rows): rows[i].game = CurrentGame /\ rows[i].n = n

OnceOnBoard ==
    /\ \A i \in 1..Len(stack): stack[i].n <= pushed
    /\ \A i, j \in 1..Len(stack): stack[i].n = stack[j].n => i = j
OnceInHand ==
    \A c, d \in Movers:
        pc[c] = "pushed" /\ pc[d] = "pushed" /\ mine[c].task.n = mine[d].task.n => c = d
OnceInQueue == \A i, j \in 1..Len(queue): queue[i].n = queue[j].n => i = j
OnceInRows ==
    \A i, j \in 1..Len(rows):
        /\ rows[i].game = CurrentGame /\ rows[j].game = CurrentGame
        /\ rows[i].n = rows[j].n
        => i = j
OnePlace ==
    \A n \in Nat:
        /\ InHand(n) => n # 0 /\ ~InQueue(n) /\ ~InRows(n)
        /\ InQueue(n) => n # 0 /\ ~InRows(n)
NoneIsLost == \A n \in Serials: OnBoard(n) <=> InHand(n) \/ InQueue(n) \/ InRows(n)

\* Until a game has a row, one move at most is on its way, and it opens the game.
NotRecorded ==
    CurrentGame < 0 =>
        /\ wpc = "idle" /\ Len(queue) <= 1 /\ \A i \in 1..Len(queue): queue[i].first
        /\ \A c \in Movers: pc[c] # "idle" =>
             /\ mine[c].task.first /\ Len(queue) = 0
             /\ \A d \in Movers: d # c => pc[d] = "idle"
Recorded ==
    CurrentGame >= 0 =>
        /\ InRows(0) /\ \A i \in 1..Len(queue): ~queue[i].first
        /\ \A c \in Movers: pc[c] # "idle" => ~mine[c].task.first
OnlyMoves == \A c \in Movers: pc[c] \in {"idle", "checked", "pushed"}

OnTheWay ==
    /\ OnceOnBoard /\ OnceInHand /\ OnceInQueue /\ OnceInRows /\ OnePlace /\ NoneIsLost
    /\ NotRecorded /\ Recorded /\ OnlyMoves /\ RowsKnown

LEMMA WayTypes ==
    ASSUME TypeOK
    PROVE  /\ stack \in Seq(Moves) /\ rows \in Seq(Rows) /\ games \in Seq(Results)
           /\ queue \in Seq(Tasks)
           /\ Len(stack) \in Nat /\ Len(rows) \in Nat /\ Len(games) \in Nat /\ Len(queue) \in Nat
           /\ gameId \in Int /\ newId \in Int /\ CurrentGame \in Int /\ pushed \in Nat
           /\ \A i \in 1..Len(stack): stack[i].n \in Serials
           /\ \A i \in 1..Len(queue): queue[i].n \in Serials \cup {0}
           /\ \A i \in 1..Len(rows): rows[i].n \in Serials \cup {0} /\ rows[i].game \in Nat
           /\ \A c \in Movers: mine[c].task.n \in Serials \cup {0}
<1>1. /\ stack \in Seq(Moves) /\ rows \in Seq(Rows) /\ games \in Seq(Results)
      /\ queue \in Seq(Tasks)
      /\ Len(stack) \in Nat /\ Len(rows) \in Nat /\ Len(games) \in Nat /\ Len(queue) \in Nat
      /\ mine \in [Movers -> Locals]
  BY DEF TypeOK
<1>2. gameId \in 1..Len(games) \cup {-1} /\ newId \in 1..Len(games) \cup {-1}
      /\ pushed \in 0..LastSerial
  BY DEF TypeOK, GameIds, NoGame
<1>3. /\ \A i \in 1..Len(stack): stack[i] \in Moves
      /\ \A i \in 1..Len(queue): queue[i] \in Tasks
      /\ \A i \in 1..Len(rows): rows[i] \in Rows
      /\ \A c \in Movers: mine[c].task \in Tasks
  BY <1>1 DEF Locals
<1>4. /\ \A i \in 1..Len(stack): stack[i].n \in Serials
      /\ \A i \in 1..Len(queue): queue[i].n \in Serials \cup {0}
      /\ \A i \in 1..Len(rows): rows[i].n \in Serials \cup {0} /\ rows[i].game \in Nat
      /\ \A c \in Movers: mine[c].task.n \in Serials \cup {0}
  BY <1>3 DEF Moves, Tasks, Rows
<1> QED
  BY <1>1, <1>2, <1>4, SerialNumbers DEF CurrentGame

LEMMA WayInit == Init => OnTheWay
<1> SUFFICES ASSUME Init PROVE OnTheWay
  OBVIOUS
<1>1. /\ queue = <<>> /\ Len(queue) = 0 /\ wpc = "idle" /\ \A c \in Movers: pc[c] = "idle"
      /\ Len(games) = OldGames /\ Len(rows) = 2 * OldGames /\ OldGames \in Nat
      /\ \A i \in 1..(2 * OldGames): rows[i] = OldRow(i)
      /\ CurrentGame = gameId /\ pushed = OldGames
  BY OldGamesAssumption DEF Init, Callers, CurrentGame
<1>2. \A i \in 1..(2 * OldGames):
        /\ rows[i].game = (i + 1) \div 2
        /\ rows[i].n = IF i % 2 = 1 THEN 0 ELSE i \div 2
  BY <1>1 DEF OldRow
<1>3. RowsKnown /\ OnlyMoves /\ OnceInHand /\ OnceInQueue
  BY <1>1, <1>2 DEF RowsKnown, OnlyMoves, OnceInHand, OnceInQueue
<1>4. \A n: ~InHand(n) /\ ~InQueue(n)
  BY <1>1 DEF InHand, InQueue
<1>5. OnePlace
  BY <1>4 DEF OnePlace
<1>6. OnceInRows
  <2> SUFFICES ASSUME NEW i \in 1..(2 * OldGames), NEW j \in 1..(2 * OldGames),
                      rows[i].game = rows[j].game, rows[i].n = rows[j].n
      PROVE  i = j
    BY <1>1 DEF OnceInRows
  <2>1. (i + 1) \div 2 = (j + 1) \div 2
    BY <1>2
  <2>2. (IF i % 2 = 1 THEN 0 ELSE i \div 2) = (IF j % 2 = 1 THEN 0 ELSE j \div 2)
    BY <1>2
  <2>3. i % 2 = j % 2
    BY <1>1, <2>2
  <2> QED
    BY <1>1, <2>1, <2>3
<1>7. CASE Resumed = 0
  <2>1. gameId = -1 /\ stack = <<>> /\ Len(stack) = 0
    BY <1>7 DEF Init, NoGame
  <2>2. \A n: ~OnBoard(n) /\ ~InRows(n)
    <3>1. \A i \in 1..(2 * OldGames): rows[i].game # CurrentGame
      BY <1>1, <1>2, <2>1
    <3> QED
      BY <1>1, <2>1, <3>1 DEF OnBoard, InRows
  <2>3. NoneIsLost /\ OnceOnBoard
    BY <1>4, <2>1, <2>2 DEF NoneIsLost, OnceOnBoard
  <2>4. NotRecorded /\ Recorded
    BY <1>1, <2>1 DEF NotRecorded, Recorded
  <2> QED
    BY <1>3, <1>5, <1>6, <2>3, <2>4 DEF OnTheWay
<1>8. CASE Resumed # 0
  <2>0. PICK r: r = Resumed
    OBVIOUS
  <2>1. r \in 1..OldGames /\ gameId = r /\ stack = <<[n |-> r, end |-> "no"]>>
    BY <1>1, <1>8, <2>0, ResumedAssumption DEF Init
  <2>2. Len(stack) = 1 /\ stack[1].n = r
    BY <2>1
  <2>3. /\ 2 * r - 1 \in 1..(2 * OldGames) /\ 2 * r \in 1..(2 * OldGames)
        /\ (2 * r - 1 + 1) \div 2 = r /\ (2 * r - 1) % 2 = 1
        /\ (2 * r + 1) \div 2 = r /\ (2 * r) % 2 = 0 /\ (2 * r) \div 2 = r
    BY <1>1, <2>1
  <2>4. InRows(0) /\ InRows(r)
    <3>1. /\ rows[2 * r - 1].game = r /\ rows[2 * r - 1].n = 0
          /\ rows[2 * r].game = r /\ rows[2 * r].n = r
      BY <1>2, <2>3
    <3> QED
      BY <1>1, <2>1, <2>3, <3>1 DEF InRows
  <2>5. \A n \in Serials: InRows(n) => n = r
    <3> SUFFICES ASSUME NEW n \in Serials, NEW i \in 1..(2 * OldGames),
                        rows[i].game = r, rows[i].n = n
        PROVE  n = r
      BY <1>1, <2>1 DEF InRows
    <3>1. n # 0
      BY SerialNumbers
    <3>2. i % 2 # 1 /\ n = i \div 2 /\ (i + 1) \div 2 = r
      BY <1>2, <3>1
    <3> QED
      BY <2>1, <3>2
  <2>6. \A n: OnBoard(n) <=> n = r
    BY <2>2 DEF OnBoard
  <2>7. NoneIsLost
    BY <1>4, <2>4, <2>5, <2>6 DEF NoneIsLost
  <2>8. OnceOnBoard
    BY <1>1, <2>1, <2>2 DEF OnceOnBoard
  <2>9. NotRecorded /\ Recorded
    BY <1>1, <2>1, <2>4 DEF NotRecorded, Recorded
  <2> QED
    BY <1>3, <1>5, <1>6, <2>7, <2>8, <2>9 DEF OnTheWay
<1> QED
  BY <1>7, <1>8

\* The ends of games, and the worker after its write, move nothing on.
LEMMA WayUntouched ==
    ASSUME OnTheWay, UNCHANGED <<stack, pushed, rows, queue, mine>>,
           \A c \in Movers: pc'[c] = pc[c],
           CurrentGame' = CurrentGame, Len(games') = Len(games),
           CurrentGame < 0 => wpc' = "idle"
    PROVE  OnTheWay'
<1>1. OnceOnBoard' /\ OnceInHand' /\ OnceInQueue' /\ OnceInRows'
  BY DEF OnTheWay, OnceOnBoard, OnceInHand, OnceInQueue, OnceInRows
<1>2. \A n: /\ OnBoard(n) <=> OnBoard(n)'
            /\ InHand(n) <=> InHand(n)'
            /\ InQueue(n) <=> InQueue(n)'
            /\ InRows(n) <=> InRows(n)'
  BY DEF OnBoard, InHand, InQueue, InRows
<1>3. OnePlace' /\ NoneIsLost'
  BY <1>2 DEF OnTheWay, OnePlace, NoneIsLost
<1>4. NotRecorded' /\ Recorded'
  BY <1>2 DEF OnTheWay, NotRecorded, Recorded
<1>5. OnlyMoves' /\ RowsKnown'
  BY DEF OnTheWay, OnlyMoves, RowsKnown
<1> QED
  BY <1>1, <1>3, <1>4, <1>5 DEF OnTheWay

LEMMA WayByEndings ==
    ASSUME TypeOK, OnTheWay, "DbError" \notin Ops,
           \/ WorkerAssignId \/ WorkerEndStore \/ WorkerEndSet
           \/ EndFire \/ EndStore \/ EndSet \/ UNCHANGED vars
    PROVE  OnTheWay'
<1> USE DEF Goto, gameVars, dbVars, workerVars, callerVars
<1>0. \A c \in Movers: c \in Callers /\ c # Ender
  BY MoversAssumption DEF Callers, Ender
<1>1. CurrentGame < 0 => wpc = "idle"
  BY DEF OnTheWay, NotRecorded
<1>2. CASE WorkerAssignId
  <2>1. UNCHANGED <<stack, pushed, rows, queue, pc, mine, games>> /\ wpc = "persisted"
        /\ gameId' = newId /\ wpc' \in {"idle", "ending"}
    BY <1>2 DEF WorkerAssignId, AfterPersist
  <2>2. CurrentGame' = CurrentGame
    BY <2>1 DEF CurrentGame
  <2> QED
    BY <1>1, <2>1, <2>2, WayUntouched
<1>3. CASE WorkerEndStore
  <2>1. UNCHANGED <<stack, pushed, rows, queue, pc, mine, gameId, newId>>
        /\ wpc = "ending" /\ wpc' = "stored"
    BY <1>3 DEF WorkerEndStore
  <2>2. CurrentGame' = CurrentGame
    BY <2>1 DEF CurrentGame
  <2>3. EndResult(task) \in Results
    BY DEF EndResult, Results, Abandoned
  <2>4. Len(games') = Len(games)
    BY <1>3, <2>3, StoredResult DEF WorkerEndStore
  <2> QED
    BY <1>1, <2>1, <2>2, <2>4, WayUntouched
<1>4. CASE WorkerEndSet
  <2>1. UNCHANGED <<stack, pushed, rows, queue, pc, mine, gameId, newId, games>>
        /\ wpc = "stored" /\ wpc' = "idle"
    BY <1>4 DEF WorkerEndSet
  <2> QED
    BY <2>1, WayUntouched DEF CurrentGame
<1>5. CASE EndFire \/ EndSet
  <2>1. UNCHANGED <<stack, pushed, rows, queue, mine, gameId, newId, games, wpc>>
        /\ \A c \in Movers: pc'[c] = pc[c]
    BY <1>0, <1>5 DEF EndFire, EndSet, TypeOK
  <2> QED
    BY <1>1, <2>1, WayUntouched DEF CurrentGame
<1>6. CASE EndStore
  <2>1. UNCHANGED <<stack, pushed, rows, queue, mine, gameId, newId, wpc>>
        /\ \A c \in Movers: pc'[c] = pc[c]
    BY <1>0, <1>6 DEF EndStore, TypeOK
  <2>2. Len(games') = Len(games)
    BY <1>6, StoredResult, Members DEF EndStore
  <2> QED
    BY <1>1, <2>1, <2>2, WayUntouched DEF CurrentGame
<1>7. CASE UNCHANGED vars
  BY <1>1, <1>7, WayUntouched DEF vars, CurrentGame
<1> QED
  BY <1>2, <1>3, <1>4, <1>5, <1>6, <1>7

\* Two rows appended.
LEMMA TwoMore ==
    ASSUME NEW S, NEW s \in Seq(S), NEW a \in S, NEW b \in S
    PROVE  /\ Len(s \o <<a, b>>) = Len(s) + 2
           /\ (s \o <<a, b>>)[Len(s) + 1] = a /\ (s \o <<a, b>>)[Len(s) + 2] = b
           /\ \A i \in 1..Len(s): (s \o <<a, b>>)[i] = s[i]
<1>1. s \o <<a, b>> = Append(Append(s, a), b)
  OBVIOUS
<1>2. Append(s, a) \in Seq(S) /\ Len(s) \in Nat
  OBVIOUS
<1> QED
  BY <1>1, <1>2

\* The worker takes the oldest task.
LEMMA TaskTaken ==
    ASSUME TypeOK, OnTheWay, queue # <<>>, queue' = Tail(queue), NEW t, t = Head(queue)
    PROVE  /\ t \in Tasks /\ t.n \in Serials /\ Len(queue) >= 1 /\ t = queue[1]
           /\ OnceInQueue' /\ Len(queue') = Len(queue) - 1
           /\ \A j \in 1..Len(queue'): \E i \in 1..Len(queue): queue'[j] = queue[i]
           /\ \A n: InQueue(n) <=> n = t.n \/ InQueue(n)'
           /\ ~InQueue(t.n)'
<1>1. /\ t \in Tasks /\ Len(queue) \in Nat /\ Len(queue) >= 1 /\ t = queue[1]
      /\ Len(queue') = Len(queue) - 1
      /\ \A j \in 1..Len(queue'): queue'[j] = queue[j + 1] /\ j + 1 \in 1..Len(queue)
  BY WayTypes
<1>2. \A j \in 1..Len(queue'): \E i \in 1..Len(queue): queue'[j] = queue[i]
  BY <1>1
<1>3. \A i, j \in 1..Len(queue): queue[i].n = queue[j].n => i = j
  BY DEF OnTheWay, OnceInQueue
<1>4. OnceInQueue'
  <2> SUFFICES ASSUME NEW i \in 1..Len(queue'), NEW j \in 1..Len(queue'),
                      queue'[i].n = queue'[j].n
      PROVE  i = j
    BY DEF OnceInQueue
  <2>1. i + 1 = j + 1
    BY <1>1, <1>3
  <2> QED
    BY <1>1, <2>1
<1>5. \A n: InQueue(n) <=> n = t.n \/ InQueue(n)'
  <2>1. ASSUME NEW n, InQueue(n) PROVE n = t.n \/ InQueue(n)'
    <3>1. PICK i \in 1..Len(queue): queue[i].n = n
      BY <2>1 DEF InQueue
    <3>2. CASE i = 1
      BY <1>1, <3>1, <3>2
    <3>3. CASE i # 1
      <4>1. i - 1 \in 1..Len(queue') /\ (i - 1) + 1 = i
        BY <1>1, <3>1, <3>3
      <4>2. queue'[i - 1] = queue[i]
        BY <1>1, <4>1
      <4> QED
        BY <3>1, <4>1, <4>2 DEF InQueue
    <3> QED
      BY <3>2, <3>3
  <2>2. ASSUME NEW n, InQueue(n)' PROVE InQueue(n)
    BY <1>2, <2>2 DEF InQueue
  <2>3. InQueue(t.n)
    <3>1. 1 \in 1..Len(queue)
      BY <1>1
    <3> QED
      BY <1>1, <3>1 DEF InQueue
  <2> QED
    BY <2>1, <2>2, <2>3
<1>6. ~InQueue(t.n)'
  <2> SUFFICES ASSUME NEW j \in 1..Len(queue'), queue'[j].n = t.n PROVE FALSE
    BY DEF InQueue
  <2>1. j + 1 \in 1..Len(queue) /\ 1 \in 1..Len(queue) /\ queue[j + 1].n = queue[1].n
    BY <1>1
  <2>2. j + 1 = 1
    BY <1>3, <2>1
  <2> QED
    BY <2>2
<1>7. t.n \in Serials
  <2>1. InQueue(t.n)
    BY <1>5
  <2>2. t.n \in Serials \cup {0}
    BY <1>1, TaskFields
  <2>3. t.n # 0
    BY <2>1, <2>2, SerialNumbers DEF OnTheWay, OnePlace
  <2> QED
    BY <2>2, <2>3
<1> QED
  BY <1>1, <1>2, <1>4, <1>5, <1>6, <1>7

LEMMA WayByPersist ==
    ASSUME TypeOK, OnTheWay, WorkerPersist
    PROVE  OnTheWay'
<1>t. PICK t: t = Head(queue)
  OBVIOUS
<1>1. /\ wpc = "idle" /\ queue # <<>> /\ queue' = Tail(queue) /\ wpc' = "persisted"
      /\ PersistMove(t) /\ UNCHANGED <<stack, pushed, gameId, pc, mine>>
  BY <1>t DEF WorkerPersist, gameVars, callerVars
<1>2. CurrentGame = gameId /\ CurrentGame' = newId'
  BY <1>1 DEF CurrentGame
<1>3. /\ t \in Tasks /\ t.n \in Serials /\ Len(queue) >= 1 /\ t = queue[1]
      /\ OnceInQueue' /\ Len(queue') = Len(queue) - 1
      /\ \A j \in 1..Len(queue'): \E i \in 1..Len(queue): queue'[j] = queue[i]
      /\ \A n: InQueue(n) <=> n = t.n \/ InQueue(n)'
      /\ ~InQueue(t.n)'
  BY <1>t, <1>1, TaskTaken
<1>4. t.first \in BOOLEAN /\ t.n \in Nat /\ t.n # 0
  BY <1>3, TaskFields, SerialNumbers
<1>5. t.first <=> CurrentGame < 0
  <2>1. 1 \in 1..Len(queue)
    BY <1>3, WayTypes
  <2> QED
    BY <1>3, <2>1, WayTypes DEF OnTheWay, NotRecorded, Recorded
<1>6. OnceOnBoard' /\ OnceInHand' /\ OnlyMoves'
  BY <1>1 DEF OnTheWay, OnceOnBoard, OnceInHand, OnlyMoves
<1>7. \A n: (OnBoard(n) <=> OnBoard(n)') /\ (InHand(n) <=> InHand(n)')
  BY <1>1 DEF OnBoard, InHand
<1>8. ASSUME \A n \in Nat: InRows(n)' <=> n = t.n \/ InRows(n) \/ (t.first /\ n = 0),
             t.first => \A n \in Nat: ~InRows(n) /\ ~InHand(n)
      PROVE  OnePlace' /\ NoneIsLost'
  <2>1. OnePlace'
    BY <1>3, <1>4, <1>7, <1>8 DEF OnTheWay, OnePlace
  <2>2. \A n \in Serials: n \in Nat /\ n # 0
    BY SerialNumbers
  <2>3. NoneIsLost'
    BY <1>3, <1>7, <1>8, <2>2 DEF OnTheWay, NoneIsLost
  <2> QED
    BY <2>1, <2>3
<1>9. CASE t.first
  <2>g. PICK g: g = Len(games) + 1
    OBVIOUS
  <2> DEFINE a == [game |-> g, n |-> 0]
             b == [game |-> g, n |-> t.n]
             r == <<a, b>>
  <2>1. /\ Len(games') = g /\ newId' = g /\ rows' = rows \o r /\ g \in Nat
    <3>1. /\ games' = Append(games, NoResult) /\ newId' = Len(games')
          /\ rows' = rows \o <<[game |-> newId', n |-> 0], [game |-> newId', n |-> t.n]>>
      BY <1>1, <1>9 DEF PersistMove
    <3>2. Len(games') = g /\ g \in Nat
      BY <2>g, <3>1, WayTypes
    <3> QED
      BY <3>1, <3>2
  <2>f. a.game = g /\ a.n = 0 /\ b.game = g /\ b.n = t.n
    OBVIOUS
  <2> HIDE DEF a, b
  <2>2. /\ Len(rows') = Len(rows) + 2 /\ rows'[Len(rows) + 1] = a /\ rows'[Len(rows) + 2] = b
        /\ \A i \in 1..Len(rows): rows'[i] = rows[i]
    <3>1. rows \in Seq(Rows) /\ g \in Nat /\ t.n \in Serials \cup {0}
      BY <1>3, <2>1, WayTypes
    <3>2. a \in Rows /\ b \in Rows
      BY <3>1 DEF a, b, Rows
    <3> QED
      BY <2>1, <3>1, <3>2, TwoMore
  <2>3. \A i \in 1..Len(rows'):
          \/ i \in 1..Len(rows) /\ rows'[i] = rows[i]
             /\ rows'[i].game \in Nat /\ rows'[i].game < g
          \/ i = Len(rows) + 1 /\ rows'[i].game = g /\ rows'[i].n = 0
          \/ i = Len(rows) + 2 /\ rows'[i].game = g /\ rows'[i].n = t.n
    <3> SUFFICES ASSUME NEW i \in 1..Len(rows') PROVE
          \/ i \in 1..Len(rows) /\ rows'[i] = rows[i]
             /\ rows'[i].game \in Nat /\ rows'[i].game < g
          \/ i = Len(rows) + 1 /\ rows'[i].game = g /\ rows'[i].n = 0
          \/ i = Len(rows) + 2 /\ rows'[i].game = g /\ rows'[i].n = t.n
      OBVIOUS
    <3>1. i \in 1..Len(rows) \/ i = Len(rows) + 1 \/ i = Len(rows) + 2
      BY <2>2, WayTypes
    <3>2. CASE i \in 1..Len(rows)
      <4>1. rows[i].game <= Len(games) /\ rows[i].game \in Nat
        BY <3>2, WayTypes DEF OnTheWay, RowsKnown
      <4> QED
        BY <2>2, <2>g, <3>2, <4>1, WayTypes
    <3> QED
      BY <2>2, <2>f, <3>1, <3>2
  <2>4. /\ CurrentGame < 0 /\ Len(queue') = 0 /\ \A c \in Movers: pc[c] = "idle"
    BY <1>3, <1>5, <1>9, WayTypes DEF OnTheWay, NotRecorded
  <2>5. \A n: ~InHand(n) /\ ~InRows(n)
    BY <2>4, WayTypes DEF InHand, InRows
  <2>6. Len(rows) + 1 \in 1..Len(rows') /\ Len(rows) + 2 \in 1..Len(rows')
    BY <2>2, WayTypes
  <2>7. \A n: InRows(n)' <=> n = 0 \/ n = t.n
    <3>1. CurrentGame' = g
      BY <1>2, <2>1
    <3>2. InRows(0)' /\ InRows(t.n)'
      BY <2>2, <2>6, <2>f, <3>1 DEF InRows
    <3>3. ASSUME NEW n, InRows(n)' PROVE n = 0 \/ n = t.n
      <4>1. PICK i \in 1..Len(rows'): rows'[i].game = g /\ rows'[i].n = n
        BY <3>1, <3>3 DEF InRows
      <4> QED
        BY <2>1, <2>3, <4>1
    <3> QED
      BY <3>2, <3>3
  <2>8. OnePlace' /\ NoneIsLost'
    BY <1>8, <1>9, <2>5, <2>7
  <2>9. OnceInRows'
    <3>1. CurrentGame' = g
      BY <1>2, <2>1
    <3>2. \A i \in 1..Len(rows'): rows'[i].game = g =>
             \/ i = Len(rows) + 1 /\ rows'[i].n = 0
             \/ i = Len(rows) + 2 /\ rows'[i].n = t.n
      BY <2>1, <2>3
    <3> QED
      BY <1>4, <3>1, <3>2 DEF OnceInRows
  <2>10. NotRecorded' /\ Recorded'
    <3>1. CurrentGame' = g /\ ~(g < 0) /\ InRows(0)'
      BY <1>2, <2>1, <2>7
    <3>2. ~ \E i \in 1..Len(queue'): TRUE
      BY <2>4
    <3> QED
      BY <1>1, <2>4, <3>1, <3>2 DEF NotRecorded, Recorded
  <2>11. RowsKnown'
    <3>1. \A i \in 1..Len(rows'): rows'[i].game \in Nat /\ rows'[i].game <= g
      BY <2>1, <2>3
    <3> QED
      BY <2>1, <3>1 DEF RowsKnown
  <2> QED
    BY <1>3, <1>6, <2>8, <2>9, <2>10, <2>11 DEF OnTheWay
<1>10. CASE ~t.first
  <2>g. PICK g: g = gameId
    OBVIOUS
  <2> DEFINE b == [game |-> g, n |-> t.n]
  <2>1. g >= 0 /\ g \in Int /\ CurrentGame = g
    BY <1>2, <1>5, <1>10, <2>g, WayTypes
  <2>2. newId' = g /\ rows' = Append(rows, b) /\ games' = games
    BY <1>1, <1>10, <2>g, <2>1 DEF PersistMove
  <2>f. b.game = g /\ b.n = t.n
    OBVIOUS
  <2> HIDE DEF b
  <2>3. /\ Len(rows') = Len(rows) + 1 /\ rows'[Len(rows) + 1] = b
        /\ \A i \in 1..Len(rows): rows'[i] = rows[i]
    BY <2>2, WayTypes
  <2>4. \A i \in 1..Len(rows'):
          (i \in 1..Len(rows) /\ rows'[i] = rows[i]) \/ (i = Len(rows) + 1 /\ rows'[i] = b)
    BY <2>3, WayTypes
  <2>5. Len(rows) + 1 \in 1..Len(rows') /\ \A i \in 1..Len(rows): i \in 1..Len(rows')
    BY <2>3, WayTypes
  <2>6. CurrentGame' = g
    BY <1>2, <2>2
  <2>7. \A n: InRows(n)' <=> n = t.n \/ InRows(n)
    BY <2>1, <2>3, <2>4, <2>5, <2>6, <2>f DEF InRows
  <2>8. OnePlace' /\ NoneIsLost'
    BY <1>8, <1>10, <2>7
  <2>9. ~InRows(t.n)
    BY <1>3, <1>4 DEF OnTheWay, OnePlace
  <2>10. \A i \in 1..Len(rows): rows[i].game = g => rows[i].n # t.n
    BY <2>1, <2>9 DEF InRows
  <2>11. OnceInRows'
    <3> SUFFICES ASSUME NEW i \in 1..Len(rows'), NEW j \in 1..Len(rows'),
                        rows'[i].game = g, rows'[j].game = g, rows'[i].n = rows'[j].n
        PROVE  i = j
      BY <2>6 DEF OnceInRows
    <3>1. CASE i \in 1..Len(rows) /\ j \in 1..Len(rows)
      BY <2>1, <2>3, <3>1 DEF OnTheWay, OnceInRows
    <3> QED
      BY <2>4, <2>10, <2>f, <3>1
  <2>12. NotRecorded'
    BY <2>1, <2>6 DEF NotRecorded
  <2>13. Recorded'
    <3>1. /\ InRows(0) /\ \A i \in 1..Len(queue): ~queue[i].first
          /\ \A c \in Movers: pc[c] # "idle" => ~mine[c].task.first
      BY <2>1 DEF OnTheWay, Recorded
    <3>2. \A i \in 1..Len(queue'): ~queue'[i].first
      BY <1>3, <3>1
    <3> QED
      BY <1>1, <2>7, <3>1, <3>2 DEF Recorded
  <2>14. RowsKnown'
    <3>1. g <= Len(games)
      BY <2>1, <2>g DEF TypeOK, GameIds, NoGame
    <3> QED
      BY <2>2, <2>4, <2>f, <3>1 DEF OnTheWay, RowsKnown
  <2> QED
    BY <1>3, <1>6, <2>8, <2>11, <2>12, <2>13, <2>14 DEF OnTheWay
<1> QED
  BY <1>4, <1>9, <1>10

\* A mover enters or leaves the guard: nothing is pushed yet.
LEMMA WayByGuard ==
    ASSUME TypeOK, OnTheWay, NEW c \in Movers, MoveCheck(c) \/ MoveStale(c),
           "FirstMove" \notin AheadOfWorker \cup AmidCallers
    PROVE  OnTheWay'
<1> USE DEF gameVars, dbVars, workerVars
<1>0. PICK labels: /\ mine \in [Movers -> Locals] /\ pc \in [Callers -> labels]
                   /\ \A d \in Movers: d \in Callers
  BY DEF TypeOK, Callers
<1>1. /\ UNCHANGED <<stack, pushed, rows, queue, gameId, newId, games, wpc>>
      /\ pc[c] # "pushed" /\ pc'[c] \in {"idle", "checked"}
      /\ \A d \in Movers: d # c => pc'[d] = pc[d] /\ mine'[d] = mine[d]
  <2>1. CASE MoveCheck(c)
    BY <1>0, <2>1 DEF MoveCheck, Begin, Goto
  <2>2. CASE MoveStale(c)
    BY <1>0, <2>2 DEF MoveStale, Goto
  <2> QED
    BY <2>1, <2>2
<1>2. CurrentGame' = CurrentGame
  BY <1>1 DEF CurrentGame
<1>3. \A d \in Movers: (pc'[d] = "pushed" <=> pc[d] = "pushed")
                       /\ (pc[d] = "pushed" => mine'[d] = mine[d])
  BY <1>1
<1>4. OnceOnBoard' /\ OnceInHand' /\ OnceInQueue' /\ OnceInRows' /\ OnlyMoves' /\ RowsKnown'
  BY <1>1, <1>2, <1>3
  DEF OnTheWay, OnceOnBoard, OnceInHand, OnceInQueue, OnceInRows, OnlyMoves, RowsKnown
<1>5. \A n: /\ OnBoard(n) <=> OnBoard(n)'
            /\ InHand(n) <=> InHand(n)'
            /\ InQueue(n) <=> InQueue(n)'
            /\ InRows(n) <=> InRows(n)'
  BY <1>1, <1>2, <1>3 DEF OnBoard, InHand, InQueue, InRows
<1>6. OnePlace' /\ NoneIsLost'
  BY <1>5 DEF OnTheWay, OnePlace, NoneIsLost
<1>7. NotRecorded' /\ Recorded'
  <2>1. CASE MoveCheck(c)
    <3>1. /\ pc[c] = "idle" /\ pc'[c] = "checked"
          /\ mine'[c].task.first = (gameId < 0)
          /\ gameId < 0 => WorkerIdle /\ \A d \in Movers: pc[d] = "idle"
      <4>1. mine'[c].task = Task(0, "no", gameId < 0)
        BY <1>0, <2>1 DEF MoveCheck
      <4>2. mine'[c].task.first = (gameId < 0)
        BY <4>1 DEF Task
      <4> QED
        BY <1>0, <2>1, <4>2 DEF MoveCheck, Begin, MoveName, CallersIdle, Goto
    <3>2. CASE gameId < 0
      <4>1. wpc = "idle" /\ queue = <<>> /\ CurrentGame < 0 /\ Len(queue) = 0
        BY <3>1, <3>2 DEF WorkerIdle, CurrentGame
      <4>2. NotRecorded'
        <5>1. mine'[c].task.first
          BY <3>1, <3>2
        <5>2. \A d \in Movers: d # c => pc'[d] = "idle"
          BY <1>1, <3>1, <3>2
        <5>3. Len(queue') <= 1 /\ ~ \E i \in 1..Len(queue'): TRUE
          BY <1>1, <4>1
        <5> QED
          BY <1>1, <4>1, <5>1, <5>2, <5>3 DEF NotRecorded
      <4>3. ~(CurrentGame' >= 0)
        BY <1>2, <4>1, WayTypes
      <4> QED
        BY <4>2, <4>3 DEF Recorded
    <3>3. CASE ~(gameId < 0)
      <4>1. ~(CurrentGame < 0)
        <5>1. CASE wpc = "persisted"
          BY <5>1 DEF OnTheWay, NotRecorded
        <5>2. CASE wpc # "persisted"
          BY <3>3, <5>2 DEF CurrentGame
        <5> QED
          BY <5>1, <5>2
      <4>2. CurrentGame >= 0
        BY <4>1, WayTypes
      <4>3. /\ InRows(0) /\ \A i \in 1..Len(queue): ~queue[i].first
            /\ \A d \in Movers: pc[d] # "idle" => ~mine[d].task.first
        BY <4>2 DEF OnTheWay, Recorded
      <4>4. \A d \in Movers: pc'[d] # "idle" => ~mine'[d].task.first
        BY <1>1, <3>1, <3>3, <4>3
      <4>5. Recorded'
        BY <1>1, <1>5, <4>3, <4>4 DEF Recorded
      <4> QED
        BY <1>2, <4>1, <4>5 DEF NotRecorded
    <3> QED
      BY <3>2, <3>3
  <2>2. CASE MoveStale(c)
    <3>1. pc'[c] = "idle"
      BY <1>0, <2>2 DEF MoveStale, Goto
    <3>2. \A d \in Movers: pc'[d] # "idle" => d # c /\ pc[d] # "idle" /\ mine'[d] = mine[d]
      BY <1>1, <3>1
    <3>3. \A d \in Movers: pc[d] = "idle" => pc'[d] = "idle"
      BY <1>1, <3>1
    <3>4. NotRecorded'
      BY <1>1, <1>2, <3>2, <3>3 DEF OnTheWay, NotRecorded
    <3>5. Recorded'
      BY <1>1, <1>2, <1>5, <3>2 DEF OnTheWay, Recorded
    <3> QED
      BY <3>4, <3>5
  <2> QED
    BY <2>1, <2>2
<1> QED
  BY <1>4, <1>6, <1>7 DEF OnTheWay

\* A mover pushes its move, which is a new one.
LEMMA WayByPush ==
    ASSUME TypeOK, OnTheWay, NEW c \in Movers, NEW end \in Endings, MovePush(c, end)
    PROVE  OnTheWay'
<1> USE DEF gameVars, dbVars, workerVars
<1>0. PICK labels: /\ mine \in [Movers -> Locals] /\ pc \in [Callers -> labels]
                   /\ \A d \in Movers: d \in Callers
  BY DEF TypeOK, Callers
<1>k. PICK k: k = pushed + 1
  OBVIOUS
<1>1. /\ UNCHANGED <<rows, queue, gameId, newId, games, wpc>>
      /\ pc[c] = "checked" /\ pc'[c] = "pushed" /\ pushed' = k /\ pushed < LastSerial
      /\ stack' = Append(stack, [n |-> k, end |-> end])
      /\ mine'[c].task = Task(k, end, mine[c].task.first)
      /\ \A d \in Movers: d # c => pc'[d] = pc[d] /\ mine'[d] = mine[d]
  BY <1>0, <1>k DEF MovePush, Goto
<1>2. mine'[c].task.n = k /\ mine'[c].task.first = mine[c].task.first
  BY <1>1 DEF Task
<1>3. k \in Serials /\ k \in Nat /\ pushed \in Nat /\ k > pushed
  BY <1>k, <1>1, WayTypes, SerialNumbers DEF Serials
<1>4. /\ Len(stack) \in Nat /\ Len(stack') = Len(stack) + 1 /\ stack'[Len(stack) + 1].n = k
      /\ \A i \in 1..Len(stack): stack'[i] = stack[i]
  <2> DEFINE m == [n |-> k, end |-> end]
  <2>1. m.n = k
    OBVIOUS
  <2>2. stack' = Append(stack, m) /\ stack \in Seq(Moves)
    BY <1>1, WayTypes
  <2> HIDE DEF m
  <2> QED
    BY <2>1, <2>2
<1>5. \A i \in 1..Len(stack'): i \in 1..Len(stack) \/ i = Len(stack) + 1
  BY <1>4
<1>6. CurrentGame' = CurrentGame
  BY <1>1 DEF CurrentGame
<1>7. \A n: /\ OnBoard(n)' <=> OnBoard(n) \/ n = k
            /\ InHand(n)' <=> InHand(n) \/ n = k
            /\ InQueue(n)' <=> InQueue(n)
            /\ InRows(n)' <=> InRows(n)
  <2>1. \A n: OnBoard(n)' <=> OnBoard(n) \/ n = k
    <3>1. Len(stack) + 1 \in 1..Len(stack') /\ \A i \in 1..Len(stack): i \in 1..Len(stack')
      BY <1>4
    <3> QED
      BY <1>4, <1>5, <3>1 DEF OnBoard
  <2>2. \A n: InHand(n)' <=> InHand(n) \/ n = k
    BY <1>1, <1>2 DEF InHand
  <2>3. \A n: (InQueue(n)' <=> InQueue(n)) /\ (InRows(n)' <=> InRows(n))
    BY <1>1, <1>6 DEF InQueue, InRows
  <2> QED
    BY <2>1, <2>2, <2>3
<1>8. ~OnBoard(k) /\ ~InHand(k) /\ ~InQueue(k) /\ ~InRows(k)
  <2>1. \A i \in 1..Len(stack): stack[i].n \in Nat /\ stack[i].n <= pushed
    BY WayTypes, SerialNumbers DEF OnTheWay, OnceOnBoard
  <2>2. ~OnBoard(k)
    BY <1>3, <2>1 DEF OnBoard
  <2> QED
    BY <1>3, <2>2 DEF OnTheWay, NoneIsLost
<1>9. OnceOnBoard'
  <2>1. \A i \in 1..Len(stack): stack[i].n \in Nat /\ stack[i].n <= pushed
    BY WayTypes, SerialNumbers DEF OnTheWay, OnceOnBoard
  <2>2. \A i \in 1..Len(stack'): stack'[i].n <= pushed'
    BY <1>1, <1>3, <1>4, <1>5, <2>1
  <2>3. \A i \in 1..Len(stack): stack'[i].n # k
    BY <1>3, <1>4, <2>1
  <2>4. \A i, j \in 1..Len(stack'): stack'[i].n = stack'[j].n => i = j
    BY <1>4, <1>5, <2>3 DEF OnTheWay, OnceOnBoard
  <2> QED
    BY <2>2, <2>4 DEF OnceOnBoard
<1>10. OnceInHand'
  <2> SUFFICES ASSUME NEW d \in Movers, NEW f \in Movers, pc'[d] = "pushed", pc'[f] = "pushed",
                      mine'[d].task.n = mine'[f].task.n
      PROVE  d = f
    BY DEF OnceInHand
  <2>1. \A g \in Movers: g # c /\ pc'[g] = "pushed" => mine'[g].task.n # k
    BY <1>1, <1>8 DEF InHand
  <2>2. CASE d = c \/ f = c
    BY <1>2, <2>1, <2>2
  <2>3. CASE d # c /\ f # c
    BY <1>1, <2>3 DEF OnTheWay, OnceInHand
  <2> QED
    BY <2>2, <2>3
<1>11. OnceInQueue' /\ OnceInRows' /\ RowsKnown' /\ OnlyMoves'
  BY <1>1, <1>6 DEF OnTheWay, OnceInQueue, OnceInRows, RowsKnown, OnlyMoves
<1>12. OnePlace'
  BY <1>3, <1>7, <1>8 DEF OnTheWay, OnePlace
<1>13. NoneIsLost'
  BY <1>7 DEF OnTheWay, NoneIsLost
<1>14. \A d \in Movers: /\ pc'[d] # "idle" <=> pc[d] # "idle"
                        /\ mine'[d].task.first = mine[d].task.first
  BY <1>1, <1>2
<1>15. NotRecorded' /\ Recorded'
  BY <1>1, <1>6, <1>7, <1>14 DEF OnTheWay, NotRecorded, Recorded
<1> QED
  BY <1>9, <1>10, <1>11, <1>12, <1>13, <1>15 DEF OnTheWay

\* It submits the task and is done with it.
LEMMA WayByEnqueue ==
    ASSUME TypeOK, OnTheWay, NEW c \in Movers, MoveEnqueue(c)
    PROVE  OnTheWay'
<1> USE DEF gameVars, dbVars, workerVars
<1>0. PICK labels: /\ mine \in [Movers -> Locals] /\ pc \in [Callers -> labels]
                   /\ \A d \in Movers: d \in Callers
  BY DEF TypeOK, Callers
<1>t. PICK t: t = mine[c].task
  OBVIOUS
<1>1. /\ UNCHANGED <<stack, pushed, rows, gameId, newId, games, wpc>>
      /\ pc[c] = "pushed" /\ pc'[c] = "idle" /\ queue' = Append(queue, t)
      /\ \A d \in Movers: d # c => pc'[d] = pc[d] /\ mine'[d] = mine[d]
  BY <1>0, <1>t DEF MoveEnqueue, Goto
<1>2. /\ Len(queue) \in Nat /\ Len(queue') = Len(queue) + 1 /\ queue'[Len(queue) + 1] = t
      /\ \A i \in 1..Len(queue): queue'[i] = queue[i]
  BY <1>1, WayTypes
<1>3. \A i \in 1..Len(queue'): i \in 1..Len(queue) \/ i = Len(queue) + 1
  BY <1>2
<1>4. CurrentGame' = CurrentGame
  BY <1>1 DEF CurrentGame
<1>5. InHand(t.n) /\ t.n \in Nat
  <2>1. t.n \in Serials \cup {0}
    BY <1>t, WayTypes
  <2> QED
    BY <1>t, <1>1, <2>1, SerialNumbers DEF InHand
<1>6. t.n # 0 /\ ~InQueue(t.n) /\ ~InRows(t.n)
  BY <1>5 DEF OnTheWay, OnePlace
<1>7. \A n: /\ OnBoard(n)' <=> OnBoard(n)
            /\ InHand(n)' <=> InHand(n) /\ n # t.n
            /\ InQueue(n)' <=> InQueue(n) \/ n = t.n
            /\ InRows(n)' <=> InRows(n)
  <2>1. \A n: (OnBoard(n)' <=> OnBoard(n)) /\ (InRows(n)' <=> InRows(n))
    BY <1>1, <1>4 DEF OnBoard, InRows
  <2>2. \A n: InHand(n)' <=> InHand(n) /\ n # t.n
    BY <1>t, <1>1 DEF InHand, OnTheWay, OnceInHand
  <2>3. \A n: InQueue(n)' <=> InQueue(n) \/ n = t.n
    <3>1. Len(queue) + 1 \in 1..Len(queue') /\ \A i \in 1..Len(queue): i \in 1..Len(queue')
      BY <1>2
    <3> QED
      BY <1>2, <1>3, <3>1 DEF InQueue
  <2> QED
    BY <2>1, <2>2, <2>3
<1>8. OnceOnBoard' /\ OnceInRows' /\ RowsKnown' /\ OnlyMoves'
  BY <1>1, <1>4 DEF OnTheWay, OnceOnBoard, OnceInRows, RowsKnown, OnlyMoves
<1>9. OnceInHand'
  BY <1>1 DEF OnTheWay, OnceInHand
<1>10. OnceInQueue'
  <2>1. \A i \in 1..Len(queue): queue'[i].n # t.n
    BY <1>2, <1>6 DEF InQueue
  <2> QED
    BY <1>2, <1>3, <2>1 DEF OnTheWay, OnceInQueue
<1>11. OnePlace' /\ NoneIsLost'
  BY <1>5, <1>6, <1>7 DEF OnTheWay, OnePlace, NoneIsLost
<1>12. NotRecorded'
  <2> SUFFICES ASSUME CurrentGame < 0 PROVE NotRecorded'
    BY <1>4 DEF NotRecorded
  <2>1. /\ wpc = "idle" /\ Len(queue) = 0 /\ mine[c].task.first
        /\ \A d \in Movers: d # c => pc[d] = "idle"
    BY <1>1 DEF OnTheWay, NotRecorded
  <2>2. Len(queue') <= 1 /\ \A i \in 1..Len(queue'): queue'[i] = t
    BY <1>2, <2>1
  <2>3. \A d \in Movers: pc'[d] = "idle"
    BY <1>1, <2>1
  <2> QED
    BY <1>t, <1>1, <2>1, <2>2, <2>3 DEF NotRecorded
<1>13. Recorded'
  <2> SUFFICES ASSUME CurrentGame >= 0 PROVE Recorded'
    BY <1>4 DEF Recorded
  <2>1. /\ InRows(0) /\ \A i \in 1..Len(queue): ~queue[i].first
        /\ \A d \in Movers: pc[d] # "idle" => ~mine[d].task.first
    BY DEF OnTheWay, Recorded
  <2>2. \A i \in 1..Len(queue'): ~queue'[i].first
    BY <1>t, <1>1, <1>2, <1>3, <2>1
  <2>3. \A d \in Movers: pc'[d] # "idle" => ~mine'[d].task.first
    BY <1>1, <2>1
  <2> QED
    BY <1>7, <2>1, <2>2, <2>3 DEF Recorded
<1> QED
  BY <1>8, <1>9, <1>10, <1>11, <1>12, <1>13 DEF OnTheWay

\* A map that meets every value, each once.
LEMMA OneToOne ==
    ASSUME NEW S, NEW T, NEW f \in [S -> T],
           \A i, j \in S: f[i] = f[j] => i = j, \A t \in T: \E i \in S: f[i] = t
    PROVE  f \in Bijection(S, T)
BY DEF Bijection, Injection, Surjection, IsInjective

\* However many threads move, and whichever game is resumed: as long as moves are not taken
\* back and the game is not left, a first move is made on its own and no write fails, every
\* move on the board is stored once in its game when nothing is in progress, and no other
\* is (execute_complete_move, _enqueue_post_move_tasks).
THEOREM EveryMoveIsRecorded ==
    ASSUME Ops \cap {"Takeback", "Reset", "Setup", "DbError"} = {},
           "FirstMove" \notin AheadOfWorker \cup AmidCallers
    PROVE  Spec => []RecordHasEveryMove
<1>1. TypeOK /\ OnTheWay /\ [Next]_vars => OnTheWay'
  <2> SUFFICES ASSUME TypeOK, OnTheWay, [Next]_vars PROVE OnTheWay'
    OBVIOUS
  <2>1. CASE Worker
    BY <2>1, WayByPersist, WayByEndings DEF Worker, WorkerPersistFails
  <2>2. CASE EndGame \/ UNCHANGED vars
    BY <2>2, WayByEndings DEF EndGame
  <2>3. ASSUME NEW c \in Movers, Mover(c) PROVE OnTheWay'
    <3>1. pc[c] \in {"idle", "checked", "pushed"}
      BY DEF OnTheWay, OnlyMoves
    <3>2. CASE MoveCheck(c) \/ MoveStale(c)
      BY <3>2, WayByGuard
    <3>3. CASE \E end \in Endings: MovePush(c, end)
      BY <3>3, WayByPush
    <3>4. CASE MoveEnqueue(c)
      BY <3>4, WayByEnqueue
    <3>5. CASE \/ TakebackDelete(c) \/ TakebackClear(c) \/ TakebackPop(c)
               \/ TakebackFails(c)
               \/ ResetAbandon(c) \/ ResetState(c) \/ ResetId(c) \/ Setup(c)
      BY <3>1, <3>5
      DEF TakebackDelete, TakebackFails, TakebackClear, TakebackPop, ResetAbandon, ResetState, ResetId, Setup,
          Begin
    <3> QED
      BY <2>3, <3>2, <3>3, <3>4, <3>5 DEF Mover
  <2> QED
    BY <2>1, <2>2, <2>3 DEF Next
<1>2. TypeOK /\ OnTheWay => RecordHasEveryMove
  <2> SUFFICES ASSUME TypeOK, OnTheWay, Quiescent, gameId >= 0
      PROVE  /\ Cardinality(RowsOf(gameId)) = Len(stack) + 1
             /\ {rows[i].n: i \in RowsOf(gameId)} = {0} \cup {stack[i].n: i \in DOMAIN stack}
    BY DEF RecordHasEveryMove
  <2>1. /\ CurrentGame = gameId
        /\ \A n: ~InHand(n) /\ ~InQueue(n)
    BY DEF Quiescent, WorkerIdle, CallersIdle, Callers, CurrentGame, InHand, InQueue
  <2>2. DOMAIN rows = 1..Len(rows) /\ DOMAIN stack = 1..Len(stack) /\ Len(stack) \in Nat
    BY WayTypes
  <2> DEFINE B == {stack[i].n: i \in DOMAIN stack}
             R == RowsOf(gameId)
  <2>3. \A n: n \in B <=> OnBoard(n)
    BY <2>2 DEF OnBoard
  <2>4. \A n: InRows(n) <=> \E i \in R: rows[i].n = n
    BY <2>1, <2>2 DEF InRows, RowsOf
  <2>5. B \subseteq Serials
    BY <2>2, WayTypes
  <2>6. \A i \in R: rows[i].n \in Serials \cup {0}
    BY <2>2, WayTypes DEF RowsOf
  <2>7. InRows(0)
    BY <2>1 DEF OnTheWay, Recorded
  <2>8. \A n \in Serials: n \in B <=> InRows(n)
    BY <2>1, <2>3 DEF OnTheWay, NoneIsLost
  <2>9. {rows[i].n: i \in R} = {0} \cup B
    <3>1. \A i \in R: rows[i].n \in {0} \cup B
      BY <2>4, <2>6, <2>8
    <3>2. \A n \in {0} \cup B: \E i \in R: rows[i].n = n
      BY <2>4, <2>5, <2>7, <2>8
    <3> HIDE DEF B, R
    <3> QED
      BY <3>1, <3>2
  <2>10. Cardinality(B) = Len(stack) /\ IsFiniteSet(B)
    <3> DEFINE f == [i \in 1..Len(stack) |-> stack[i].n]
    <3>1. f \in Bijection(1..Len(stack), B)
      <4>1. f \in [1..Len(stack) -> B]
        BY <2>2
      <4>2. \A i, j \in 1..Len(stack): f[i] = f[j] => i = j
        BY DEF OnTheWay, OnceOnBoard
      <4>3. \A b \in B: \E i \in 1..Len(stack): f[i] = b
        BY <2>2
      <4> HIDE DEF f, B
      <4> QED
        BY <4>1, <4>2, <4>3, OneToOne
    <3>2. IsFiniteSet(1..Len(stack)) /\ Cardinality(1..Len(stack)) = Len(stack)
      <4>1. PICK k \in Nat: k = Len(stack)
        BY <2>2
      <4>2. IsFiniteSet(1..k) /\ Cardinality(1..k) = k
        BY FS_Interval
      <4> QED
        BY <4>1, <4>2
    <3> HIDE DEF f, B
    <3> QED
      BY <3>1, <3>2, FS_Bijection DEF ExistsBijection
  <2>11. 0 \notin B
    BY <2>5, SerialNumbers
  <2>12. IsFiniteSet({0} \cup B) /\ Cardinality({0} \cup B) = Len(stack) + 1
    <3> HIDE DEF B
    <3>1. B \cup {0} = {0} \cup B
      OBVIOUS
    <3> QED
      BY <2>10, <2>11, <3>1, FS_AddElement
  <2>13. Cardinality(R) = Cardinality({0} \cup B)
    <3> DEFINE f == [i \in R |-> rows[i].n]
    <3>1. f \in Bijection(R, {0} \cup B)
      <4>1. f \in [R -> {0} \cup B]
        BY <2>9
      <4>2. \A i, j \in R: f[i] = f[j] => i = j
        BY <2>1, <2>2 DEF OnTheWay, OnceInRows, RowsOf
      <4>3. \A b \in {0} \cup B: \E i \in R: f[i] = b
        BY <2>9
      <4> HIDE DEF f, B, R
      <4> QED
        BY <4>1, <4>2, <4>3, OneToOne
    <3>2. IsFiniteSet(R) /\ R \subseteq 1..Len(rows)
      <4>1. R \subseteq 1..Len(rows)
        BY <2>2, WayTypes DEF RowsOf
      <4>2. PICK k \in Nat: k = Len(rows)
        BY WayTypes
      <4>3. IsFiniteSet(1..k)
        BY FS_Interval
      <4> HIDE DEF R
      <4> QED
        BY <4>1, <4>2, <4>3, FS_Subset
    <3> HIDE DEF f, B, R
    <3> QED
      BY <3>1, <3>2, FS_Bijection DEF ExistsBijection
  <2> QED
    BY <2>9, <2>12, <2>13
<1> QED
  BY <1>1, <1>2, WayInit, TypeCorrect, PTL DEF Spec
=============================================================================
