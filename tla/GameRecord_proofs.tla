--------------------------- MODULE GameRecord_proofs ---------------------------
(***************************************************************************)
(* Proofs about GameRecord.  Type correctness holds for any set of movers; *)
(* the order of the rows for movers that take turns: a single one, which   *)
(* the thread of the physical board is when the web board does not lead,   *)
(* or several of which each begins a move when no other is in one.         *)
(***************************************************************************)
EXTENDS GameRecord, SequenceTheorems, TLAPS

-----------------------------------------------------------------------------
\* What the records and results the actions build belong to.
LEMMA Members ==
    /\ NoResult \in Results /\ Abandoned \in Results
    /\ "mate" \in Results /\ "ended" \in Results
    /\ NoTask \in Tasks /\ NoMove \in Locals
    /\ \A n \in Serials \cup {0}, end \in Endings, first \in BOOLEAN:
           Task(n, end, first) \in Tasks
    /\ \A n \in Serials, end \in Endings: [n |-> n, end |-> end] \in Moves
    /\ \A g \in Nat, n \in Serials \cup {0}: [game |-> g, n |-> n] \in Rows
    /\ \A t \in Tasks, p \in Nat: [task |-> t, ply |-> p] \in Locals
BY DEF NoResult, Abandoned, Results, NoTask, NoMove, Locals, Tasks, Task,
       Endings, Moves, Rows

LEMMA TaskFields ==
    ASSUME NEW t \in Tasks
    PROVE  /\ t.n \in Serials \cup {0}
           /\ t.first \in BOOLEAN
           /\ EndResult(t) \in Results
BY Members DEF Tasks, EndResult

LEMMA SerialNumbers == /\ Serials \subseteq Nat \ {0} /\ LastSerial \in Nat
                       /\ \A n \in Serials \cup {0}: n \in Nat
BY OldGamesAssumption, MaxMovesAssumption DEF Serials, LastSerial

\* A write to the result column, and the sequence left by dropping the last row
\* or move.
LEMMA SetResult ==
    ASSUME games \in Seq(Results), NEW g \in 1..Len(games), NEW r \in Results
    PROVE  /\ [games EXCEPT ![g] = r] \in Seq(Results)
           /\ Len([games EXCEPT ![g] = r]) = Len(games)
BY ExceptSeq

LEMMA DropLast ==
    ASSUME NEW S, NEW s \in Seq(S), s # <<>>
    PROVE  /\ SubSeq(s, 1, Len(s) - 1) \in Seq(S)
           /\ Len(SubSeq(s, 1, Len(s) - 1)) = Len(s) - 1
           /\ \A i \in 1..(Len(s) - 1): SubSeq(s, 1, Len(s) - 1)[i] = s[i]
<1> DEFINE k == Len(s) - 1
<1>1. k \in Nat
    OBVIOUS
<1>2. \A i \in 1..k: s[i] \in S
    OBVIOUS
<1> HIDE DEF k
<1>3. /\ SubSeq(s, 1, k) \in Seq(S)
      /\ Len(SubSeq(s, 1, k)) = IF 1 <= k THEN k - 1 + 1 ELSE 0
      /\ \A i \in 1..(k - 1 + 1): SubSeq(s, 1, k)[i] = s[1 + i - 1]
    BY <1>1, <1>2, SubSeqProperties
<1>4. /\ SubSeq(s, 1, k) \in Seq(S)
      /\ Len(SubSeq(s, 1, k)) = k
      /\ \A i \in 1..k: SubSeq(s, 1, k)[i] = s[i]
    BY <1>1, <1>3
<1> QED BY <1>4 DEF k

LEMMA StoredResult ==
    ASSUME TypeOK, NEW r \in Results, StoreResult(r)
    PROVE  games' \in Seq(Results) /\ Len(games') = Len(games)
<1>1. CASE games' = games
  BY <1>1 DEF TypeOK
<1>2. CASE gameId >= 0 /\ games' = [games EXCEPT ![gameId] = r]
  <2>1. gameId \in 1..Len(games) /\ games \in Seq(Results)
      BY <1>2 DEF TypeOK, GameIds, NoGame
  <2> QED BY <1>2, <2>1, SetResult
<1> QED BY <1>1, <1>2 DEF StoreResult, TypeOK, GameIds, NoGame

-----------------------------------------------------------------------------
\* The variables of every value have their types in every reachable state: in
\* particular game_db_id always names a row of the game table or is -1.
THEOREM TypeCorrect == Spec => []TypeOK
<1>1. Init => TypeOK
  <2> SUFFICES ASSUME Init PROVE TypeOK
      OBVIOUS
  <2> USE OldGamesAssumption, ResumedAssumption, MaxMovesAssumption, Members
  <2>1. stack \in Seq(Moves)
    <3>1. CASE Resumed = 0
      BY <3>1 DEF Init
    <3>2. CASE Resumed # 0
      <4>1. Resumed \in Serials /\ "no" \in Endings
          BY <3>2 DEF Serials, LastSerial, Endings
      <4>2. [n |-> Resumed, end |-> "no"] \in Moves
          BY <4>1
      <4> QED BY <3>2, <4>2 DEF Init
    <3> QED BY <3>1, <3>2
  <2>2. games \in Seq(Results) /\ Len(games) = OldGames
    <3>1. \A g \in 1..OldGames: (IF g = Resumed THEN NoResult ELSE "ended") \in Results
        OBVIOUS
    <3> QED BY <3>1 DEF Init
  <2>3. rows \in Seq(Rows)
    <3>1. \A i \in 1..(2 * OldGames): OldRow(i) \in Rows
      <4> SUFFICES ASSUME NEW i \in 1..(2 * OldGames) PROVE OldRow(i) \in Rows
          OBVIOUS
      <4>1. (i + 1) \div 2 \in Nat
          OBVIOUS
      <4>2. (IF i % 2 = 1 THEN 0 ELSE i \div 2) \in Serials \cup {0}
          BY DEF Serials, LastSerial
      <4> QED BY <4>1, <4>2 DEF OldRow
    <3> QED BY <3>1 DEF Init
  <2>4. pushed \in 0..LastSerial
      BY DEF Init, LastSerial
  <2>5. gameId \in GameIds \cup {NoGame} /\ newId \in GameIds \cup {NoGame}
      BY <2>2 DEF Init, GameIds
  <2>6. result \in Results /\ cached \in Results /\ queue \in Seq(Tasks) /\ task \in Tasks
      BY DEF Init
  <2>7. mine \in [Movers -> Locals]
      BY DEF Init
  <2> QED BY <2>1, <2>2, <2>3, <2>4, <2>5, <2>6, <2>7 DEF Init, TypeOK
<1>2. TypeOK /\ [Next]_vars => TypeOK'
  <2> SUFFICES ASSUME TypeOK, [Next]_vars PROVE TypeOK'
      OBVIOUS
  <2> USE Members, SerialNumbers
      DEF TypeOK, Goto, gameVars, dbVars, workerVars, callerVars, GameIds, NoGame
  <2>0. Ender \in Callers /\ Movers \subseteq Callers
      BY DEF Callers
  <2>1. CASE WorkerPersist
    <3>1. /\ queue # <<>> /\ Head(queue) \in Tasks /\ Tail(queue) \in Seq(Tasks)
          /\ Head(queue).n \in Serials \cup {0}
        BY <2>1, TaskFields DEF WorkerPersist
    <3>2. CASE Head(queue).first
      <4>1. games' = Append(games, NoResult) /\ newId' = Len(games')
          BY <2>1, <3>1, <3>2 DEF WorkerPersist, PersistMove
      <4>2. games' \in Seq(Results) /\ Len(games') = Len(games) + 1
          BY <4>1
      <4>3. rows' = rows \o <<[game |-> newId', n |-> 0],
                              [game |-> newId', n |-> Head(queue).n]>>
          BY <2>1, <3>1, <3>2 DEF WorkerPersist, PersistMove
      <4>4. [game |-> newId', n |-> 0] \in Rows /\ [game |-> newId', n |-> Head(queue).n] \in Rows
        <5>1. newId' \in Nat
            BY <4>1, <4>2
        <5> QED BY <3>1, <5>1
      <4>5. rows' \in Seq(Rows)
          BY <4>3, <4>4
      <4> QED BY <2>1, <3>1, <4>1, <4>2, <4>5 DEF WorkerPersist
    <3>3. CASE ~Head(queue).first
      <4>1. newId' = gameId /\ games' = games
          BY <2>1, <3>1, <3>3 DEF WorkerPersist, PersistMove
      <4>2. rows' \in Seq(Rows)
        <5>1. CASE gameId < 0
          BY <2>1, <3>1, <3>3, <5>1 DEF WorkerPersist, PersistMove
        <5>2. CASE ~(gameId < 0)
          <6>0. gameId \in Nat
              BY <5>2
          <6>1. [game |-> gameId, n |-> Head(queue).n] \in Rows
              BY <3>1, <6>0
          <6>2. rows' = Append(rows, [game |-> gameId, n |-> Head(queue).n])
              BY <2>1, <3>1, <3>3, <5>2 DEF WorkerPersist, PersistMove
          <6> QED BY <6>1, <6>2
        <5> QED BY <5>1, <5>2
      <4> QED BY <2>1, <3>1, <4>1, <4>2 DEF WorkerPersist
    <3> QED BY <3>2, <3>3
  <2>2. CASE WorkerPersistFails
    BY <2>2 DEF WorkerPersistFails, AfterPersist
  <2>3. CASE WorkerAssignId
    BY <2>3 DEF WorkerAssignId, AfterPersist
  <2>4. CASE WorkerEndStore
    BY <2>4, TaskFields, StoredResult DEF WorkerEndStore
  <2>5. CASE WorkerEndSet
    BY <2>5, TaskFields DEF WorkerEndSet
  <2>6. CASE EndFire
    BY <2>0, <2>6 DEF EndFire, Begin
  <2>7. CASE EndStore
    BY <2>0, <2>7, StoredResult DEF EndStore
  <2>8. CASE EndSet
    BY <2>0, <2>8 DEF EndSet
  <2>9. ASSUME NEW c \in Movers, Mover(c) PROVE TypeOK'
    <3>0. c \in Callers
        BY <2>0
    <3>1. CASE MoveCheck(c)
      <4>1. (gameId < 0) \in BOOLEAN /\ Len(stack) \in Nat /\ "no" \in Endings
          BY DEF Endings
      <4>2. [task |-> Task(0, "no", gameId < 0), ply |-> Len(stack)] \in Locals
          BY <4>1
      <4>3. mine' \in [Movers -> Locals]
          BY <3>1, <4>2 DEF MoveCheck
      <4> QED BY <3>0, <3>1, <4>3 DEF MoveCheck, Begin
    <3>2. CASE MoveStale(c)
      BY <3>0, <3>2 DEF MoveStale
    <3>3. ASSUME NEW end \in Endings, MovePush(c, end) PROVE TypeOK'
      <4>1. pushed' \in Serials /\ pushed' \in 0..LastSerial
          BY <3>3 DEF MovePush, Serials
      <4>2. stack' \in Seq(Moves)
        <5>1. [n |-> pushed', end |-> end] \in Moves
            BY <4>1
        <5> QED BY <3>3, <5>1 DEF MovePush
      <4>3. mine' \in [Movers -> Locals]
        <5>1. mine[c].task \in Tasks /\ mine[c].ply \in Nat
            BY DEF Locals
        <5>2. Task(pushed', end, mine[c].task.first) \in Tasks
            BY <4>1, <5>1, TaskFields
        <5>3. [task |-> Task(pushed', end, mine[c].task.first), ply |-> mine[c].ply]
                  \in Locals
            BY <5>1, <5>2
        <5> QED BY <3>3, <5>3 DEF MovePush
      <4> QED BY <3>0, <3>3, <4>1, <4>2, <4>3 DEF MovePush
    <3>4. CASE MoveEnqueue(c)
      <4>1. mine[c].task \in Tasks
          BY DEF Locals
      <4> QED BY <3>0, <3>4, <4>1 DEF MoveEnqueue
    <3>5. CASE TakebackDelete(c)
      <4>1. rows' \in Seq(Rows)
          BY <3>5, DropLast DEF TakebackDelete, DeleteLastMove
      <4> QED BY <3>0, <3>5, <4>1 DEF TakebackDelete, Begin
    <3>6. CASE TakebackClear(c)
      BY <3>0, <3>6, SetResult DEF TakebackClear
    <3>12. CASE TakebackFails(c)
      BY <3>0, <3>12 DEF TakebackFails, Begin
    <3>7. CASE TakebackPop(c)
      <4>1. CASE stack = <<>>
        BY <3>0, <3>7, <4>1 DEF TakebackPop
      <4>2. CASE stack # <<>>
        <5>1. stack' \in Seq(Moves)
            BY <3>7, <4>2, DropLast DEF TakebackPop
        <5> QED BY <3>0, <3>7, <4>2, <5>1 DEF TakebackPop
      <4> QED BY <4>1, <4>2
    <3>8. CASE ResetAbandon(c)
      <4>1. CASE UNCHANGED <<games, gameId>>
        BY <3>0, <3>8, <4>1 DEF ResetAbandon, Begin
      <4>2. CASE /\ gameId >= 0 /\ gameId' = NoGame
                 /\ games' = [games EXCEPT ![gameId] = Abandoned]
        <5>1. games' \in Seq(Results) /\ Len(games') = Len(games)
            BY <4>2, SetResult
        <5> QED BY <3>0, <3>8, <4>2, <5>1 DEF ResetAbandon, Begin
      <4> QED BY <3>8, <4>1, <4>2 DEF ResetAbandon, AbandonCurrent, AbandonFails
    <3>9. CASE ResetState(c)
      BY <3>0, <3>9 DEF ResetState
    <3>10. CASE ResetId(c)
      BY <3>0, <3>10 DEF ResetId
    <3>11. CASE Setup(c)
      <4>1. stack' = <<>> /\ <<>> \in Seq(Moves)
          BY <3>11 DEF Setup
      <4> QED BY <3>0, <3>11, <4>1 DEF Setup, Begin
    <3> QED BY <2>9, <3>1, <3>2, <3>3, <3>4, <3>5, <3>6, <3>7, <3>8, <3>9,
               <3>10, <3>11, <3>12 DEF Mover
  <2>10. CASE UNCHANGED vars
    BY <2>10 DEF vars
  <2> QED BY <2>1, <2>2, <2>3, <2>4, <2>5, <2>6, <2>7, <2>8, <2>9, <2>10
          DEF Next, Worker, EndGame
<1> QED BY <1>1, <1>2, PTL DEF Spec

-----------------------------------------------------------------------------
(***************************************************************************)
(* The order of the rows.  The moves that are not stored yet, those queued *)
(* and the one about to be, are newer than every row and come in playing   *)
(* order; the move about to be queued is the last one pushed, which needs  *)
(* threads that move in turn.                                              *)
(***************************************************************************)
RowsAreOld ==
    \A i \in 1..Len(rows): rows[i].game <= Len(games) /\ rows[i].n <= pushed

QueueInPlayOrder ==
    /\ \A k \in 1..Len(queue): queue[k].n \in 1..pushed
    /\ \A k, l \in 1..Len(queue): k < l => queue[k].n < queue[l].n

QueueIsNewer ==
    \A i \in 1..Len(rows), k \in 1..Len(queue): rows[i].n < queue[k].n

LastPushIsNewest(c) ==
    pc[c] = "pushed" =>
        /\ mine[c].task.n = pushed /\ pushed >= 1
        /\ \A i \in 1..Len(rows): rows[i].n < pushed
        /\ \A k \in 1..Len(queue): queue[k].n < pushed

PlayOrder ==
    /\ RowsInPlayOrder
    /\ RowsAreOld
    /\ QueueInPlayOrder
    /\ QueueIsNewer
    /\ \A c \in Movers: LastPushIsNewest(c)

\* What the rows and the queue hold.
LEMMA RowsAndTasks ==
    ASSUME TypeOK
    PROVE  /\ Len(rows) \in Nat /\ Len(queue) \in Nat /\ Len(games) \in Nat
           /\ pushed \in Nat
           /\ \A i \in 1..Len(rows): rows[i].game \in Nat /\ rows[i].n \in Nat
           /\ \A k \in 1..Len(queue): queue[k] \in Tasks /\ queue[k].n \in Nat
<1>1. /\ \A i \in 1..Len(rows): rows[i] \in Rows
      /\ \A k \in 1..Len(queue): queue[k] \in Tasks
    BY DEF TypeOK
<1>2. ASSUME NEW r \in Rows PROVE r.game \in Nat /\ r.n \in Nat
  <2>1. r.game \in Nat /\ r.n \in Serials \cup {0}
      BY DEF Rows
  <2> QED BY <2>1, SerialNumbers
<1>3. ASSUME NEW t \in Tasks PROVE t.n \in Nat
  <2>1. t.n \in Serials \cup {0}
      BY TaskFields
  <2> QED BY <2>1, SerialNumbers
<1>4. Len(rows) \in Nat /\ Len(queue) \in Nat /\ Len(games) \in Nat /\ pushed \in Nat
    BY SerialNumbers DEF TypeOK
<1> QED BY <1>1, <1>2, <1>3, <1>4

\* A step that leaves the rows, the queue and the last serial alone, takes no
\* game away and pushes no move keeps the order.
LEMMA OrderKept ==
    ASSUME TypeOK, PlayOrder,
           rows' = rows, queue' = queue, pushed' = pushed,
           Len(games') \in Nat, Len(games') >= Len(games),
           \A c \in Movers: pc'[c] = "pushed" => pc[c] = "pushed" /\ mine'[c] = mine[c]
    PROVE  PlayOrder'
<1>1. RowsAreOld'
    BY RowsAndTasks DEF PlayOrder, RowsAreOld
<1>2. RowsInPlayOrder' /\ QueueInPlayOrder' /\ QueueIsNewer'
    BY DEF PlayOrder, RowsInPlayOrder, QueueInPlayOrder, QueueIsNewer
<1>3. ASSUME NEW c \in Movers PROVE LastPushIsNewest(c)'
    BY <1>3 DEF PlayOrder, LastPushIsNewest
<1> QED BY <1>1, <1>2, <1>3 DEF PlayOrder

\* Storing the oldest task: in a game of its own, or after the rows of the
\* current one.
LEMMA OrderPersisted ==
    ASSUME TypeOK, PlayOrder, WorkerPersist
    PROVE  PlayOrder'
<1> DEFINE t == Head(queue)
<1>1. /\ t \in Tasks /\ Len(queue) >= 1 /\ Len(queue) \in Nat
      /\ t.n = queue[1].n /\ t.n \in 1..pushed /\ pushed \in Nat
      /\ queue' = Tail(queue) /\ Len(queue') = Len(queue) - 1
      /\ \A k \in 1..Len(queue'): queue'[k] = queue[k + 1]
      /\ pushed' = pushed /\ UNCHANGED callerVars
  <2>1. queue \in Seq(Tasks) /\ queue # <<>> /\ queue' = Tail(queue)
        /\ pushed' = pushed /\ UNCHANGED callerVars
      BY DEF WorkerPersist, TypeOK, gameVars
  <2>2. /\ t \in Tasks /\ Len(queue) >= 1 /\ t = queue[1]
        /\ Len(queue') = Len(queue) - 1
        /\ \A k \in 1..Len(queue'): queue'[k] = queue[k + 1]
      BY <2>1
  <2>3. 1 \in 1..Len(queue)
      BY <2>2, RowsAndTasks
  <2> QED BY <2>1, <2>2, <2>3, RowsAndTasks DEF PlayOrder, QueueInPlayOrder
<1>2. /\ Len(rows) \in Nat /\ Len(games) \in Nat /\ NoGame < 0
      /\ \A i \in 1..Len(rows): rows[i].game \in Nat /\ rows[i].n \in Nat
    BY RowsAndTasks DEF NoGame
<1>3. /\ \A i \in 1..Len(rows): rows[i].n < t.n
      /\ \A k \in 1..Len(queue'): t.n < queue'[k].n
      /\ \A i \in 1..Len(rows), k \in 1..Len(queue'): rows[i].n < queue'[k].n
  <2>1. 1 \in 1..Len(queue) /\ \A k \in 1..Len(queue'): k + 1 \in 1..Len(queue) /\ 1 < k + 1
      BY <1>1
  <2>2. \A k \in 1..Len(queue'): queue[1].n < queue[k + 1].n
      BY <2>1 DEF PlayOrder, QueueInPlayOrder
  <2> QED BY <1>1, <2>1, <2>2 DEF PlayOrder, QueueIsNewer
<1>4. QueueInPlayOrder'
  <2>1. \A k \in 1..Len(queue'): k + 1 \in 1..Len(queue)
      BY <1>1
  <2>2. \A k, l \in 1..Len(queue'): k < l => k + 1 < l + 1
      BY <1>1
  <2> QED BY <1>1, <2>1, <2>2 DEF PlayOrder, QueueInPlayOrder
<1>5. CASE t.first
  <2>1. /\ games' = Append(games, NoResult) /\ newId' = Len(games')
        /\ rows' = rows \o <<[game |-> newId', n |-> 0], [game |-> newId', n |-> t.n]>>
      BY <1>5 DEF WorkerPersist, PersistMove
  <2>2. /\ Len(games') = Len(games) + 1
        /\ Len(rows') = Len(rows) + 2
        /\ \A i \in 1..Len(rows): rows'[i] = rows[i]
        /\ rows'[Len(rows) + 1] = [game |-> Len(games) + 1, n |-> 0]
        /\ rows'[Len(rows) + 2] = [game |-> Len(games) + 1, n |-> t.n]
      BY <2>1 DEF TypeOK
  <2>3. \A i \in 1..Len(rows'):
            i \in 1..Len(rows) \/ i = Len(rows) + 1 \/ i = Len(rows) + 2
      BY <1>2, <2>2
  <2>4. RowsInPlayOrder'
    <3> SUFFICES ASSUME NEW i \in 1..Len(rows'), NEW j \in 1..Len(rows'),
                        i < j, rows'[i].game = rows'[j].game
                 PROVE  rows'[i].n < rows'[j].n
        BY DEF RowsInPlayOrder
    <3>1. CASE j \in 1..Len(rows)
      <4>1. i \in 1..Len(rows)
          BY <1>2, <3>1
      <4> QED BY <2>2, <3>1, <4>1 DEF PlayOrder, RowsInPlayOrder
    <3>2. CASE j \notin 1..Len(rows)
      <4>1. rows'[i].game = Len(games) + 1
          BY <2>2, <2>3, <3>2
      <4>2. i \notin 1..Len(rows)
          BY <1>2, <2>2, <4>1 DEF PlayOrder, RowsAreOld
      <4>3. i = Len(rows) + 1 /\ j = Len(rows) + 2
          BY <1>2, <2>3, <4>2, <3>2
      <4> QED BY <1>1, <2>2, <4>3
    <3> QED BY <3>1, <3>2
  <2>5. RowsAreOld'
    <3> SUFFICES ASSUME NEW i \in 1..Len(rows')
                 PROVE  rows'[i].game <= Len(games') /\ rows'[i].n <= pushed'
        BY DEF RowsAreOld
    <3>1. CASE i \in 1..Len(rows)
      BY <1>1, <1>2, <2>2, <3>1 DEF PlayOrder, RowsAreOld
    <3>2. CASE i = Len(rows) + 1 \/ i = Len(rows) + 2
      BY <1>1, <1>2, <2>2, <3>2
    <3> QED BY <2>3, <3>1, <3>2
  <2>6. QueueIsNewer'
    <3> SUFFICES ASSUME NEW i \in 1..Len(rows'), NEW k \in 1..Len(queue')
                 PROVE  rows'[i].n < queue'[k].n
        BY DEF QueueIsNewer
    <3>1. queue'[k].n \in Nat /\ t.n < queue'[k].n
        BY <1>1, <1>3, <1>4 DEF QueueInPlayOrder
    <3>2. CASE i \in 1..Len(rows)
      BY <1>3, <2>2, <3>2
    <3>3. CASE i = Len(rows) + 1 \/ i = Len(rows) + 2
      BY <1>1, <2>2, <3>1, <3>3
    <3> QED BY <2>3, <3>2, <3>3
  <2>7. ASSUME NEW c \in Movers PROVE LastPushIsNewest(c)'
    <3> SUFFICES ASSUME pc[c] = "pushed"
                 PROVE  LastPushIsNewest(c)'
        BY <1>1 DEF LastPushIsNewest, callerVars
    <3>1. /\ mine[c].task.n = pushed /\ pushed >= 1
          /\ \A i \in 1..Len(rows): rows[i].n < pushed
          /\ \A k \in 1..Len(queue): queue[k].n < pushed
        BY DEF PlayOrder, LastPushIsNewest
    <3>2. \A k \in 1..Len(queue'): queue'[k].n < pushed
        BY <1>1, <3>1
    <3>3. t.n < pushed
        BY <1>1, <3>1
    <3>4. \A i \in 1..Len(rows'): rows'[i].n < pushed
        BY <1>1, <2>2, <2>3, <3>1, <3>3
    <3> QED BY <1>1, <3>1, <3>2, <3>4 DEF LastPushIsNewest, callerVars
  <2> QED BY <1>4, <2>4, <2>5, <2>6, <2>7 DEF PlayOrder
<1>6. CASE ~t.first /\ gameId < 0
  <2>1. rows' = rows /\ games' = games
      BY <1>6 DEF WorkerPersist, PersistMove
  <2>2. ASSUME NEW c \in Movers PROVE LastPushIsNewest(c)'
      BY <1>1, <2>1 DEF PlayOrder, LastPushIsNewest, callerVars
  <2>3. RowsInPlayOrder' /\ RowsAreOld' /\ QueueIsNewer'
      BY <1>1, <1>3, <2>1 DEF PlayOrder, RowsInPlayOrder, RowsAreOld, QueueIsNewer
  <2> QED BY <1>4, <2>2, <2>3 DEF PlayOrder
<1>7. CASE ~t.first /\ ~(gameId < 0)
  <2>1. games' = games /\ rows' = Append(rows, [game |-> gameId, n |-> t.n])
      BY <1>7 DEF WorkerPersist, PersistMove
  <2>2. /\ Len(rows') = Len(rows) + 1
        /\ \A i \in 1..Len(rows): rows'[i] = rows[i]
        /\ rows'[Len(rows) + 1] = [game |-> gameId, n |-> t.n]
        /\ gameId \in 1..Len(games)
      BY <2>1, <1>7 DEF TypeOK, GameIds, NoGame
  <2>3. \A i \in 1..Len(rows'): i \in 1..Len(rows) \/ i = Len(rows) + 1
      BY <1>2, <2>2
  <2>4. RowsInPlayOrder'
    <3> SUFFICES ASSUME NEW i \in 1..Len(rows'), NEW j \in 1..Len(rows'),
                        i < j, rows'[i].game = rows'[j].game
                 PROVE  rows'[i].n < rows'[j].n
        BY DEF RowsInPlayOrder
    <3>1. i \in 1..Len(rows)
        BY <1>2, <2>2
    <3>2. CASE j \in 1..Len(rows)
      BY <2>2, <3>1, <3>2 DEF PlayOrder, RowsInPlayOrder
    <3>3. CASE j = Len(rows) + 1
      BY <1>3, <2>2, <3>1, <3>3
    <3> QED BY <2>3, <3>2, <3>3
  <2>5. RowsAreOld'
    <3> SUFFICES ASSUME NEW i \in 1..Len(rows')
                 PROVE  rows'[i].game <= Len(games') /\ rows'[i].n <= pushed'
        BY DEF RowsAreOld
    <3> QED BY <1>1, <1>2, <2>1, <2>2, <2>3 DEF PlayOrder, RowsAreOld
  <2>6. QueueIsNewer'
      BY <1>3, <2>2, <2>3 DEF QueueIsNewer
  <2>7. ASSUME NEW c \in Movers PROVE LastPushIsNewest(c)'
    <3> SUFFICES ASSUME pc[c] = "pushed"
                 PROVE  LastPushIsNewest(c)'
        BY <1>1 DEF LastPushIsNewest, callerVars
    <3>1. /\ mine[c].task.n = pushed /\ pushed >= 1
          /\ \A i \in 1..Len(rows): rows[i].n < pushed
          /\ \A k \in 1..Len(queue): queue[k].n < pushed
        BY DEF PlayOrder, LastPushIsNewest
    <3>2. \A k \in 1..Len(queue'): queue'[k].n < pushed
        BY <1>1, <3>1
    <3>3. \A i \in 1..Len(rows'): rows'[i].n < pushed
        BY <1>1, <2>2, <2>3, <3>1
    <3> QED BY <1>1, <3>1, <3>2, <3>3 DEF LastPushIsNewest, callerVars
  <2> QED BY <1>4, <2>4, <2>5, <2>6, <2>7 DEF PlayOrder
<1> QED BY <1>5, <1>6, <1>7

\* A failed write loses the oldest task and nothing else.
LEMMA OrderOfTheRest ==
    ASSUME TypeOK, PlayOrder, WorkerPersistFails
    PROVE  PlayOrder'
<1>1. /\ queue \in Seq(Tasks) /\ queue # <<>> /\ queue' = Tail(queue)
      /\ UNCHANGED <<rows, games, pushed, pc, mine>>
    BY DEF WorkerPersistFails, TypeOK, gameVars, dbVars, callerVars
<1>2. /\ Len(queue) \in Nat /\ Len(queue') = Len(queue) - 1
      /\ \A k \in 1..Len(queue'): queue'[k] = queue[k + 1]
    BY <1>1
<1>3. \A k \in 1..Len(queue'): k + 1 \in 1..Len(queue)
    BY <1>2
<1>4. \A k, l \in 1..Len(queue'): k < l => k + 1 < l + 1
    BY <1>2
<1>5. QueueInPlayOrder' /\ QueueIsNewer'
    BY <1>1, <1>2, <1>3, <1>4 DEF PlayOrder, QueueInPlayOrder, QueueIsNewer
<1>6. RowsInPlayOrder' /\ RowsAreOld'
    BY <1>1 DEF PlayOrder, RowsInPlayOrder, RowsAreOld
<1>7. \A c \in Movers: LastPushIsNewest(c)'
    BY <1>1, <1>2, <1>3 DEF PlayOrder, LastPushIsNewest
<1> QED BY <1>5, <1>6, <1>7 DEF PlayOrder

\* A takeback drops the last row.
LEMMA OrderTakenBack ==
    ASSUME TypeOK, PlayOrder, NEW c \in Movers, TakebackDelete(c)
    PROVE  PlayOrder'
<1>1. UNCHANGED <<games, queue, pushed, mine>> /\ pc' = [pc EXCEPT ![c] = "deleted"]
    BY DEF TakebackDelete, gameVars, Goto
<1>2. DOMAIN pc = Callers /\ pc'[c] = "deleted"
    BY <1>1 DEF TypeOK, Callers
<1>3. \A d \in Movers: pc'[d] = "pushed" => pc[d] = "pushed"
    BY <1>1, <1>2 DEF TypeOK, Callers
<1>4. Len(rows') \in Nat /\ Len(rows') <= Len(rows)
      /\ \A i \in 1..Len(rows'): i \in 1..Len(rows) /\ rows'[i] = rows[i]
  <2>1. CASE rows = <<>>
    <3>1. rows' = rows
        BY <2>1 DEF TakebackDelete, DeleteLastMove
    <3> QED BY <3>1, RowsAndTasks
  <2>2. CASE rows # <<>>
    <3>1. rows' = SubSeq(rows, 1, Len(rows) - 1) /\ rows \in Seq(Rows)
        BY <2>2 DEF TakebackDelete, DeleteLastMove, TypeOK
    <3>2. Len(rows') = Len(rows) - 1
          /\ \A i \in 1..(Len(rows) - 1): rows'[i] = rows[i]
        BY <2>2, <3>1, DropLast
    <3>3. Len(rows) # 0
        BY <2>2, <3>1
    <3> QED BY <3>2, <3>3, RowsAndTasks
  <2> QED BY <2>1, <2>2
<1>5. RowsInPlayOrder' /\ RowsAreOld'
    BY <1>1, <1>4 DEF PlayOrder, RowsInPlayOrder, RowsAreOld
<1>6. QueueInPlayOrder' /\ QueueIsNewer'
    BY <1>1, <1>4 DEF PlayOrder, QueueInPlayOrder, QueueIsNewer
<1>7. \A d \in Movers: LastPushIsNewest(d)'
    BY <1>1, <1>3, <1>4 DEF PlayOrder, LastPushIsNewest
<1> QED BY <1>5, <1>6, <1>7 DEF PlayOrder

\* Pushing: the only mover's task becomes the newest one.
LEMMA OrderPushed ==
    ASSUME TypeOK, PlayOrder, NEW c \in Movers, NEW end \in Endings, MovePush(c, end),
           \A d \in Movers: d # c => pc[d] # "pushed"
    PROVE  PlayOrder'
<1>1. /\ UNCHANGED <<rows, games, queue>> /\ pushed' = pushed + 1
      /\ mine' = [mine EXCEPT ![c] = [task |-> Task(pushed', end, mine[c].task.first),
                                      ply |-> mine[c].ply]]
      /\ pc' = [pc EXCEPT ![c] = "pushed"]
    BY DEF MovePush, dbVars, Goto
<1>2. mine'[c].task.n = pushed'
    BY <1>1 DEF TypeOK, Task
<1>3. \A i \in 1..Len(rows): rows[i].n <= pushed /\ rows[i].n \in Nat
    BY RowsAndTasks DEF PlayOrder, RowsAreOld
<1>4. \A k \in 1..Len(queue): queue[k].n \in 1..pushed
    BY DEF PlayOrder, QueueInPlayOrder
<1>5. pushed \in Nat
    BY RowsAndTasks
<1>6. RowsInPlayOrder' /\ QueueIsNewer'
    BY <1>1 DEF PlayOrder, RowsInPlayOrder, QueueIsNewer
<1>7. RowsAreOld'
    BY <1>1, <1>3, <1>5 DEF PlayOrder, RowsAreOld
<1>8. QueueInPlayOrder'
    BY <1>1, <1>4, <1>5 DEF PlayOrder, QueueInPlayOrder
<1>9. LastPushIsNewest(c)'
  <2>1. \A i \in 1..Len(rows'): rows'[i].n < pushed'
      BY <1>1, <1>3, <1>5
  <2>2. \A k \in 1..Len(queue'): queue'[k].n < pushed'
      BY <1>1, <1>4, <1>5
  <2> QED BY <1>1, <1>2, <1>5, <2>1, <2>2 DEF LastPushIsNewest
<1>10. \A d \in Movers: d # c => pc'[d] # "pushed"
    BY <1>1 DEF TypeOK, Callers
<1>11. \A d \in Movers: LastPushIsNewest(d)'
    BY <1>9, <1>10 DEF LastPushIsNewest
<1> QED BY <1>6, <1>7, <1>8, <1>11 DEF PlayOrder

\* Submitting: the newest task goes behind the others.
LEMMA OrderQueued ==
    ASSUME TypeOK, PlayOrder, NEW c \in Movers, MoveEnqueue(c),
           \A d \in Movers: d # c => pc[d] # "pushed"
    PROVE  PlayOrder'
<1>1. /\ UNCHANGED <<rows, games, pushed>> /\ queue' = Append(queue, mine[c].task)
      /\ pc[c] = "pushed" /\ pc' = [pc EXCEPT ![c] = "idle"]
    BY DEF MoveEnqueue, dbVars, gameVars, Goto
<1>2. /\ mine[c].task.n = pushed /\ pushed >= 1 /\ pushed \in Nat
      /\ \A i \in 1..Len(rows): rows[i].n < pushed
      /\ \A k \in 1..Len(queue): queue[k].n < pushed
    BY <1>1, RowsAndTasks DEF PlayOrder, LastPushIsNewest
<1>3. /\ Len(queue) \in Nat /\ Len(queue') = Len(queue) + 1
      /\ \A k \in 1..Len(queue): queue'[k] = queue[k]
      /\ queue'[Len(queue) + 1] = mine[c].task
    BY <1>1, RowsAndTasks DEF TypeOK
<1>4. \A k \in 1..Len(queue'): k \in 1..Len(queue) \/ k = Len(queue) + 1
    BY <1>3
<1>5. RowsInPlayOrder' /\ RowsAreOld'
    BY <1>1 DEF PlayOrder, RowsInPlayOrder, RowsAreOld
<1>6. QueueInPlayOrder'
  <2>1. \A k \in 1..Len(queue'): queue'[k].n \in 1..pushed'
      BY <1>1, <1>2, <1>3, <1>4 DEF PlayOrder, QueueInPlayOrder
  <2>2. ASSUME NEW k \in 1..Len(queue'), NEW l \in 1..Len(queue'), k < l
        PROVE  queue'[k].n < queue'[l].n
    <3>1. k \in 1..Len(queue)
        BY <1>3, <2>2
    <3>2. CASE l \in 1..Len(queue)
      BY <1>3, <2>2, <3>1, <3>2 DEF PlayOrder, QueueInPlayOrder
    <3>3. CASE l = Len(queue) + 1
      BY <1>2, <1>3, <3>1, <3>3
    <3> QED BY <1>4, <3>2, <3>3
  <2> QED BY <2>1, <2>2 DEF QueueInPlayOrder
<1>7. QueueIsNewer'
  <2> SUFFICES ASSUME NEW i \in 1..Len(rows), NEW k \in 1..Len(queue')
               PROVE  rows[i].n < queue'[k].n
      BY <1>1 DEF QueueIsNewer
  <2>1. CASE k \in 1..Len(queue)
    BY <1>3, <2>1 DEF PlayOrder, QueueIsNewer
  <2>2. CASE k = Len(queue) + 1
    BY <1>2, <1>3, <2>2
  <2> QED BY <1>4, <2>1, <2>2
<1>8. \A d \in Movers: pc'[d] # "pushed"
    BY <1>1 DEF TypeOK, Callers
<1> QED BY <1>5, <1>6, <1>7, <1>8 DEF PlayOrder, LastPushIsNewest

\* One thread at most is between the guard of a move and the submission of its task.
MovesInTurn ==
    (\E m: Movers = {m}) \/ AmidCallers \cap {"FirstMove", "Move"} = {}
IsMoving(c) == pc[c] \in {"checked", "pushed"}
OneMoves == \A c, d \in Movers: IsMoving(c) /\ IsMoving(d) => c = d

LEMMA OneMovesOn ==
    ASSUME TypeOK, MovesInTurn, OneMoves, [Next]_vars
    PROVE  OneMoves'
<1>0. PICK labels: pc \in [Callers -> labels] /\ \A c \in Movers: c \in Callers /\ c # Ender
    BY MoversAssumption DEF TypeOK, Callers, Ender
<1> USE DEF Goto
<1>1. CASE Worker \/ EndGame \/ UNCHANGED vars
  <2>1. \A c \in Movers: pc'[c] = pc[c]
    <3>1. CASE Worker \/ UNCHANGED vars
      BY <3>1 DEF Worker, WorkerPersist, WorkerPersistFails, WorkerAssignId, WorkerEndStore,
                  WorkerEndSet, vars, callerVars
    <3>2. CASE EndGame
      BY <1>0, <3>2 DEF EndGame, EndFire, EndStore, EndSet
    <3> QED BY <1>1, <3>1, <3>2
  <2> QED BY <2>1 DEF OneMoves, IsMoving
<1>2. ASSUME NEW c \in Movers, Mover(c) PROVE OneMoves'
  <2>1. \A d \in Movers: d # c => pc'[d] = pc[d]
    BY <1>0, <1>2
    DEF Mover, MoveCheck, MoveStale, MovePush, MoveEnqueue, TakebackDelete, TakebackFails, TakebackClear,
        TakebackPop, ResetAbandon, ResetState, ResetId, Setup
  <2>2. CASE MoveCheck(c)
    <3>1. (\E m: Movers = {m}) \/ CallersIdle
        BY <2>2 DEF MoveCheck, Begin, MoveName, MovesInTurn
    <3>2. \A d \in Movers: d # c => ~IsMoving(d)
        BY <1>0, <3>1 DEF CallersIdle, IsMoving
    <3> QED BY <2>1, <3>2 DEF OneMoves, IsMoving
  <2>3. CASE ~MoveCheck(c)
    <3>1. IsMoving(c)' => IsMoving(c)
        BY <1>0, <1>2, <2>3
        DEF IsMoving, Mover, MoveStale, MovePush, MoveEnqueue, TakebackDelete, TakebackFails,
            TakebackClear, TakebackPop, ResetAbandon, ResetState, ResetId, Setup
    <3> QED BY <2>1, <3>1 DEF OneMoves, IsMoving
  <2> QED BY <2>2, <2>3
<1> QED BY <1>1, <1>2 DEF Next

\* As long as no move begins amid another thread's operation, the rows of every game are
\* in the order its moves were played, for any number of threads that move: the queue of
\* the worker and the serial order of the pushes keep what _enqueue_post_move_tasks
\* promises, whatever is taken back, reset, decided by the clock or lost to a failed
\* write in between.
THEOREM RowsStayInOrder ==
    ASSUME MovesInTurn
    PROVE  Spec => []RowsInPlayOrder
<1>1. Init => PlayOrder /\ OneMoves
  <2> SUFFICES ASSUME Init PROVE PlayOrder /\ OneMoves
      OBVIOUS
  <2>1. /\ Len(rows) = 2 * OldGames /\ Len(games) = OldGames /\ pushed = OldGames
        /\ queue = <<>> /\ Len(queue) = 0 /\ \A c \in Callers: pc[c] = "idle"
        /\ \A i \in 1..(2 * OldGames): rows[i] = OldRow(i)
      BY OldGamesAssumption DEF Init
  <2>2. \A i \in 1..(2 * OldGames):
            rows[i].game = (i + 1) \div 2 /\ rows[i].n = (IF i % 2 = 1 THEN 0 ELSE i \div 2)
      BY <2>1 DEF OldRow
  <2>3. RowsInPlayOrder
    <3> SUFFICES ASSUME NEW i \in 1..(2 * OldGames), NEW j \in 1..(2 * OldGames),
                        i < j, rows[i].game = rows[j].game
                 PROVE  rows[i].n < rows[j].n
        BY <2>1 DEF RowsInPlayOrder
    <3>1. (i + 1) \div 2 = (j + 1) \div 2
        BY <2>2
    <3>2. i % 2 = 1 /\ j = i + 1
        BY <3>1, OldGamesAssumption
    <3>3. j % 2 # 1 /\ j \div 2 > 0
        BY <3>2, OldGamesAssumption
    <3>4. rows[i].n = 0 /\ rows[j].n = j \div 2
        BY <2>2, <3>2, <3>3
    <3> QED BY <3>3, <3>4
  <2>4. RowsAreOld
    <3> SUFFICES ASSUME NEW i \in 1..(2 * OldGames)
                 PROVE  rows[i].game <= OldGames /\ rows[i].n <= OldGames
        BY <2>1 DEF RowsAreOld
    <3>1. (i + 1) \div 2 <= OldGames /\ i \div 2 <= OldGames /\ 0 <= OldGames
        BY OldGamesAssumption
    <3> QED BY <2>2, <3>1
  <2>5. QueueInPlayOrder /\ QueueIsNewer
      BY <2>1 DEF QueueInPlayOrder, QueueIsNewer
  <2>6. \A c \in Movers: LastPushIsNewest(c)
      BY <2>1 DEF LastPushIsNewest, Callers
  <2>7. OneMoves
      BY <2>1 DEF OneMoves, IsMoving, Callers
  <2> QED BY <2>3, <2>4, <2>5, <2>6, <2>7 DEF PlayOrder
<1>2. TypeOK /\ TypeOK' /\ PlayOrder /\ OneMoves /\ [Next]_vars => PlayOrder'
  <2> SUFFICES ASSUME TypeOK, TypeOK', PlayOrder, OneMoves, [Next]_vars PROVE PlayOrder'
      OBVIOUS
  <2>0. /\ pc \in [Callers -> {"idle", "checked", "pushed", "deleted", "cleared",
                           "abandoned", "reset", "setup", "fired", "stored"}]
        /\ Ender \in Callers /\ Movers \subseteq Callers /\ Ender \notin Movers
        /\ Len(games') \in Nat /\ games \in Seq(Results) /\ Len(games) \in Nat
      BY MoversAssumption DEF TypeOK, Callers, Ender
  <2> USE DEF Goto, gameVars, dbVars, workerVars, callerVars
  <2>1. CASE WorkerPersist
    BY <2>1, OrderPersisted
  <2>2. CASE WorkerPersistFails
    BY <2>2, OrderOfTheRest
  <2>3. CASE WorkerAssignId \/ WorkerEndSet
    BY <2>0, <2>3, OrderKept DEF WorkerAssignId, WorkerEndSet
  <2>4. CASE WorkerEndStore
    BY <2>0, <2>4, OrderKept, StoredResult, TaskFields DEF WorkerEndStore, TypeOK
  <2>5. CASE EndFire \/ EndSet
    BY <2>0, <2>5, OrderKept DEF EndFire, EndSet
  <2>6. CASE EndStore
    BY <2>0, <2>6, OrderKept, StoredResult, Members DEF EndStore
  <2>7. ASSUME NEW m \in Movers, Mover(m) PROVE PlayOrder'
    <3>1. m \in Callers
        BY <2>0
    <3>0. pc[m] \in {"checked", "pushed"} => \A d \in Movers: d # m => pc[d] # "pushed"
        BY DEF OneMoves, IsMoving
    <3>2. CASE MoveCheck(m)
      BY <2>0, <3>1, <3>2, OrderKept DEF MoveCheck
    <3>3. CASE MoveStale(m)
      BY <2>0, <3>1, <3>3, OrderKept DEF MoveStale
    <3>4. ASSUME NEW end \in Endings, MovePush(m, end) PROVE PlayOrder'
      BY <3>0, <3>4, OrderPushed DEF MovePush
    <3>5. CASE MoveEnqueue(m)
      BY <3>0, <3>5, OrderQueued DEF MoveEnqueue
    <3>6. CASE TakebackDelete(m)
      BY <3>1, <3>6, OrderTakenBack
    <3>7. CASE TakebackClear(m)
      <4>1. Len(games') = Len(games)
          BY <2>0, <3>7 DEF TakebackClear
      <4> QED BY <2>0, <3>1, <3>7, <4>1, OrderKept DEF TakebackClear
    <3>8. CASE TakebackPop(m)
      BY <2>0, <3>1, <3>8, OrderKept DEF TakebackPop
    <3>9. CASE ResetAbandon(m)
      <4>1. Len(games') = Len(games)
          BY <2>0, <3>9 DEF ResetAbandon, AbandonCurrent, AbandonFails
      <4> QED BY <2>0, <3>1, <3>9, <4>1, OrderKept DEF ResetAbandon
    <3>11. CASE TakebackFails(m)
      BY <2>0, <3>1, <3>11, OrderKept DEF TakebackFails
    <3>10. CASE ResetState(m) \/ ResetId(m) \/ Setup(m)
      BY <2>0, <3>1, <3>10, OrderKept DEF ResetState, ResetId, Setup
    <3> QED BY <2>7, <3>2, <3>3, <3>4, <3>5, <3>6, <3>7, <3>8, <3>9, <3>10, <3>11
            DEF Mover
  <2>8. CASE UNCHANGED vars
    BY <2>0, <2>8, OrderKept DEF vars
  <2> QED BY <2>1, <2>2, <2>3, <2>4, <2>5, <2>6, <2>7, <2>8
          DEF Next, Worker, EndGame
<1>3. PlayOrder => RowsInPlayOrder
    BY DEF PlayOrder
<1>4. TypeOK /\ OneMoves /\ [Next]_vars => OneMoves'
    BY OneMovesOn
<1> QED BY <1>1, <1>2, <1>3, <1>4, TypeCorrect, PTL DEF Spec
=============================================================================
