------------------------------ MODULE BoardReferee ------------------------------
(***************************************************************************)
(* The referee between the pieces and the game.  The board only senses     *)
(* which squares are occupied.  A hand lifts and places pieces; each of    *)
(* these sends an event; the thread that handles the event compares the    *)
(* occupancy, as it is by then, with the game and decides: a move, the     *)
(* engine's move carried out, a takeback, a new game, nothing at all, or   *)
(* correction mode, in which the lights ask for the pieces to be put back. *)
(*                                                                         *)
(* Chess is reduced to sides that step along given squares, capture, and   *)
(* castle; a side that cannot move ends the game.  Handling an event reads *)
(* the occupancy once.  Left out: the gestures with kings, apps that are   *)
(* connected, setup and web-move modes.                                    *)
(***************************************************************************)
EXTENDS Integers, Sequences, SequencesExt, FiniteSets

CONSTANTS
    Squares,
    Setup,          \* the pieces at the start of a game
    Reach,          \* per side, the steps <<from, to>> of its pieces
    Castles,        \* per side, castling: the steps of king and rook
    Engines,        \* the sides played by an engine
    Conditions,     \* "bounce": a sensor repeats a place; "impatient": pieces are
                    \* touched while an engine thinks; "overtake": an engine answers
                    \* before the worker has announced the move it answers;
                    \* "busy": the worker's reading of the board may be skipped
    MaxHand,        \* bounds: pieces off the board, lifts a player remembers,
    MaxLifts,       \* events and tasks in waiting
    MaxEvents,
    MaxTasks

Sides == {"w", "b"}
Steps == Squares \X Squares
Positions == [Squares -> Sides \cup {"none"}]
NoSquare == 0
NoMove == <<>>
NoPosition == <<>>

ASSUME SquaresAssumption ==
    Squares \subseteq Nat \ {NoSquare} /\ Squares # {} /\ IsFiniteSet(Squares)
ASSUME SetupAssumption == Setup \in Positions
ASSUME ReachAssumption == Reach \in [Sides -> SUBSET Steps]
ASSUME CastlesAssumption == Castles \in [Sides -> SUBSET [king: Steps, rook: Steps]]
ASSUME EnginesAssumption == Engines \subseteq Sides
ASSUME BoundsAssumption == {MaxHand, MaxLifts, MaxEvents, MaxTasks} \subseteq Nat

VARIABLES
    phys,           \* the squares on which a piece stands
    hand,           \* number of pieces off the board
    events,         \* lifts and places not yet handled
    pos,            \* chess_board: the game's position
    past,           \* the positions before each move of its move_stack
    source,         \* move_state.source_square
    pendingSource,  \* move_state.pending_move_source_lifted
    captureSeen,    \* move_state._capture_square_events
    forced,         \* move_state.is_forced_move
    rookPending,    \* move_state.castling_rook_pending
    correction,     \* correction_mode.is_active
    lifted,         \* per player, _lifted_squares
    pending,        \* per player, _pending_move and the position it was found for
    thinking,       \* per player, the position it is computing a move for
    toShow,         \* computed moves whose callback has not run yet
    tasks,          \* moves whose post-move tasks have not begun
    worker,         \* where the task worker is
    undone          \* history: the last change of the game was a takeback

hands == <<phys, hand>>
game == <<pos, past, undone>>
moveState == <<source, pendingSource, captureSeen, forced, rookPending>>
players == <<lifted, pending, thinking>>
vars == <<phys, hand, events, pos, past, undone, source, pendingSource, captureSeen,
          forced, rookPending, correction, lifted, pending, thinking, toShow, tasks,
          worker>>

NoAnswer == [move |-> NoMove, at |-> NoPosition]
Answers == [move: Steps, at: Positions]

TypeOK ==
    /\ phys \subseteq Squares /\ hand \in 0..MaxHand
    /\ events \in Seq([lift: BOOLEAN, at: Squares]) /\ Len(events) <= MaxEvents
    /\ pos \in Positions /\ past \in Seq(Positions)
    /\ source \in Squares \cup {NoSquare}
    /\ pendingSource \in Squares \cup {NoSquare}
    /\ captureSeen \subseteq Squares
    /\ forced \in BOOLEAN /\ correction \in BOOLEAN /\ undone \in BOOLEAN
    /\ rookPending \in Steps \cup {NoMove}
    /\ lifted \in [Sides -> Seq(Squares)]
    /\ \A s \in Sides: \A i, j \in DOMAIN lifted[s]: lifted[s][i] = lifted[s][j] => i = j
    /\ pending \in [Sides -> Answers \cup {NoAnswer}]
    /\ thinking \in [Sides -> Positions \cup {NoPosition}]
    /\ toShow \subseteq Steps
    /\ tasks \in 0..(MaxTasks + MaxEvents)
    /\ worker \in {"idle", "judge", "enter"}

-----------------------------------------------------------------------------
\* Chess

Occupied(p) == {s \in Squares: p[s] # "none"}
Turn == IF Len(past) % 2 = 0 THEN "w" ELSE "b"
Other(side) == IF side = "w" THEN "b" ELSE "w"

Castling(side, m) == {c \in Castles[side]: c.king = m}

Legal(p, side) ==
    {m \in Reach[side]: p[m[1]] = side /\ p[m[2]] # side}
        \cup {c.king: c \in {c \in Castles[side]:
                /\ p[c.king[1]] = side /\ p[c.rook[1]] = side
                /\ p[c.king[2]] = "none" /\ p[c.rook[2]] = "none"}}

\* the piece on the first square of a step moves to the second
Stepped(p, m) == [p EXCEPT ![m[1]] = "none", ![m[2]] = p[m[1]]]

After(p, side, m) ==
    IF Castling(side, m) = {} THEN Stepped(p, m)
    ELSE Stepped(Stepped(p, m), (CHOOSE c \in Castling(side, m): TRUE).rook)

GameOver == Legal(pos, Turn) = {}
CanMoveFrom(s) == \E m \in Legal(pos, Turn): m[1] = s
CanCaptureOn(s) == pos[s] # "none" /\ \E m \in Legal(pos, Turn): m[2] = s

InPlace == phys = Occupied(pos)

Init ==
    /\ phys = Occupied(Setup) /\ hand = 0 /\ events = <<>>
    /\ pos = Setup /\ past = <<>> /\ undone = FALSE
    /\ source = NoSquare /\ pendingSource = NoSquare /\ captureSeen = {}
    /\ forced = FALSE /\ rookPending = NoMove /\ correction = FALSE
    /\ lifted = [s \in Sides |-> <<>>] /\ pending = [s \in Sides |-> NoAnswer]
    /\ thinking = [s \in Sides |-> IF s \in Engines \cap {"w"} THEN Setup ELSE NoPosition]
    /\ toShow = {} /\ tasks = 0 /\ worker = "idle"

-----------------------------------------------------------------------------
\* The hand

Patient ==
    \/ "impatient" \in Conditions
    \/ toShow = {} /\ \A s \in Engines: thinking[s] = NoPosition

Sends(isLift, s) ==
    /\ Len(events) < MaxEvents /\ tasks < MaxTasks /\ Patient
    /\ events' = Append(events, [lift |-> isLift, at |-> s])
    /\ UNCHANGED <<game, moveState, correction, players, toShow, tasks, worker>>

Lift(s) ==
    /\ s \in phys /\ hand < MaxHand /\ Len(lifted[Turn]) < MaxLifts
    /\ phys' = phys \ {s} /\ hand' = hand + 1
    /\ Sends(TRUE, s)

Place(s) ==
    /\ s \notin phys /\ hand > 0
    /\ phys' = phys \cup {s} /\ hand' = hand - 1
    /\ Sends(FALSE, s)

Bounce(s) ==
    /\ "bounce" \in Conditions
    /\ s \in phys
    /\ Sends(FALSE, s)
    /\ UNCHANGED hands

-----------------------------------------------------------------------------
\* What the handlers call

ResetMoveState ==
    /\ source' = NoSquare /\ pendingSource' = NoSquare /\ captureSeen' = {}
    /\ forced' = FALSE /\ rookPending' = NoMove

Ask_Always(side, p, pend, buf) ==
    /\ pending' = pend
    /\ lifted' = [buf EXCEPT ![side] = <<>>]
    /\ thinking' = IF side \in Engines THEN [thinking EXCEPT ![side] = p] ELSE thinking

\* request_move of the player to move at p: an engine that has an answer or is
\* computing one ignores it
Ask(side, p, pend, buf) ==
    /\ pending' = pend
    /\ IF side \in Engines /\ (thinking[side] # NoPosition \/ pend[side] # NoAnswer)
       THEN lifted' = buf /\ thinking' = thinking
       ELSE /\ lifted' = [buf EXCEPT ![side] = <<>>]
            /\ thinking' = IF side \in Engines THEN [thinking EXCEPT ![side] = p] ELSE thinking

KeepPlayers(pend, buf) ==
    pending' = pend /\ lifted' = buf /\ UNCHANGED thinking

\* execute_complete_move with the players' answers and lifts as its caller left
\* them; corrected is what correction mode becomes when the move is made
Execute(m, pend, buf, corrected) ==
    LET p == After(pos, Turn, m) IN
    /\ source' = NoSquare /\ pendingSource' = NoSquare /\ captureSeen' = {}
    /\ forced' = FALSE
    /\ IF m \in Legal(pos, Turn)
       THEN /\ past' = Append(past, pos) /\ pos' = p /\ undone' = FALSE
            /\ rookPending' = IF Castling(Turn, m) = {} THEN NoMove
                              ELSE (CHOOSE c \in Castling(Turn, m): TRUE).rook
            /\ tasks' = tasks + 1
            /\ correction' = corrected
            /\ IF Legal(p, Other(Turn)) # {} THEN Ask(Other(Turn), p, pend, buf)
               ELSE KeepPlayers(pend, buf)
       ELSE /\ rookPending' = NoMove /\ correction' = TRUE
            /\ KeepPlayers(pend, buf)
            /\ UNCHANGED <<game, tasks>>

\* _execute_pending_move_directly
ExecutePending ==
    Execute(pending[Turn].move, [pending EXCEPT ![Turn] = NoAnswer],
            [lifted EXCEPT ![Turn] = <<>>], correction)

\* complete_destination_only_move: the square a piece has left for d, if that
\* can be told
LeftSquares(d) == (Occupied(pos) \ phys) \ {d}
Sources(d) ==
    IF Cardinality(LeftSquares(d)) = 1 THEN LeftSquares(d)
    ELSE LET legal == {s \in LeftSquares(d): <<s, d>> \in Legal(pos, Turn)}
         IN IF Cardinality(legal) = 1 THEN legal ELSE {}

\* find_legal_move_matching_occupancy: the legal move the occupancy shows, none
\* if it shows several
Matching(from) ==
    {m \in Legal(pos, Turn): /\ from # NoSquare => m[1] = from
                             /\ phys = Occupied(After(pos, Turn, m))}
Shown(from, to) ==
    LET preferred == {m \in Matching(from): m[2] = to}
    IN IF Cardinality(preferred) = 1 THEN preferred
       ELSE IF preferred = {} /\ Cardinality(Matching(from)) = 1 THEN Matching(from)
       ELSE {}

-----------------------------------------------------------------------------
\* The event being handled, what it shows, and what is noted of it

e == Head(events)

Handling ==
    /\ events # <<>> /\ events' = Tail(events)
    /\ UNCHANGED <<hands, toShow, worker>>

Before == past[Len(past)]
TakenBack == ~e.lift /\ past # <<>> /\ phys = Occupied(Before)
Decided == TakenBack \/ rookPending # NoMove

Answer == pending[Turn].move
Waits == Answer # NoMove
Captures == Waits /\ Other(Turn) \in {pos[Answer[1]], pos[Answer[2]]}

CaptureSeenNow ==
    IF Captures /\ e.at = Answer[2] /\ (e.lift \/ ~correction) THEN captureSeen \cup {e.at}
    ELSE captureSeen
CaptureDone == Captures => Answer[2] \in CaptureSeenNow

\* the answer can be pushed and the occupancy shows its position
Pushable == pos[Answer[1]] # "none"
Transcribed == CaptureDone /\ Pushable /\ phys = Occupied(After(pos, Turn, Answer))

\* an answer to another position cannot be pushed: the handler dies of it
Dies == ~e.lift /\ Waits /\ CaptureDone /\ ~Pushable

UnderWay == pendingSource # NoSquare /\ CaptureDone

PendingSourceNow ==
    IF e.lift /\ Waits /\ e.at = Answer[1]
        /\ (correction \/ (pos[e.at] # "none" /\ ~UnderWay))
    THEN e.at ELSE pendingSource

SourceNow ==
    IF correction \/ Waits THEN source
    ELSE IF e.lift THEN
        IF source = NoSquare /\ pos[e.at] = Turn /\ CanMoveFrom(e.at) THEN e.at ELSE source
    ELSE IF InPlace /\ e.at = source THEN NoSquare ELSE source

Noted ==
    /\ source' = SourceNow /\ pendingSource' = PendingSourceNow
    /\ captureSeen' = CaptureSeenNow
    /\ UNCHANGED <<forced, rookPending>>

PlayerMove_Silent(m, buf, corrected) ==
    IF m \in Legal(pos, Turn) THEN Execute(m, pending, buf, corrected)
    ELSE Noted /\ KeepPlayers(pending, buf) /\ UNCHANGED <<correction, game, tasks>>

\* on_player_move: an illegal move is answered by correction mode
PlayerMove(m, buf, corrected) ==
    IF m \in Legal(pos, Turn) THEN Execute(m, pending, buf, corrected)
    ELSE /\ correction' = TRUE /\ Noted
         /\ KeepPlayers(pending, buf)
         /\ UNCHANGED <<game, tasks>>

-----------------------------------------------------------------------------
\* Whatever the mode: a takeback, and the rook that has to follow the king

Takeback_KeepsAnswers ==
    /\ Handling /\ TakenBack
    /\ pos' = Before /\ past' = SubSeq(past, 1, Len(past) - 1) /\ undone' = TRUE
    /\ ResetMoveState
    /\ UNCHANGED <<players, correction, tasks>>

Takeback ==
    /\ Handling /\ TakenBack
    /\ pos' = Before /\ past' = SubSeq(past, 1, Len(past) - 1) /\ undone' = TRUE
    /\ ResetMoveState
    /\ pending' = [s \in Sides |-> NoAnswer]
    /\ thinking' = [s \in Sides |-> NoPosition]
    /\ lifted' = [s \in Sides |-> IF s \in Engines THEN <<>> ELSE lifted[s]]
    /\ UNCHANGED <<correction, tasks>>

FollowRook ==
    /\ Handling /\ ~TakenBack /\ rookPending # NoMove
    /\ LET expected == e.at = IF e.lift THEN rookPending[1] ELSE rookPending[2] IN
       /\ rookPending' = IF expected /\ e.lift THEN rookPending ELSE NoMove
       /\ correction' = (correction \/ ~expected)
    /\ UNCHANGED <<source, pendingSource, captureSeen, forced, game, players, tasks>>

\* a place on which the handler of pending answers raises an error
FailToPush ==
    /\ Handling /\ ~Decided /\ Dies
    /\ Noted
    /\ UNCHANGED <<correction, game, players, tasks>>

-----------------------------------------------------------------------------
\* Events in correction mode

Correcting == Handling /\ ~Decided /\ correction /\ ~Dies

TranscribedAnyway ==
    /\ ~e.lift /\ Waits
    /\ Transcribed \/ (e.at = Answer[2] /\ pendingSource = Answer[1])
MovedAnyway == ~e.lift /\ ~Waits /\ Shown(source, e.at) # {}

\* the answer is carried out; correction mode stays
CorrectByPending == Correcting /\ TranscribedAnyway /\ ExecutePending

\* a position one legal move away is that move
CorrectByMove ==
    /\ Correcting /\ MovedAnyway
    /\ \E m \in Shown(source, e.at): PlayerMove(m, lifted, FALSE)

\* the starting position is set up: a new game
NewGame ==
    /\ Correcting /\ ~TranscribedAnyway /\ ~MovedAnyway
    /\ phys = Occupied(Setup)
    /\ pos' = Setup /\ past' = <<>> /\ undone' = FALSE
    /\ correction' = FALSE /\ ResetMoveState
    /\ pending' = [s \in Sides |-> NoAnswer] /\ lifted' = [s \in Sides |-> <<>>]
    /\ thinking' = [s \in Sides |-> IF s \in Engines \cap {"w"} THEN Setup ELSE NoPosition]
    /\ UNCHANGED tasks

\* the pieces are back: the game goes on, and with it the player to move
Resume ==
    /\ Correcting /\ ~TranscribedAnyway /\ ~MovedAnyway
    /\ phys # Occupied(Setup) /\ InPlace
    /\ correction' = FALSE /\ source' = NoSquare
    /\ pendingSource' = PendingSourceNow /\ captureSeen' = CaptureSeenNow
    /\ IF GameOver \/ forced THEN UNCHANGED players ELSE Ask(Turn, pos, pending, lifted)
    /\ UNCHANGED <<forced, rookPending, game, tasks>>

StillWrong ==
    /\ Correcting /\ ~TranscribedAnyway /\ ~MovedAnyway
    /\ phys # Occupied(Setup) /\ ~InPlace
    /\ Noted
    /\ UNCHANGED <<correction, game, players, tasks>>

-----------------------------------------------------------------------------
\* Events in play: lifts

Playing == Handling /\ ~Decided /\ ~correction /\ ~Dies

\* another piece than those of the answer, before it is under way
WrongPiece ==
    Waits /\ ~UnderWay /\ e.at # Answer[1] /\ ~(Captures /\ e.at = Answer[2])

Bump ==
    Waits /\ ((Captures /\ e.at = Answer[2]) \/ (PendingSourceNow # NoSquare /\ CaptureDone))

CannotMove ==
    /\ ~Bump /\ SourceNow = NoSquare
    /\ ~(pos[e.at] = Other(Turn) /\ CanCaptureOn(e.at))
    /\ ~CanMoveFrom(e.at)

Refused == pos[e.at] # "none" /\ (WrongPiece \/ CannotMove)

LiftRefused ==
    /\ Playing /\ e.lift /\ Refused
    /\ correction' = TRUE /\ Noted
    /\ UNCHANGED <<game, players, tasks>>

LiftNoted_Twice ==
    /\ Playing /\ e.lift /\ ~Refused
    /\ Noted
    /\ lifted' = [lifted EXCEPT ![Turn] = Append(@, e.at)]
    /\ UNCHANGED <<pending, thinking, correction, game, tasks>>

LiftNoted ==
    /\ Playing /\ e.lift /\ ~Refused
    /\ Noted
    /\ lifted' = IF \E i \in DOMAIN lifted[Turn]: lifted[Turn][i] = e.at THEN lifted
                 ELSE [lifted EXCEPT ![Turn] = Append(@, e.at)]
    /\ UNCHANGED <<pending, thinking, correction, game, tasks>>

-----------------------------------------------------------------------------
\* Events in play: places

Noise == source = NoSquare /\ pendingSource = NoSquare /\ InPlace
TooEarly == ~Waits /\ Turn \in Engines /\ ~InPlace
Settled == ~Waits /\ source # NoSquare /\ ~InPlace /\ Shown(source, e.at) # {}

PlacePending == Playing /\ ~e.lift /\ Waits /\ Transcribed /\ ExecutePending

PlaceNoise ==
    /\ Playing /\ ~e.lift /\ ~(Waits /\ Transcribed) /\ Noise
    /\ Noted
    /\ UNCHANGED <<correction, game, players, tasks>>

PlaceTooEarly ==
    /\ Playing /\ ~e.lift /\ TooEarly
    /\ correction' = TRUE /\ Noted
    /\ UNCHANGED <<game, players, tasks>>

PlaceSettled ==
    /\ Playing /\ ~e.lift /\ ~TooEarly /\ Settled
    /\ \E m \in Shown(source, e.at): PlayerMove(m, lifted, correction)

Forwarded ==
    /\ Playing /\ ~e.lift /\ ~TooEarly /\ ~Settled
    /\ ~(Waits /\ Transcribed) /\ ~Noise

\* the player's own reading of its lifts: where the piece placed came from
Buffer == lifted[Turn]
InBuffer == \E i \in DOMAIN Buffer: Buffer[i] = e.at
From ==
    IF Buffer = <<>> THEN e.at
    ELSE IF Len(Buffer) = 2 /\ Buffer[1] = e.at THEN Buffer[2]
    ELSE Buffer[1]
Emptied == [lifted EXCEPT ![Turn] = <<>>]

PutBack_Remembers ==
    /\ Forwarded /\ InBuffer /\ Len(Buffer) # 2
    /\ Noted
    /\ UNCHANGED <<players, correction, game, tasks>>

\* put back, or a nudged piece returned
PutBack ==
    /\ Forwarded /\ Len(Buffer) # 2
    /\ \E i \in DOMAIN Buffer:
        /\ Buffer[i] = e.at
        /\ lifted' = [lifted EXCEPT ![Turn] = RemoveAt(@, i)]
    /\ Noted
    /\ UNCHANGED <<pending, thinking, correction, game, tasks>>

Forms == Forwarded /\ ~(InBuffer /\ Len(Buffer) # 2)

\* a human's move; one without a lift gets its source from the occupancy
HumanForms ==
    /\ Forms /\ Turn \notin Engines
    /\ IF From # e.at THEN PlayerMove(<<From, e.at>>, Emptied, correction)
       ELSE IF Sources(e.at) # {} THEN
            \E s \in Sources(e.at): PlayerMove(<<s, e.at>>, Emptied, correction)
       ELSE /\ Noted
            /\ UNCHANGED <<correction, game, players, tasks>>

\* an engine compares the move with its answer
EngineForms ==
    /\ Forms /\ Turn \in Engines
    /\ IF Waits /\ e.at = Answer[2] /\ From \in {e.at, Answer[1]}
       THEN PlayerMove(Answer, Emptied, correction)
       ELSE /\ correction' = (correction \/ ~Waits \/ From = e.at)
            /\ lifted' = Emptied
            /\ Noted
            /\ UNCHANGED <<pending, thinking, game, tasks>>

-----------------------------------------------------------------------------
\* The engines and the task worker

EngineCommits(s) ==
    /\ thinking[s] # NoPosition
    /\ "overtake" \in Conditions \/ tasks = 0
    /\ \E m \in Legal(thinking[s], s):
        /\ pending' = [pending EXCEPT ![s] = [move |-> m, at |-> thinking[s]]]
        /\ toShow' = toShow \cup {m}
    /\ thinking' = [thinking EXCEPT ![s] = NoPosition]
    /\ UNCHANGED <<hands, events, game, moveState, correction, lifted, tasks, worker>>

\* on_pending_move
EngineShows(m) ==
    /\ m \in toShow /\ toShow' = toShow \ {m}
    /\ forced' = TRUE
    /\ correction' = (correction \/ ~InPlace)
    /\ UNCHANGED <<hands, events, game, source, pendingSource, captureSeen, rookPending,
                   players, tasks, worker>>

WorkerAnnounces_Invalidates ==
    /\ worker = "idle" /\ tasks > 0
    /\ tasks' = tasks - 1 /\ worker' = "judge"
    /\ pending' = [s \in Sides |-> NoAnswer] /\ thinking' = [s \in Sides |-> NoPosition]
    /\ UNCHANGED <<hands, events, game, moveState, correction, lifted, toShow>>

\* the move callback of a post-move task: on_move_made of both players
WorkerAnnounces ==
    /\ worker = "idle" /\ tasks > 0
    /\ tasks' = tasks - 1 /\ worker' = "judge"
    /\ LET told == {s \in Engines: thinking[s] = NoPosition} IN
       /\ pending' = [s \in Sides |-> IF s \in told THEN NoAnswer ELSE pending[s]]
       /\ lifted' = [s \in Sides |-> IF s \in told THEN <<>> ELSE lifted[s]]
    /\ UNCHANGED <<hands, events, game, moveState, correction, thinking, toShow>>

\* the board is compared with the game after the move
WorkerJudges ==
    /\ worker = "judge"
    /\ \/ /\ rookPending = NoMove /\ ~InPlace
          /\ worker' = "enter"
       \/ /\ rookPending # NoMove \/ InPlace \/ "busy" \in Conditions
          /\ worker' = "idle"
    /\ UNCHANGED <<hands, events, game, moveState, correction, players, toShow, tasks>>

WorkerEnters ==
    /\ worker = "enter" /\ worker' = "idle"
    /\ correction' = TRUE
    /\ UNCHANGED <<hands, events, game, moveState, players, toShow, tasks>>

Hand == \E s \in Squares: Lift(s) \/ Place(s) \/ Bounce(s)
Handle ==
    \/ Takeback \/ FollowRook \/ FailToPush
    \/ CorrectByPending \/ CorrectByMove \/ NewGame \/ Resume \/ StillWrong
    \/ LiftRefused \/ LiftNoted
    \/ PlacePending \/ PlaceNoise \/ PlaceTooEarly \/ PlaceSettled
    \/ PutBack \/ HumanForms \/ EngineForms
Engine == (\E s \in Engines: EngineCommits(s)) \/ (\E m \in toShow: EngineShows(m))
Worker == WorkerAnnounces \/ WorkerJudges \/ WorkerEnters

Next == Hand \/ Handle \/ Engine \/ Worker

Spec == Init /\ [][Next]_vars

-----------------------------------------------------------------------------
\* Properties

Quiet == events = <<>> /\ tasks = 0 /\ worker = "idle" /\ toShow = {}
NothingInHand ==
    /\ source = NoSquare /\ pendingSource = NoSquare /\ rookPending = NoMove
    /\ \A s \in Sides: lifted[s] = <<>>

\* Once every event has been handled and the worker has looked at the board, a
\* board that lacks a piece of the game is in correction mode or in the middle of
\* a move the referee knows of, a player's own or the answer that is indicated: no
\* piece goes missing unnoticed (field_events, validate_physical_board_after_move).
NothingMissing ==
    Quiet /\ NothingInHand /\ ~Waits /\ ~correction => Occupied(pos) \subseteq phys

\* When all is quiet and it is an engine's turn, the engine has an answer to this
\* very position or is computing one: the game does not wait for nobody
\* (request_move, _commit of the think thread, on_move_made).
EngineIsAsked ==
    Quiet /\ Turn \in Engines /\ ~GameOver /\ ~correction /\ ~undone
        => thinking[Turn] = pos \/ pending[Turn].at = pos

\* A move made for an engine is the engine's answer to the position it is made in,
\* unless the players have just taken a move back, after which no engine is asked
\* (_side_to_move_forms_own_moves, _execute_pending_move_directly).
MadeForAnEngine == Turn \in Engines /\ ~undone /\ Len(past') = Len(past) + 1
AnswersFit ==
    [][MadeForAnEngine =>
        /\ pending[Turn].at = pos
        /\ pos' = After(pos, Turn, pending[Turn].move)
      ]_vars

\* A move is made for a human only when its piece has left its square: what was
\* lifted earlier and has been put back since does not move, unless a takeback left
\* it in the player's memory (on_piece_event, complete_destination_only_move).
PieceHasLeft ==
    [][Turn \notin Engines /\ ~undone /\ Len(past') = Len(past) + 1 =>
        \E m \in Legal(pos, Turn): pos' = After(pos, Turn, m) /\ m[1] \notin phys
      ]_vars

\* An engine that has an answer computes nothing, however requests, answers,
\* announcements, takebacks and new games interleave (_do_request_move,
\* _invalidate_pending).
OneAnswer == \A s \in Engines: thinking[s] # NoPosition => pending[s] = NoAnswer

\* A piece put back on its square, on a board that is then as the game has it, is
\* neither a move nor a mistake, again unless a takeback came before
\* (_on_player_error, _try_execute_normal_move_from_physical_state).  It does not
\* hold, and no run checks it: see the README.
PutBackHere == events # <<>> /\ ~e.lift /\ e.at = source /\ InPlace /\ ~Decided /\ ~correction
PutBackIsNoAction ==
    [][PutBackHere /\ ~undone /\ events' = Tail(events) =>
        pos' = pos /\ ~correction'
      ]_vars

=============================================================================
