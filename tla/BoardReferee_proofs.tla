-------------------------- MODULE BoardReferee_proofs --------------------------
(***************************************************************************)
(* Proofs about the referee, for every board, every reach of the pieces    *)
(* and every side an engine may play.                                      *)
(*                                                                         *)
(* Handlers are reduced to what they do first: HandledHow says that an     *)
(* event is a takeback, a new game, a return to play, a legal move, or no  *)
(* move at all.  Then come three invariants.  AskedInv: which engine is    *)
(* asked, thinks or has answered, and that it is about the position on the *)
(* board.  HandInv: what a human remembers to have lifted is off the       *)
(* board.  MissingInv: a piece that is off the board is on its way to the  *)
(* referee, remembered, or about to be looked for.  A theorem names what   *)
(* must be absent for it to hold.                                          *)
(***************************************************************************)
EXTENDS BoardReferee, TLAPS

-----------------------------------------------------------------------------
(* Chess                                                                   *)

LEMMA NoPositionIsNone == NoPosition \notin Positions
<1> SUFFICES ASSUME <<>> \in Positions PROVE FALSE
  BY DEF NoPosition
<1>1. DOMAIN <<>> = Squares
  BY DEF Positions
<1>2. DOMAIN <<>> = {}
  OBVIOUS
<1> QED BY <1>1, <1>2, SquaresAssumption

LEMMA Squared == NoSquare \notin Squares /\ Squares \subseteq Nat
  BY SquaresAssumption

LEMMA StepsJoin ==
    ASSUME NEW m \in Steps
    PROVE  m[1] \in Squares /\ m[2] \in Squares /\ m # NoMove
  BY DEF Steps, NoMove

LEMMA LegalSteps ==
    ASSUME NEW p \in Positions, NEW side \in Sides
    PROVE  Legal(p, side) \subseteq Steps
  BY ReachAssumption, CastlesAssumption DEF Legal

LEMMA SteppedFits ==
    ASSUME NEW p \in Positions, NEW m \in Steps
    PROVE  Stepped(p, m) \in Positions
<1>1. m[1] \in Squares /\ m[2] \in Squares
  BY StepsJoin
<1>2. p[m[1]] \in Sides \cup {"none"}
  BY <1>1 DEF Positions
<1>3. [p EXCEPT ![m[1]] = "none"] \in Positions
  BY <1>1 DEF Positions
<1>4. [[p EXCEPT ![m[1]] = "none"] EXCEPT ![m[2]] = p[m[1]]] \in Positions
  BY <1>1, <1>2, <1>3 DEF Positions
<1> QED BY <1>4 DEF Stepped

LEMMA RookSteps ==
    ASSUME NEW side \in Sides, NEW m, Castling(side, m) # {}
    PROVE  (CHOOSE c \in Castling(side, m): TRUE).rook \in Steps
<1>1. Castling(side, m) \subseteq [king: Steps, rook: Steps]
  BY CastlesAssumption DEF Castling
<1>2. (CHOOSE c \in Castling(side, m): TRUE) \in Castling(side, m)
  OBVIOUS
<1> QED BY <1>1, <1>2

LEMMA AfterFits ==
    ASSUME NEW p \in Positions, NEW side \in Sides, NEW m \in Steps
    PROVE  After(p, side, m) \in Positions
<1>1. CASE Castling(side, m) = {}
  BY <1>1, SteppedFits DEF After
<1>2. CASE Castling(side, m) # {}
  BY <1>2, SteppedFits, RookSteps DEF After
<1> QED BY <1>1, <1>2

LEMMA TurnIsASide ==
    ASSUME past \in Seq(Positions)
    PROVE  /\ Turn \in Sides /\ Other(Turn) \in Sides /\ Other(Turn) # Turn
           /\ \A s \in Sides: s # Turn => s = Other(Turn)
  BY DEF Turn, Other, Sides

LEMMA TurnPasses ==
    ASSUME past \in Seq(Positions), NEW p, past' = Append(past, p)
    PROVE  Turn' = Other(Turn)
<1>1. Len(past) \in Nat /\ Len(past') = Len(past) + 1
  OBVIOUS
<1> QED BY <1>1 DEF Turn, Other

LEMMA WhiteBegins ==
    ASSUME past' = <<>>
    PROVE  Turn' = "w"
<1>1. Len(past') = 0
  OBVIOUS
<1> QED BY <1>1 DEF Turn

LEMMA TurnStays ==
    ASSUME past' = past
    PROVE  Turn' = Turn
  BY DEF Turn

\* A sequence without one of its elements.
LEMMA RemovedAt ==
    ASSUME NEW S, NEW s \in Seq(S), NEW i \in DOMAIN s, NEW t, t = RemoveAt(s, i)
    PROVE  /\ t \in Seq(S) /\ Len(t) = Len(s) - 1
           /\ \A j \in 1..Len(t): t[j] = IF j < i THEN s[j] ELSE s[j + 1]
<1>0. i \in 1..Len(s) /\ Len(s) \in Nat
  OBVIOUS
<1> DEFINE a == SubSeq(s, 1, i - 1)
           b == SubSeq(s, i + 1, Len(s))
<1>1. a \in Seq(S) /\ Len(a) = i - 1 /\ \A j \in 1..(i - 1): a[j] = s[j]
  BY <1>0
<1>2. b \in Seq(S) /\ Len(b) = Len(s) - i /\ \A j \in 1..(Len(s) - i): b[j] = s[i + j]
  BY <1>0
<1>3. t = a \o b
  BY DEF RemoveAt
<1> HIDE DEF a, b
<1> QED BY <1>0, <1>1, <1>2, <1>3

-----------------------------------------------------------------------------
(* Types                                                                   *)

Distinct(buf) == \A i, j \in DOMAIN buf: buf[i] = buf[j] => i = j
Buffers == {f \in [Sides -> Seq(Squares)]: \A s \in Sides: Distinct(f[s])}
Pendings == [Sides -> Answers \cup {NoAnswer}]

BoardFits == phys \subseteq Squares /\ hand \in 0..MaxHand
EventsFit ==
    /\ events \in Seq([lift: BOOLEAN, at: Squares]) /\ Len(events) <= MaxEvents
    /\ tasks \in Nat /\ tasks + Len(events) <= MaxTasks + MaxEvents
GameFits == pos \in Positions /\ past \in Seq(Positions) /\ undone \in BOOLEAN
NotesFit ==
    /\ source \in Squares \cup {NoSquare} /\ pendingSource \in Squares \cup {NoSquare}
    /\ captureSeen \subseteq Squares /\ forced \in BOOLEAN
    /\ rookPending \in Steps \cup {NoMove}
ModeFits == correction \in BOOLEAN
PlayersFit ==
    /\ lifted \in Buffers /\ pending \in Pendings
    /\ thinking \in [Sides -> Positions \cup {NoPosition}]
ShownFit == toShow \subseteq Steps /\ worker \in {"idle", "judge", "enter"}

TypeInv ==
    BoardFits /\ EventsFit /\ GameFits /\ NotesFit /\ ModeFits /\ PlayersFit /\ ShownFit

LEMMA BoundsFit == MaxHand \in Nat /\ MaxLifts \in Nat /\ MaxEvents \in Nat /\ MaxTasks \in Nat
  BY BoundsAssumption

LEMMA TypeInit == Init => TypeInv
<1> SUFFICES ASSUME Init PROVE TypeInv
  OBVIOUS
<1>1. BoardFits
  BY BoundsFit DEF Init, BoardFits, Occupied
<1>2. EventsFit
  BY BoundsFit DEF Init, EventsFit
<1>3. GameFits
  <2>1. pos = Setup /\ past = <<>> /\ undone = FALSE
    BY DEF Init
  <2>2. past \in Seq(Positions)
    BY <2>1
  <2> QED BY <2>1, <2>2, SetupAssumption DEF GameFits
<1>4. NotesFit /\ ModeFits
  BY DEF Init, NotesFit, ModeFits
<1>5. lifted \in Buffers
  <2>1. \A s \in Sides: lifted[s] = <<>>
    BY DEF Init
  <2>2. Distinct(<<>>)
    BY DEF Distinct
  <2> QED BY <2>1, <2>2 DEF Init, Buffers
<1>6. PlayersFit
  BY <1>5, SetupAssumption DEF Init, PlayersFit, Pendings
<1>7. ShownFit
  BY DEF Init, ShownFit
<1> QED BY <1>1, <1>2, <1>3, <1>4, <1>6, <1>7 DEF TypeInv

LEMMA TypesAreIn == TypeInv => TypeOK
<1> SUFFICES ASSUME TypeInv PROVE TypeOK
  OBVIOUS
<1>1. lifted \in [Sides -> Seq(Squares)]
  BY DEF TypeInv, PlayersFit, Buffers
<1>2. \A s \in Sides: \A i, j \in DOMAIN lifted[s]: lifted[s][i] = lifted[s][j] => i = j
  BY DEF TypeInv, PlayersFit, Buffers, Distinct
<1>3. tasks \in 0..(MaxTasks + MaxEvents)
  <2>1. tasks \in Nat /\ Len(events) \in Nat /\ tasks + Len(events) <= MaxTasks + MaxEvents
    BY DEF TypeInv, EventsFit
  <2>2. MaxTasks + MaxEvents \in Nat
    BY BoundsFit
  <2> QED BY <2>1, <2>2
<1>4. pending \in [Sides -> Answers \cup {NoAnswer}]
  BY DEF TypeInv, PlayersFit, Pendings
<1> QED BY <1>1, <1>2, <1>3, <1>4
    DEF TypeOK, TypeInv, BoardFits, EventsFit, GameFits, NotesFit, ModeFits, PlayersFit, ShownFit

-----------------------------------------------------------------------------
(* What the handlers of an event do                                        *)

\* The event in hand.
LEMMA EventFits ==
    ASSUME TypeInv, Handling
    PROVE  /\ e.lift \in BOOLEAN /\ e.at \in Squares
           /\ events' \in Seq([lift: BOOLEAN, at: Squares]) /\ Len(events') = Len(events) - 1
           /\ Len(events) \in Nat /\ Len(events) > 0
<1>1. events \in Seq([lift: BOOLEAN, at: Squares]) /\ events # <<>> /\ events' = Tail(events)
  BY DEF TypeInv, EventsFit, Handling
<1> DEFINE E == [lift: BOOLEAN, at: Squares]
<1>0. events \in Seq(E)
  BY <1>1
<1> HIDE DEF E
<1>2. Head(events) \in E /\ events' \in Seq(E) /\ Len(events') = Len(events) - 1
      /\ Len(events) \in Nat /\ Len(events) > 0
  BY <1>0, <1>1
<1> QED BY <1>2 DEF e, E

LEMMA NowFits ==
    ASSUME TypeInv, Handling
    PROVE  /\ SourceNow \in Squares \cup {NoSquare}
           /\ PendingSourceNow \in Squares \cup {NoSquare}
           /\ CaptureSeenNow \subseteq Squares
<1>1. e.at \in Squares
  BY EventFits
<1>2. SourceNow \in Squares \cup {NoSquare}
  BY <1>1 DEF TypeInv, NotesFit, SourceNow
<1>3. PendingSourceNow \in Squares \cup {NoSquare}
  BY <1>1 DEF TypeInv, NotesFit, PendingSourceNow
<1>4. CaptureSeenNow \subseteq Squares
  <2>1. CaptureSeenNow \subseteq captureSeen \cup {e.at}
    <3>1. CaptureSeenNow = captureSeen \/ CaptureSeenNow = captureSeen \cup {e.at}
      BY DEF CaptureSeenNow
    <3> QED BY <3>1
  <2>2. captureSeen \subseteq Squares
    BY DEF TypeInv, NotesFit
  <2> HIDE DEF CaptureSeenNow
  <2> QED BY <1>1, <2>1, <2>2
<1> QED BY <1>2, <1>3, <1>4

LEMMA NotedFits ==
    ASSUME TypeInv, Handling, Noted
    PROVE  NotesFit'
  BY NowFits DEF TypeInv, NotesFit, Noted

\* A buffer that is emptied for one side.
LEMMA EmptiedFits ==
    ASSUME NEW buf \in Buffers, NEW s \in Sides
    PROVE  [buf EXCEPT ![s] = <<>>] \in Buffers
<1>1. Distinct(<<>>)
  BY DEF Distinct
<1> QED BY <1>1 DEF Buffers

LEMMA AskFits ==
    ASSUME TypeInv, NEW side \in Sides, NEW p \in Positions, NEW pend \in Pendings,
           NEW buf \in Buffers, Ask(side, p, pend, buf)
    PROVE  PlayersFit'
<1>1. lifted' \in Buffers
  BY EmptiedFits DEF Ask
<1>2. pending' \in Pendings
  BY DEF Ask
<1>3. thinking' \in [Sides -> Positions \cup {NoPosition}]
  <2>1. thinking' = thinking \/ thinking' = [thinking EXCEPT ![side] = p]
    BY DEF Ask
  <2> QED BY <2>1 DEF TypeInv, PlayersFit
<1> QED BY <1>1, <1>2, <1>3 DEF PlayersFit

LEMMA KeepFits ==
    ASSUME TypeInv, NEW pend \in Pendings, NEW buf \in Buffers, KeepPlayers(pend, buf)
    PROVE  PlayersFit'
  BY DEF KeepPlayers, TypeInv, PlayersFit

LEMMA ExecuteFits ==
    ASSUME TypeInv, NEW m \in Steps, NEW pend \in Pendings, NEW buf \in Buffers,
           NEW corrected \in BOOLEAN, Execute(m, pend, buf, corrected)
    PROVE  GameFits' /\ NotesFit' /\ ModeFits' /\ PlayersFit' /\ tasks' \in {tasks, tasks + 1}
<1>0. pos \in Positions /\ past \in Seq(Positions) /\ undone \in BOOLEAN
  BY DEF TypeInv, GameFits
<1>1. Turn \in Sides /\ Other(Turn) \in Sides
  BY <1>0, TurnIsASide
<1> DEFINE p == After(pos, Turn, m)
<1>2. p \in Positions
  BY <1>0, <1>1, AfterFits
<1>3. CASE m \in Legal(pos, Turn)
  <2>1. past' = Append(past, pos) /\ pos' = p /\ ~undone' /\ undone' \in BOOLEAN
        /\ tasks' = tasks + 1 /\ correction' = corrected
        /\ source' = NoSquare /\ pendingSource' = NoSquare /\ captureSeen' = {}
        /\ forced' = FALSE
    BY <1>3 DEF Execute
  <2>2. rookPending' \in Steps \cup {NoMove}
    BY <1>1, <1>3, RookSteps DEF Execute
  <2>3. Ask(Other(Turn), p, pend, buf) \/ KeepPlayers(pend, buf)
    BY <1>3 DEF Execute
  <2>4. PlayersFit'
    BY <1>1, <1>2, <2>3, AskFits, KeepFits
  <2>5. GameFits'
    BY <1>0, <1>2, <2>1 DEF GameFits
  <2>6. NotesFit' /\ ModeFits'
    BY <2>1, <2>2 DEF NotesFit, ModeFits
  <2> QED BY <2>1, <2>4, <2>5, <2>6
<1>4. CASE m \notin Legal(pos, Turn)
  <2>1. /\ UNCHANGED <<game, tasks>> /\ KeepPlayers(pend, buf) /\ correction' = TRUE
        /\ source' = NoSquare /\ pendingSource' = NoSquare /\ captureSeen' = {}
        /\ forced' = FALSE /\ rookPending' = NoMove
    BY <1>4 DEF Execute
  <2>2. GameFits' /\ tasks' = tasks
    BY <1>0, <2>1 DEF GameFits, game
  <2>3. NotesFit' /\ ModeFits'
    BY <2>1 DEF NotesFit, ModeFits
  <2> QED BY <2>1, <2>2, <2>3, KeepFits
<1> QED BY <1>3, <1>4

LEMMA PlayerMoveFits ==
    ASSUME TypeInv, Handling, NEW m \in Steps, NEW buf \in Buffers,
           NEW corrected \in BOOLEAN, PlayerMove(m, buf, corrected)
    PROVE  GameFits' /\ NotesFit' /\ ModeFits' /\ PlayersFit' /\ tasks' \in {tasks, tasks + 1}
<1>0. pending \in Pendings
  BY DEF TypeInv, PlayersFit
<1>1. CASE m \in Legal(pos, Turn)
  BY <1>0, <1>1, ExecuteFits DEF PlayerMove
<1>2. CASE m \notin Legal(pos, Turn)
  <2>1. /\ correction' = TRUE /\ Noted /\ KeepPlayers(pending, buf)
        /\ UNCHANGED <<pos, past, undone, tasks>>
    BY <1>2 DEF PlayerMove, game
  <2>2. GameFits' /\ ModeFits' /\ tasks' = tasks
    BY <2>1 DEF TypeInv, GameFits, ModeFits
  <2> QED BY <1>0, <2>1, <2>2, NotedFits, KeepFits
<1> QED BY <1>1, <1>2

LEMMA ExecutePendingFits ==
    ASSUME TypeInv, Waits, ExecutePending
    PROVE  GameFits' /\ NotesFit' /\ ModeFits' /\ PlayersFit' /\ tasks' \in {tasks, tasks + 1}
<1>0. Turn \in Sides
  BY TurnIsASide DEF TypeInv, GameFits
<1>1. pending[Turn] \in Answers /\ pending[Turn].move \in Steps
  BY <1>0 DEF TypeInv, PlayersFit, Pendings, Waits, Answer, NoAnswer, Answers
<1>2. [pending EXCEPT ![Turn] = NoAnswer] \in Pendings
  BY <1>0 DEF TypeInv, PlayersFit, Pendings
<1>3. [lifted EXCEPT ![Turn] = <<>>] \in Buffers
  BY <1>0, EmptiedFits DEF TypeInv, PlayersFit
<1>4. correction \in BOOLEAN
  BY DEF TypeInv, ModeFits
<1> QED BY <1>1, <1>2, <1>3, <1>4, ExecuteFits DEF ExecutePending

\* An event that is noted, and may lead to correction mode.
LEMMA StandsByDoes ==
    ASSUME StillWrong \/ FailToPush \/ LiftRefused \/ PlaceNoise \/ PlaceTooEarly
    PROVE  /\ Handling /\ Noted /\ ~Decided
           /\ UNCHANGED <<pos, past, undone, lifted, pending, thinking, tasks>>
           /\ correction' = correction \/ correction' = TRUE
  BY DEF StillWrong, FailToPush, LiftRefused, PlaceNoise, PlaceTooEarly, Correcting, Playing,
         game, players

\* A position that is one legal move away is that move.
LEMMA ShownDoes ==
    ASSUME TypeInv, CorrectByMove \/ PlaceSettled
    PROVE  /\ Handling /\ ~Decided /\ ~Waits
           /\ \E m \in Shown(source, e.at), c \in BOOLEAN:
                /\ m \in Legal(pos, Turn) /\ phys = Occupied(After(pos, Turn, m))
                /\ Execute(m, pending, lifted, c)
<1>1. /\ Handling /\ ~Decided /\ ~Waits
      /\ \E m \in Shown(source, e.at), c \in BOOLEAN: PlayerMove(m, lifted, c)
  BY DEF CorrectByMove, PlaceSettled, MovedAnyway, Settled, Correcting, Playing, TypeInv, ModeFits
<1>2. \A m \in Shown(source, e.at): m \in Matching(source)
  BY DEF Shown
<1>3. \A m \in Matching(source):
        m \in Legal(pos, Turn) /\ phys = Occupied(After(pos, Turn, m))
  BY DEF Matching
<1> QED BY <1>1, <1>2, <1>3 DEF PlayerMove

\* Where the move a human forms begins.
FromHand(m) ==
    \/ /\ m = <<From, e.at>> /\ From # e.at
       /\ \E i \in DOMAIN Buffer: From = Buffer[i]
    \/ \E s \in Sources(e.at): m = <<s, e.at>>

LEMMA HumanDoes ==
    ASSUME TypeInv, HumanForms
    PROVE  /\ Handling /\ ~Decided /\ ~e.lift /\ Turn \notin Engines /\ ~correction
           /\ \/ \E m \in Steps: FromHand(m) /\ PlayerMove(m, Emptied, correction)
              \/ /\ Noted /\ UNCHANGED <<correction, game, players, tasks>>
                 /\ From = e.at /\ (InBuffer => Len(Buffer) = 2)
<1>1. /\ Handling /\ ~Decided /\ ~e.lift /\ Turn \notin Engines /\ ~correction
      /\ (InBuffer => Len(Buffer) = 2)
  BY DEF HumanForms, Forms, Forwarded, Playing
<1>2. e.at \in Squares
  BY <1>1, EventFits
<1>3. CASE From # e.at
  <2>1. PlayerMove(<<From, e.at>>, Emptied, correction)
    BY <1>3 DEF HumanForms
  <2>2. \E i \in DOMAIN Buffer: From = Buffer[i]
    <3>1. Turn \in Sides
      BY TurnIsASide DEF TypeInv, GameFits
    <3>2. Buffer \in Seq(Squares)
      BY <3>1 DEF Buffer, TypeInv, PlayersFit, Buffers
    <3>3. Buffer # <<>>
      BY <1>3 DEF From
    <3>4. Len(Buffer) \in Nat /\ Len(Buffer) > 0
      BY <3>2, <3>3
    <3>5. From = Buffer[1] \/ (Len(Buffer) = 2 /\ From = Buffer[2])
      BY <3>3 DEF From
    <3>6. DOMAIN Buffer = 1..Len(Buffer)
      BY <3>2
    <3> QED BY <3>4, <3>5, <3>6
  <2>3. From \in Squares
    BY <2>2, TurnIsASide DEF Buffer, TypeInv, GameFits, PlayersFit, Buffers
  <2>4. <<From, e.at>> \in Steps
    BY <1>2, <2>3 DEF Steps
  <2> QED BY <1>1, <1>3, <2>1, <2>2, <2>4 DEF FromHand
<1>4. CASE From = e.at /\ Sources(e.at) # {}
  <2>1. PICK s \in Sources(e.at): PlayerMove(<<s, e.at>>, Emptied, correction)
    BY <1>4 DEF HumanForms
  <2>2. Sources(e.at) \subseteq Squares
    BY DEF Sources, LeftSquares, Occupied
  <2>3. <<s, e.at>> \in Steps
    BY <1>2, <2>1, <2>2 DEF Steps
  <2> QED BY <1>1, <2>1, <2>3 DEF FromHand
<1>5. CASE From = e.at /\ Sources(e.at) = {}
  BY <1>1, <1>5 DEF HumanForms
<1> QED BY <1>3, <1>4, <1>5

LEMMA EngineDoes ==
    ASSUME EngineForms
    PROVE  /\ Handling /\ ~Decided /\ ~e.lift /\ Turn \in Engines
           /\ \/ Waits /\ PlayerMove(Answer, Emptied, correction)
              \/ /\ Noted /\ UNCHANGED <<pending, thinking, pos, past, undone, tasks>>
                 /\ lifted' = Emptied
                 /\ correction' = (correction \/ ~Waits \/ From = e.at)
  BY DEF EngineForms, Forms, Forwarded, Playing, game

-----------------------------------------------------------------------------
(* Types are kept                                                          *)

LEMMA MadeFits ==
    ASSUME TypeInv, CorrectByMove \/ PlaceSettled
    PROVE  GameFits' /\ NotesFit' /\ ModeFits' /\ PlayersFit' /\ tasks' \in {tasks, tasks + 1}
<1>1. PICK m \in Shown(source, e.at), c \in BOOLEAN:
        m \in Legal(pos, Turn) /\ Execute(m, pending, lifted, c)
  BY ShownDoes
<1>2. m \in Steps
  BY <1>1, LegalSteps, TurnIsASide DEF TypeInv, GameFits
<1>3. pending \in Pendings /\ lifted \in Buffers
  BY DEF TypeInv, PlayersFit
<1> QED BY <1>1, <1>2, <1>3, ExecuteFits

LEMMA FormedFits ==
    ASSUME TypeInv, HumanForms \/ EngineForms
    PROVE  GameFits' /\ NotesFit' /\ ModeFits' /\ PlayersFit' /\ tasks' \in {tasks, tasks + 1}
<1>1. Turn \in Sides /\ correction \in BOOLEAN /\ pending \in Pendings /\ lifted \in Buffers
  BY TurnIsASide DEF TypeInv, GameFits, ModeFits, PlayersFit
<1>2. Emptied \in Buffers
  BY <1>1, EmptiedFits DEF Emptied
<1>3. CASE HumanForms
  <2>1. Handling
    BY <1>3, HumanDoes
  <2>2. CASE \E m \in Steps: PlayerMove(m, Emptied, correction)
    BY <1>1, <1>2, <2>1, <2>2, PlayerMoveFits
  <2>3. CASE Noted /\ UNCHANGED <<correction, game, players, tasks>>
    <3>1. NotesFit'
      BY <2>1, <2>3, NotedFits
    <3> QED BY <2>3, <3>1 DEF TypeInv, GameFits, ModeFits, PlayersFit, game, players
  <2> QED BY <1>3, <2>2, <2>3, HumanDoes
<1>4. CASE EngineForms
  <2>1. Handling
    BY <1>4, EngineDoes
  <2>2. CASE Waits /\ PlayerMove(Answer, Emptied, correction)
    <3>1. Answer \in Steps
      BY <1>1, <2>2 DEF Pendings, Waits, Answer, NoAnswer, Answers
    <3> QED BY <1>1, <1>2, <2>1, <2>2, <3>1, PlayerMoveFits
  <2>3. CASE /\ Noted /\ UNCHANGED <<pending, thinking, pos, past, undone, tasks>>
             /\ lifted' = Emptied
             /\ correction' = (correction \/ ~Waits \/ From = e.at)
    <3>1. NotesFit'
      BY <2>1, <2>3, NotedFits
    <3>2. ModeFits'
      BY <2>3 DEF ModeFits
    <3> QED BY <1>1, <1>2, <2>3, <3>1, <3>2 DEF TypeInv, GameFits, PlayersFit
  <2> QED BY <1>4, <2>2, <2>3, EngineDoes
<1> QED BY <1>3, <1>4

LEMMA LiftedFits ==
    ASSUME TypeInv, LiftNoted \/ PutBack
    PROVE  lifted' \in Buffers
<1>1. Turn \in Sides /\ lifted \in Buffers /\ lifted[Turn] \in Seq(Squares)
      /\ Distinct(lifted[Turn])
  BY TurnIsASide DEF TypeInv, GameFits, PlayersFit, Buffers
<1>2. e.at \in Squares
  BY EventFits DEF LiftNoted, PutBack, Playing, Forwarded
<1>3. ASSUME NEW b \in Seq(Squares), Distinct(b) PROVE [lifted EXCEPT ![Turn] = b] \in Buffers
  BY <1>1, <1>3 DEF Buffers
<1>4. CASE LiftNoted
  <2>1. CASE lifted' = lifted
    BY <1>1, <2>1
  <2>2. CASE /\ lifted' = [lifted EXCEPT ![Turn] = Append(lifted[Turn], e.at)]
             /\ \A i \in DOMAIN lifted[Turn]: lifted[Turn][i] # e.at
    <3> DEFINE a == lifted[Turn]
               b == Append(a, e.at)
    <3>1. /\ b \in Seq(Squares) /\ Len(b) = Len(a) + 1 /\ b[Len(a) + 1] = e.at
          /\ \A i \in 1..Len(a): b[i] = a[i]
          /\ DOMAIN a = 1..Len(a) /\ DOMAIN b = 1..Len(b) /\ Len(a) \in Nat
      BY <1>1, <1>2
    <3>2. Distinct(a) /\ \A i \in DOMAIN a: a[i] # e.at
      BY <1>1, <2>2
    <3> HIDE DEF a, b
    <3>3. Distinct(b)
      BY <3>1, <3>2 DEF Distinct
    <3> QED BY <1>3, <2>2, <3>1, <3>3 DEF a, b
  <2> QED BY <1>4, <2>1, <2>2 DEF LiftNoted
<1>5. CASE PutBack
  <2>1. PICK i \in DOMAIN lifted[Turn]:
          lifted' = [lifted EXCEPT ![Turn] = RemoveAt(lifted[Turn], i)]
    BY <1>5 DEF PutBack, Buffer
  <2> DEFINE a == lifted[Turn]
             b == RemoveAt(a, i)
  <2>2. /\ b \in Seq(Squares) /\ Len(b) = Len(a) - 1
        /\ \A j \in 1..Len(b): b[j] = IF j < i THEN a[j] ELSE a[j + 1]
    <3>1. a \in Seq(Squares) /\ i \in DOMAIN a
      BY <1>1
    <3> HIDE DEF a
    <3> QED BY <3>1, RemovedAt
  <2>3. DOMAIN a = 1..Len(a) /\ DOMAIN b = 1..Len(b) /\ Len(a) \in Nat /\ i \in 1..Len(a)
        /\ Distinct(a)
    BY <1>1, <2>2
  <2>4. [lifted EXCEPT ![Turn] = b] = lifted'
    BY <2>1
  <2> HIDE DEF a, b
  <2>5. Distinct(b)
    BY <2>2, <2>3 DEF Distinct
  <2> QED BY <1>3, <2>2, <2>4, <2>5
<1> QED BY <1>4, <1>5

LEMMA HandledFits ==
    ASSUME TypeInv, Handle
    PROVE  /\ GameFits' /\ NotesFit' /\ ModeFits' /\ PlayersFit'
           /\ tasks' \in {tasks, tasks + 1} /\ Handling
<1>1. Turn \in Sides /\ correction \in BOOLEAN /\ pending \in Pendings /\ lifted \in Buffers
  BY TurnIsASide DEF TypeInv, GameFits, ModeFits, PlayersFit
<1>2. pos \in Positions /\ past \in Seq(Positions) /\ undone \in BOOLEAN
  BY DEF TypeInv, GameFits
<1>0. [s \in Sides |-> NoAnswer] \in Pendings
  BY DEF Pendings
<1>3. CASE Takeback
  <2>1. /\ past # <<>> /\ past' = SubSeq(past, 1, Len(past) - 1) /\ pos' = past[Len(past)]
        /\ undone' = TRUE /\ UNCHANGED <<correction, tasks>> /\ ResetMoveState /\ Handling
        /\ pending' = [s \in Sides |-> NoAnswer]
        /\ thinking' = [s \in Sides |-> NoPosition]
        /\ lifted' = [s \in Sides |-> IF s \in Engines THEN <<>> ELSE lifted[s]]
    BY <1>3 DEF Takeback, TakenBack, Before
  <2>2. past' \in Seq(Positions) /\ pos' \in Positions
    <3>1. Len(past) \in 1..Len(past)
      BY <1>2, <2>1
    <3> QED BY <1>2, <2>1, <3>1
  <2>3. GameFits' /\ ModeFits'
    BY <1>1, <2>1, <2>2 DEF GameFits, ModeFits
  <2>4. NotesFit'
    BY <2>1 DEF ResetMoveState, NotesFit
  <2>5. lifted' \in Buffers
    <3>1. Distinct(<<>>) /\ <<>> \in Seq(Squares)
      BY DEF Distinct
    <3> QED BY <1>1, <2>1, <3>1 DEF Buffers
  <2>6. PlayersFit'
    BY <1>0, <2>1, <2>5 DEF PlayersFit
  <2> QED BY <2>1, <2>3, <2>4, <2>6
<1>4. CASE FollowRook
  <2>1. /\ Handling /\ rookPending' \in {rookPending, NoMove}
        /\ UNCHANGED <<source, pendingSource, captureSeen, forced, pos, past, undone, lifted,
                       pending, thinking, tasks>>
        /\ correction' \in BOOLEAN
    BY <1>1, <1>4 DEF FollowRook, game, players
  <2> QED BY <2>1 DEF TypeInv, GameFits, NotesFit, ModeFits, PlayersFit
<1>5. CASE StillWrong \/ FailToPush \/ LiftRefused \/ PlaceNoise \/ PlaceTooEarly
  <2>1. /\ Handling /\ Noted /\ correction' \in BOOLEAN
        /\ UNCHANGED <<pos, past, undone, lifted, pending, thinking, tasks>>
    BY <1>1, <1>5, StandsByDoes
  <2>2. NotesFit'
    BY <2>1, NotedFits
  <2> QED BY <2>1, <2>2 DEF TypeInv, GameFits, ModeFits, PlayersFit
<1>6. CASE CorrectByPending \/ PlacePending
  <2>1. Handling /\ Waits /\ ExecutePending
    BY <1>6 DEF CorrectByPending, PlacePending, TranscribedAnyway, Correcting, Playing
  <2> QED BY <2>1, ExecutePendingFits
<1>7. CASE CorrectByMove \/ PlaceSettled
  BY <1>7, MadeFits, ShownDoes
<1>8. CASE HumanForms \/ EngineForms
  BY <1>8, FormedFits, HumanDoes, EngineDoes
<1>9. CASE NewGame
  <2>1. /\ pos' = Setup /\ past' = <<>> /\ undone' = FALSE /\ tasks' = tasks
        /\ correction' = FALSE /\ ResetMoveState /\ Handling
        /\ pending' = [s \in Sides |-> NoAnswer] /\ lifted' = [s \in Sides |-> <<>>]
        /\ thinking' = [s \in Sides |->
                          IF s \in Engines \cap {"w"} THEN Setup ELSE NoPosition]
    BY <1>9 DEF NewGame, Correcting
  <2>2. GameFits' /\ ModeFits'
    <3>1. past' \in Seq(Positions)
      BY <2>1
    <3> QED BY <2>1, <3>1, SetupAssumption DEF GameFits, ModeFits
  <2>4. NotesFit'
    BY <2>1 DEF ResetMoveState, NotesFit
  <2>5. lifted' \in Buffers
    <3>1. Distinct(<<>>) /\ <<>> \in Seq(Squares)
      BY DEF Distinct
    <3> QED BY <2>1, <3>1 DEF Buffers
  <2>6. PlayersFit'
    BY <1>0, <2>1, <2>5, SetupAssumption DEF PlayersFit
  <2> QED BY <2>1, <2>2, <2>4, <2>6
<1>10. CASE Resume
  <2>1. /\ Handling /\ correction' = FALSE /\ source' = NoSquare
        /\ pendingSource' = PendingSourceNow /\ captureSeen' = CaptureSeenNow
        /\ UNCHANGED <<forced, rookPending, pos, past, undone, tasks>>
        /\ UNCHANGED <<lifted, pending, thinking>> \/ Ask(Turn, pos, pending, lifted)
    BY <1>10 DEF Resume, Correcting, game, players
  <2>2. NotesFit'
    <3>1. PendingSourceNow \in Squares \cup {NoSquare} /\ CaptureSeenNow \subseteq Squares
      BY <2>1, NowFits
    <3> QED BY <2>1, <3>1 DEF TypeInv, NotesFit
  <2>3. PlayersFit'
    BY <1>1, <1>2, <2>1, AskFits DEF TypeInv, PlayersFit
  <2> QED BY <1>2, <2>1, <2>2, <2>3 DEF GameFits, ModeFits
<1>11. CASE LiftNoted \/ PutBack
  <2>1. /\ Handling /\ Noted
        /\ UNCHANGED <<pending, thinking, correction, pos, past, undone, tasks>>
    BY <1>11 DEF LiftNoted, PutBack, Playing, Forwarded, game
  <2>2. NotesFit'
    BY <2>1, NotedFits
  <2>3. lifted' \in Buffers
    BY <1>11, LiftedFits
  <2> QED BY <2>1, <2>2, <2>3 DEF TypeInv, GameFits, ModeFits, PlayersFit
<1> QED BY <1>3, <1>4, <1>5, <1>6, <1>7, <1>8, <1>9, <1>10, <1>11 DEF Handle

LEMMA TypeStep == TypeInv /\ [Next]_vars => TypeInv'
<1> SUFFICES ASSUME TypeInv, [Next]_vars PROVE TypeInv'
  OBVIOUS
<1>1. CASE UNCHANGED vars
  BY <1>1 DEF vars, TypeInv, BoardFits, EventsFit, GameFits, NotesFit, ModeFits, PlayersFit,
              ShownFit
<1>2. CASE Hand
  <2>1. PICK s \in Squares: Lift(s) \/ Place(s) \/ Bounce(s)
    BY <1>2 DEF Hand
  <2>2. /\ \E l \in BOOLEAN: events' = Append(events, [lift |-> l, at |-> s])
        /\ Len(events) < MaxEvents /\ tasks < MaxTasks
        /\ UNCHANGED <<pos, past, undone, source, pendingSource, captureSeen, forced,
                       rookPending, correction, lifted, pending, thinking, toShow, tasks, worker>>
    BY <2>1 DEF Lift, Place, Bounce, Sends, game, moveState, players
  <2>3. BoardFits'
    <3>1. phys \subseteq Squares /\ hand \in Nat /\ hand <= MaxHand /\ MaxHand \in Nat
      BY BoundsFit DEF TypeInv, BoardFits
    <3>2. CASE Lift(s)
      BY <3>1, <3>2 DEF Lift, BoardFits
    <3>3. CASE Place(s)
      BY <3>1, <3>3 DEF Place, BoardFits
    <3>4. CASE Bounce(s)
      BY <3>1, <3>4 DEF Bounce, hands, BoardFits
    <3> QED BY <2>1, <3>2, <3>3, <3>4
  <2>4. EventsFit'
    <3>1. PICK l \in BOOLEAN: events' = Append(events, [lift |-> l, at |-> s])
      BY <2>2
    <3>2. [lift |-> l, at |-> s] \in [lift: BOOLEAN, at: Squares]
      OBVIOUS
    <3>3. /\ events \in Seq([lift: BOOLEAN, at: Squares]) /\ tasks \in Nat
          /\ tasks' = tasks
      BY <2>2 DEF TypeInv, EventsFit
    <3>4. /\ events' \in Seq([lift: BOOLEAN, at: Squares]) /\ Len(events') = Len(events) + 1
          /\ Len(events) \in Nat
      BY <3>1, <3>2, <3>3
    <3> QED BY <2>2, <3>3, <3>4, BoundsFit DEF EventsFit
  <2> QED BY <2>2, <2>3, <2>4 DEF TypeInv, GameFits, NotesFit, ModeFits, PlayersFit, ShownFit
<1>3. CASE Handle
  <2>1. /\ GameFits' /\ NotesFit' /\ ModeFits' /\ PlayersFit'
        /\ tasks' \in {tasks, tasks + 1} /\ Handling
    BY <1>3, HandledFits
  <2>2. EventsFit'
    <3>1. /\ tasks \in Nat /\ tasks + Len(events) <= MaxTasks + MaxEvents
          /\ Len(events) <= MaxEvents
      BY DEF TypeInv, EventsFit
    <3> QED BY <2>1, <3>1, EventFits, BoundsFit DEF EventsFit
  <2>3. BoardFits' /\ ShownFit'
    BY <2>1 DEF Handling, hands, TypeInv, BoardFits, ShownFit
  <2> QED BY <2>1, <2>2, <2>3 DEF TypeInv
<1>4. ASSUME NEW s \in Engines, EngineCommits(s) PROVE TypeInv'
  <2>0. s \in Sides
    BY EnginesAssumption
  <2>1. PICK m \in Legal(thinking[s], s):
          /\ pending' = [pending EXCEPT ![s] = [move |-> m, at |-> thinking[s]]]
          /\ toShow' = toShow \cup {m}
    BY <1>4 DEF EngineCommits
  <2>2. /\ thinking[s] # NoPosition /\ thinking' = [thinking EXCEPT ![s] = NoPosition]
        /\ UNCHANGED <<phys, hand, events, pos, past, undone, source, pendingSource, captureSeen,
                       forced, rookPending, correction, lifted, tasks, worker>>
    BY <1>4 DEF EngineCommits, hands, game, moveState
  <2>3. thinking[s] \in Positions
    BY <2>0, <2>2 DEF TypeInv, PlayersFit
  <2>4. m \in Steps
    BY <2>0, <2>1, <2>3, LegalSteps
  <2>5. [move |-> m, at |-> thinking[s]] \in Answers
    BY <2>3, <2>4 DEF Answers
  <2>6. pending' \in Pendings
    BY <2>0, <2>1, <2>5 DEF TypeInv, PlayersFit, Pendings
  <2>7. PlayersFit'
    BY <2>0, <2>2, <2>6 DEF TypeInv, PlayersFit
  <2>8. ShownFit'
    BY <2>1, <2>2, <2>4 DEF TypeInv, ShownFit
  <2> QED BY <2>2, <2>7, <2>8 DEF TypeInv, BoardFits, EventsFit, GameFits, NotesFit, ModeFits
<1>5. ASSUME NEW m \in toShow, EngineShows(m) PROVE TypeInv'
  <2>1. /\ toShow' = toShow \ {m} /\ forced' = TRUE /\ correction' \in BOOLEAN
        /\ UNCHANGED <<phys, hand, events, pos, past, undone, source, pendingSource, captureSeen,
                       rookPending, lifted, pending, thinking, tasks, worker>>
    BY <1>5 DEF EngineShows, hands, game, players, TypeInv, ModeFits
  <2> QED BY <2>1
      DEF TypeInv, BoardFits, EventsFit, GameFits, NotesFit, ModeFits, PlayersFit, ShownFit
<1>6. CASE WorkerAnnounces
  <2>1. /\ tasks > 0 /\ tasks' = tasks - 1 /\ worker' = "judge"
        /\ \A s \in Sides: pending'[s] \in {NoAnswer, pending[s]}
        /\ \A s \in Sides: lifted'[s] \in {<<>>, lifted[s]}
        /\ \E f: pending' = [s \in Sides |-> f[s]]
        /\ \E f: lifted' = [s \in Sides |-> f[s]]
        /\ UNCHANGED <<phys, hand, events, pos, past, undone, source, pendingSource, captureSeen,
                       forced, rookPending, correction, thinking, toShow>>
    BY <1>6 DEF WorkerAnnounces, hands, game, moveState
  <2>2. pending' \in Pendings
    BY <2>1 DEF TypeInv, PlayersFit, Pendings
  <2>3. lifted' \in Buffers
    <3>1. Distinct(<<>>) /\ <<>> \in Seq(Squares)
      BY DEF Distinct
    <3>2. \A s \in Sides: lifted'[s] \in Seq(Squares) /\ Distinct(lifted'[s])
      BY <2>1, <3>1 DEF TypeInv, PlayersFit, Buffers
    <3>3. lifted' \in [Sides -> Seq(Squares)]
      BY <2>1, <3>2
    <3> QED BY <3>2, <3>3 DEF Buffers
  <2>4. EventsFit'
    <3>1. /\ tasks \in Nat /\ tasks + Len(events) <= MaxTasks + MaxEvents
          /\ events \in Seq([lift: BOOLEAN, at: Squares]) /\ Len(events) <= MaxEvents
      BY DEF TypeInv, EventsFit
    <3>2. Len(events) \in Nat /\ MaxTasks + MaxEvents \in Nat
      BY <3>1, BoundsFit
    <3>3. tasks - 1 \in Nat /\ (tasks - 1) + Len(events) <= MaxTasks + MaxEvents
      BY <2>1, <3>1, <3>2
    <3> QED BY <2>1, <3>1, <3>3 DEF EventsFit
  <2> QED BY <2>1, <2>2, <2>3, <2>4
      DEF TypeInv, BoardFits, GameFits, NotesFit, ModeFits, PlayersFit, ShownFit
<1>7. CASE WorkerJudges \/ WorkerEnters
  <2>1. /\ worker' \in {"idle", "judge", "enter"} /\ correction' \in BOOLEAN
        /\ UNCHANGED <<phys, hand, events, pos, past, undone, source, pendingSource, captureSeen,
                       forced, rookPending, lifted, pending, thinking, toShow, tasks>>
    BY <1>7 DEF WorkerJudges, WorkerEnters, hands, game, moveState, players, TypeInv, ModeFits
  <2> QED BY <2>1
      DEF TypeInv, BoardFits, EventsFit, GameFits, NotesFit, ModeFits, PlayersFit, ShownFit
<1> QED BY <1>1, <1>2, <1>3, <1>4, <1>5, <1>6, <1>7 DEF Next, Engine, Worker

\* Whatever is touched, asked and announced, every variable keeps its type: the events and
\* tasks stay within their bounds, and a player remembers a lifted square once.
THEOREM TypeCorrect == Spec => []TypeOK
<1> QED BY TypeInit, TypeStep, TypesAreIn, PTL DEF Spec

-----------------------------------------------------------------------------
(* How an event ends                                                       *)

Cleared == [pending EXCEPT ![Turn] = NoAnswer]

\* Whose move it is that is made: the engine's, one the occupancy shows, a human's.
ByAnswer(m) == Waits /\ m = Answer
ByShown(m) == ~Waits /\ phys = Occupied(After(pos, Turn, m))
ByHand(m) == Turn \notin Engines /\ ~correction /\ FromHand(m)

MoveIsMade ==
    \E m \in Legal(pos, Turn), c \in BOOLEAN,
       buf \in {lifted, Emptied}, pend \in {pending, Cleared}:
        /\ Execute(m, pend, buf, c)
        /\ ByAnswer(m) \/ ByShown(m) \/ ByHand(m)

NoMoveIsMade ==
    /\ UNCHANGED <<pos, past, undone, tasks, thinking>> /\ (forced' => forced)
    /\ pending' = pending \/ (Waits /\ Answer \notin Legal(pos, Turn))
    /\ \A s \in Sides: pending'[s] \in {NoAnswer, pending[s]}

LEMMA MadeOrNot ==
    ASSUME TypeInv, NEW m \in Steps, NEW buf \in {lifted, Emptied}, NEW c \in BOOLEAN,
           PlayerMove(m, buf, c), ByAnswer(m) \/ ByShown(m) \/ ByHand(m)
    PROVE  MoveIsMade \/ NoMoveIsMade
<1>1. CASE m \in Legal(pos, Turn)
  BY <1>1 DEF PlayerMove, MoveIsMade
<1>2. CASE m \notin Legal(pos, Turn)
  BY <1>2 DEF PlayerMove, KeepPlayers, NoMoveIsMade, Noted, game
<1> QED BY <1>1, <1>2

LEMMA HandledHow ==
    ASSUME TypeInv, Handle
    PROVE  Handling /\ (Takeback \/ NewGame \/ Resume \/ MoveIsMade \/ NoMoveIsMade)
<1> SUFFICES Takeback \/ NewGame \/ Resume \/ MoveIsMade \/ NoMoveIsMade
  BY HandledFits
<1>1. Turn \in Sides /\ correction \in BOOLEAN /\ pending \in Pendings
  BY TurnIsASide DEF TypeInv, GameFits, ModeFits, PlayersFit
<1>2. CASE FollowRook
  BY <1>2 DEF FollowRook, NoMoveIsMade, game, players
<1>3. CASE StillWrong \/ FailToPush \/ LiftRefused \/ PlaceNoise \/ PlaceTooEarly
  BY <1>3, StandsByDoes DEF NoMoveIsMade, Noted
<1>4. CASE CorrectByPending \/ PlacePending
  <2>1. Waits /\ Execute(Answer, Cleared, Emptied, correction)
    BY <1>4 DEF CorrectByPending, PlacePending, TranscribedAnyway, Correcting, Playing,
                ExecutePending, Cleared, Emptied, Answer
  <2>2. CASE Answer \in Legal(pos, Turn)
    BY <1>1, <2>1, <2>2 DEF MoveIsMade, ByAnswer
  <2>3. CASE Answer \notin Legal(pos, Turn)
    <3>1. /\ UNCHANGED <<pos, past, undone, tasks, thinking>> /\ pending' = Cleared
          /\ forced' = FALSE
      BY <2>1, <2>3 DEF Execute, KeepPlayers, game
    <3>2. \A s \in Sides: pending'[s] \in {NoAnswer, pending[s]}
      BY <1>1, <3>1 DEF Cleared, Pendings
    <3> QED BY <2>1, <2>3, <3>1, <3>2 DEF NoMoveIsMade
  <2> QED BY <2>2, <2>3
<1>5. CASE CorrectByMove \/ PlaceSettled
  <2>1. /\ ~Waits
        /\ \E m \in Shown(source, e.at), c \in BOOLEAN:
             /\ m \in Legal(pos, Turn) /\ phys = Occupied(After(pos, Turn, m))
             /\ Execute(m, pending, lifted, c)
    BY <1>5, ShownDoes
  <2> QED BY <2>1 DEF MoveIsMade, ByShown
<1>6. CASE HumanForms
  <2>1. Turn \notin Engines /\ ~correction
    BY <1>6, HumanDoes
  <2>2. CASE \E m \in Steps: FromHand(m) /\ PlayerMove(m, Emptied, correction)
    BY <1>1, <2>1, <2>2, MadeOrNot DEF ByHand
  <2>3. CASE Noted /\ UNCHANGED <<correction, game, players, tasks>>
    BY <2>3 DEF NoMoveIsMade, Noted, game, players
  <2> QED BY <1>6, <2>2, <2>3, HumanDoes
<1>7. CASE EngineForms
  <2>1. CASE Waits /\ PlayerMove(Answer, Emptied, correction)
    <3>1. Answer \in Steps
      BY <1>1, <2>1 DEF Pendings, Waits, Answer, NoAnswer, Answers
    <3> QED BY <1>1, <2>1, <3>1, MadeOrNot DEF ByAnswer
  <2>2. CASE Noted /\ UNCHANGED <<pending, thinking, pos, past, undone, tasks>>
    BY <2>2 DEF NoMoveIsMade, Noted
  <2> QED BY <1>7, <2>1, <2>2, EngineDoes
<1>8. CASE LiftNoted \/ PutBack
  BY <1>8 DEF LiftNoted, PutBack, NoMoveIsMade, Noted, game
<1> QED BY <1>2, <1>3, <1>4, <1>5, <1>6, <1>7, <1>8 DEF Handle

\* What a move that is made leaves behind.
LEMMA MadeDoes ==
    ASSUME TypeInv, NEW m \in Legal(pos, Turn), NEW c, NEW buf, NEW pend, Execute(m, pend, buf, c)
    PROVE  /\ pos' = After(pos, Turn, m) /\ pos' \in Positions /\ past' = Append(past, pos)
           /\ Turn' = Other(Turn) /\ ~undone' /\ tasks' = tasks + 1 /\ ~forced'
           /\ source' = NoSquare /\ correction' = c
           /\ GameOver' <=> Legal(pos', Turn') = {}
           /\ IF GameOver' THEN KeepPlayers(pend, buf) ELSE Ask(Turn', pos', pend, buf)
<1>0. pos \in Positions /\ past \in Seq(Positions)
  BY DEF TypeInv, GameFits
<1>1. Turn \in Sides /\ m \in Steps
  BY <1>0, TurnIsASide, LegalSteps
<1>2. /\ pos' = After(pos, Turn, m) /\ past' = Append(past, pos) /\ undone' = FALSE
      /\ tasks' = tasks + 1 /\ source' = NoSquare /\ correction' = c /\ forced' = FALSE
      /\ IF Legal(After(pos, Turn, m), Other(Turn)) # {}
         THEN Ask(Other(Turn), After(pos, Turn, m), pend, buf) ELSE KeepPlayers(pend, buf)
  BY DEF Execute
<1>3. Turn' = Other(Turn)
  BY <1>0, <1>2, TurnPasses
<1>4. pos' \in Positions
  BY <1>0, <1>1, <1>2, AfterFits
<1>5. GameOver' <=> Legal(pos', Turn') = {}
  BY DEF GameOver
<1> QED BY <1>2, <1>3, <1>4, <1>5

-----------------------------------------------------------------------------
(* An engine that has an answer computes nothing                           *)

LEMMA AskAnswersOnce ==
    ASSUME TypeInv, OneAnswer, NEW side \in Sides, NEW p, NEW pend, NEW buf,
           \A s \in Engines: pend[s] \in {NoAnswer, pending[s]}, Ask(side, p, pend, buf)
    PROVE  OneAnswer'
<1> SUFFICES ASSUME NEW s \in Engines, thinking'[s] # NoPosition PROVE pending'[s] = NoAnswer
  BY DEF OneAnswer
<1>1. pending' = pend
  BY DEF Ask
<1>2. CASE thinking' = thinking
  BY <1>1, <1>2 DEF OneAnswer
<1>3. CASE thinking' # thinking
  <2>1. pend[side] = NoAnswer /\ thinking' = [thinking EXCEPT ![side] = p]
    BY <1>3 DEF Ask
  <2>2. s \in Sides /\ thinking \in [Sides -> Positions \cup {NoPosition}]
    BY EnginesAssumption DEF TypeInv, PlayersFit
  <2>3. CASE s = side
    BY <1>1, <2>1, <2>3
  <2>4. CASE s # side
    <3>1. thinking'[s] = thinking[s]
      BY <2>1, <2>2, <2>4
    <3> QED BY <1>1, <3>1 DEF OneAnswer
  <2> QED BY <2>3, <2>4
<1> QED BY <1>2, <1>3

LEMMA OnceStep == TypeInv /\ OneAnswer /\ [Next]_vars => OneAnswer'
<1> SUFFICES ASSUME TypeInv, OneAnswer, [Next]_vars PROVE OneAnswer'
  OBVIOUS
<1>0. Engines \subseteq Sides /\ pending \in Pendings
      /\ thinking \in [Sides -> Positions \cup {NoPosition}]
  BY EnginesAssumption DEF TypeInv, PlayersFit
<1>1. CASE UNCHANGED <<pending, thinking>>
  BY <1>1 DEF OneAnswer
<1>2. CASE Handle
  <2>1. CASE Takeback
    BY <1>0, <2>1 DEF Takeback, OneAnswer
  <2>2. CASE NewGame
    BY <1>0, <2>2 DEF NewGame, OneAnswer
  <2>3. CASE Resume
    <3>1. UNCHANGED <<pending, thinking>> \/ Ask(Turn, pos, pending, lifted)
      BY <2>3 DEF Resume, players
    <3>2. Turn \in Sides
      BY TurnIsASide DEF TypeInv, GameFits
    <3> QED BY <1>1, <3>1, <3>2, AskAnswersOnce
  <2>4. CASE MoveIsMade
    <3>1. PICK m \in Legal(pos, Turn), c \in BOOLEAN, buf \in {lifted, Emptied},
               pend \in {pending, Cleared}: Execute(m, pend, buf, c)
      BY <2>4 DEF MoveIsMade
    <3>2. \A s \in Sides: pend[s] \in {NoAnswer, pending[s]}
      BY <1>0, <3>1 DEF Cleared, Pendings
    <3>3. CASE KeepPlayers(pend, buf)
      BY <1>0, <3>2, <3>3 DEF KeepPlayers, OneAnswer
    <3>4. CASE Ask(Turn', pos', pend, buf)
      <4>1. Turn' \in Sides
        BY <3>1, MadeDoes, TurnIsASide DEF TypeInv, GameFits
      <4> QED BY <1>0, <3>2, <3>4, <4>1, AskAnswersOnce
    <3> QED BY <3>1, <3>3, <3>4, MadeDoes
  <2>5. CASE NoMoveIsMade
    BY <1>0, <2>5 DEF NoMoveIsMade, OneAnswer
  <2> QED BY <1>2, <2>1, <2>2, <2>3, <2>4, <2>5, HandledHow
<1>3. ASSUME NEW s \in Engines, EngineCommits(s) PROVE OneAnswer'
  <2>1. /\ thinking'[s] = NoPosition
        /\ \A q \in Sides: q # s => thinking'[q] = thinking[q] /\ pending'[q] = pending[q]
    BY <1>0, <1>3 DEF EngineCommits, Pendings
  <2> QED BY <1>0, <2>1 DEF OneAnswer
<1>4. CASE WorkerAnnounces
  <2>1. thinking' = thinking /\ \A s \in Sides: pending'[s] \in {NoAnswer, pending[s]}
    BY <1>4 DEF WorkerAnnounces
  <2> QED BY <1>0, <2>1 DEF OneAnswer
<1>5. CASE Hand \/ WorkerJudges \/ WorkerEnters \/ \E m \in toShow: EngineShows(m)
  BY <1>1, <1>5
  DEF Hand, Lift, Place, Bounce, Sends, WorkerJudges, WorkerEnters, EngineShows, players
<1> QED BY <1>1, <1>2, <1>3, <1>4, <1>5 DEF Next, Engine, Worker, vars

\* An engine that has an answer computes nothing, and one that computes has none, for any
\* board, engines and rules, however touches, answers, announcements, takebacks and new
\* games interleave.
THEOREM AnswersComeOnce == Spec => []OneAnswer
<1>1. Init => OneAnswer
  BY EnginesAssumption DEF Init, OneAnswer
<1> QED BY <1>1, OnceStep, TypeInit, TypeStep, PTL DEF Spec

-----------------------------------------------------------------------------
(* The engine to move is asked, and answers what it is asked               *)

\* Each touch is dealt with, and the move it made announced, before the next; nobody
\* touches a piece while an engine thinks, and no engine answers before the announcement.
Unhurried ==
    /\ MaxEvents <= 1 /\ MaxTasks <= 1
    /\ "impatient" \notin Conditions /\ "overtake" \notin Conditions

HumansComputeNothing ==
    \A s \in Sides: s \notin Engines => pending[s] = NoAnswer /\ thinking[s] = NoPosition
OneTouch ==
    /\ tasks + Len(events) <= 1
    /\ events # <<>> => toShow = {} /\ \A s \in Sides: thinking[s] = NoPosition
ThinksHere == \A s \in Sides: thinking[s] # NoPosition => s = Turn /\ thinking[s] = pos

\* An answer is a legal one to the position on the board, or it has just been played by
\* the engine's own reading of the pieces and is forgotten with the announcement.
AnswersHere ==
    \A s \in Sides: pending[s] # NoAnswer =>
        \/ /\ s = Turn /\ tasks = 0
           /\ pending[s].at = pos /\ pending[s].move \in Legal(pos, Turn)
        \/ s # Turn /\ tasks = 1
Asked ==
    Turn \in Engines /\ ~GameOver /\ ~undone =>
        thinking[Turn] # NoPosition \/ pending[Turn] # NoAnswer
AskedInv == HumansComputeNothing /\ OneTouch /\ ThinksHere /\ AnswersHere /\ Asked

LEMMA AskedInit == Init => AskedInv
<1> SUFFICES ASSUME Init PROVE AskedInv
  OBVIOUS
<1>1. /\ \A s \in Sides: pending[s] = NoAnswer
      /\ \A s \in Sides: thinking[s] = IF s \in Engines \cap {"w"} THEN Setup ELSE NoPosition
      /\ pos = Setup /\ past = <<>> /\ tasks = 0 /\ events = <<>>
  BY DEF Init
<1>2. Turn = "w" /\ Turn \in Sides
  <2>1. Len(past) = 0
    BY <1>1
  <2> QED BY <2>1 DEF Turn, Sides
<1>3. HumansComputeNothing
  BY <1>1 DEF HumansComputeNothing
<1>4. OneTouch
  BY <1>1 DEF OneTouch
<1>5. ThinksHere
  BY <1>1, <1>2 DEF ThinksHere
<1>6. AnswersHere
  BY <1>1 DEF AnswersHere
<1>7. Asked
  BY <1>1, <1>2, SetupAssumption, NoPositionIsNone DEF Asked
<1> QED BY <1>3, <1>4, <1>5, <1>6, <1>7 DEF AskedInv

\* While an event is handled no engine computes, no move is being announced and no
\* other event waits; the engine to move has its answer to the position.
LEMMA InHand ==
    ASSUME Unhurried, TypeInv, AskedInv, Handling
    PROVE  /\ tasks = 0 /\ events' = <<>>
           /\ \A s \in Sides: thinking[s] = NoPosition
           /\ \A s \in Sides: s # Turn \/ s \notin Engines => pending[s] = NoAnswer
           /\ pending[Turn] # NoAnswer =>
                /\ Turn \in Engines /\ pending[Turn].at = pos
                /\ pending[Turn].move \in Legal(pos, Turn)
           /\ Turn \in Engines /\ ~GameOver /\ ~undone => pending[Turn] # NoAnswer
<1>1. /\ tasks \in Nat /\ Len(events) \in Nat /\ Len(events) > 0 /\ Len(events') = Len(events) - 1
      /\ events' \in Seq([lift: BOOLEAN, at: Squares])
  BY EventFits DEF TypeInv, EventsFit
<1>2. tasks = 0 /\ Len(events') = 0
  BY <1>1 DEF AskedInv, OneTouch
<1>3. events' = <<>>
  BY <1>1, <1>2
<1>4. \A s \in Sides: thinking[s] = NoPosition
  BY DEF Handling, AskedInv, OneTouch
<1>5. Turn \in Sides
  BY TurnIsASide DEF TypeInv, GameFits
<1>6. \A s \in Sides: pending[s] # NoAnswer =>
        /\ s = Turn /\ s \in Engines /\ pending[s].at = pos
        /\ pending[s].move \in Legal(pos, Turn)
  BY <1>2 DEF AskedInv, AnswersHere, HumansComputeNothing
<1>7. Turn \in Engines /\ ~GameOver /\ ~undone => pending[Turn] # NoAnswer
  BY <1>4, <1>5 DEF AskedInv, Asked
<1> QED BY <1>2, <1>3, <1>4, <1>5, <1>6, <1>7

\* Whoever is to move in a position that is not the end is asked, if it is an engine.
LEMMA AskAsks ==
    ASSUME TypeInv, NEW side \in Sides, NEW p \in Positions, NEW pend \in Pendings, NEW buf,
           \A s \in Sides: thinking[s] = NoPosition, Ask(side, p, pend, buf)
    PROVE  /\ pending' = pend
           /\ \A s \in Sides: thinking'[s] # NoPosition =>
                s = side /\ s \in Engines /\ thinking'[s] = p
           /\ side \in Engines => thinking'[side] # NoPosition \/ pending'[side] # NoAnswer
<1>1. pending' = pend /\ (thinking' = thinking \/ thinking' = [thinking EXCEPT ![side] = p])
  BY DEF Ask
<1>2. thinking' # thinking => side \in Engines
  BY DEF Ask
<1>3. thinking \in [Sides -> Positions \cup {NoPosition}]
  BY DEF TypeInv, PlayersFit
<1>4. side \in Engines /\ pend[side] = NoAnswer => thinking' = [thinking EXCEPT ![side] = p]
  BY DEF Ask
<1>5. p # NoPosition
  BY NoPositionIsNone
<1>6. \A s \in Sides: thinking'[s] # NoPosition => s = side /\ s \in Engines /\ thinking'[s] = p
  <2>1. CASE thinking' = thinking
    BY <2>1
  <2>2. CASE thinking' # thinking
    BY <1>1, <1>2, <1>3, <2>2
  <2> QED BY <2>1, <2>2
<1>7. side \in Engines => thinking'[side] # NoPosition \/ pending'[side] # NoAnswer
  BY <1>1, <1>3, <1>4, <1>5
<1> QED BY <1>1, <1>6, <1>7

LEMMA AskedMade ==
    ASSUME Unhurried, TypeInv, AskedInv, Handling, MoveIsMade
    PROVE  AskedInv'
<1>1. PICK m \in Legal(pos, Turn), c \in BOOLEAN, buf \in {lifted, Emptied},
           pend \in {pending, Cleared}: Execute(m, pend, buf, c)
  BY DEF MoveIsMade
<1>0. Turn \in Sides /\ pending \in Pendings
  BY TurnIsASide DEF TypeInv, GameFits, PlayersFit
<1>2. pend \in Pendings /\ \A s \in Sides: pend[s] \in {NoAnswer, pending[s]}
  BY <1>0, <1>1 DEF Cleared, Pendings
<1>3. /\ pos' \in Positions /\ Turn' = Other(Turn) /\ tasks' = 1 /\ ~undone'
      /\ GameOver' \/ Ask(Turn', pos', pend, buf)
      /\ ~GameOver' \/ KeepPlayers(pend, buf)
  BY <1>1, MadeDoes, InHand
<1>4. Turn' \in Sides /\ Turn' # Turn /\ \A s \in Sides: s # Turn => s = Turn'
  BY <1>3, TurnIsASide DEF TypeInv, GameFits
<1>5. /\ events' = <<>> /\ \A s \in Sides: thinking[s] = NoPosition
      /\ \A s \in Sides: s # Turn \/ s \notin Engines => pending[s] = NoAnswer
  BY InHand
<1>6. /\ pending' = pend
      /\ \A s \in Sides: thinking'[s] # NoPosition =>
            s = Turn' /\ s \in Engines /\ thinking'[s] = pos'
      /\ Turn' \in Engines /\ ~GameOver' =>
           thinking'[Turn'] # NoPosition \/ pending'[Turn'] # NoAnswer
  <2>1. CASE GameOver'
    BY <1>3, <1>5, <2>1 DEF KeepPlayers
  <2>2. CASE ~GameOver'
    <3>1. Ask(Turn', pos', pend, buf)
      BY <1>3, <2>2
    <3> QED BY <1>2, <1>3, <1>4, <1>5, <3>1, AskAsks
  <2> QED BY <2>1, <2>2
<1>7. \A s \in Sides: s # Turn \/ s \notin Engines => pending'[s] = NoAnswer
  BY <1>2, <1>5, <1>6
<1>8. HumansComputeNothing'
  BY <1>6, <1>7 DEF HumansComputeNothing
<1>9. OneTouch'
  <2>1. Len(events') = 0
    BY <1>5
  <2> QED BY <1>3, <1>5, <2>1 DEF OneTouch
<1>10. ThinksHere'
  BY <1>6 DEF ThinksHere
<1>11. AnswersHere'
  BY <1>3, <1>4, <1>7 DEF AnswersHere
<1>12. Asked'
  BY <1>6 DEF Asked
<1> QED BY <1>8, <1>9, <1>10, <1>11, <1>12 DEF AskedInv

\* A step that leaves the game, and what is asked of the engines.
LEMMA AskedFrame ==
    ASSUME TypeInv, AskedInv, UNCHANGED <<pos, past, undone, tasks, thinking, pending, toShow>>,
           Len(events') \in Nat, Len(events') <= Len(events), events' # <<>> => events # <<>>
    PROVE  AskedInv'
<1>1. Turn' = Turn /\ (GameOver' <=> GameOver)
  BY TurnStays DEF GameOver
<1>2. tasks \in Nat /\ Len(events) \in Nat /\ tasks' = tasks
  BY DEF TypeInv, EventsFit
<1>3. OneTouch'
  BY <1>2 DEF AskedInv, OneTouch
<1>4. HumansComputeNothing' /\ ThinksHere' /\ AnswersHere' /\ Asked'
  BY <1>1 DEF AskedInv, HumansComputeNothing, ThinksHere, AnswersHere, Asked
<1> QED BY <1>3, <1>4 DEF AskedInv

LEMMA AskedHandle ==
    ASSUME Unhurried, TypeInv, AskedInv, Handle
    PROVE  AskedInv'
<1>0. Handling /\ Turn \in Sides /\ pos \in Positions /\ pending \in Pendings
  BY HandledHow, TurnIsASide DEF TypeInv, GameFits, PlayersFit
<1>1. /\ tasks = 0 /\ events' = <<>> /\ Len(events') = 0
      /\ \A s \in Sides: thinking[s] = NoPosition
      /\ \A s \in Sides: s # Turn \/ s \notin Engines => pending[s] = NoAnswer
  <2>1. events' = <<>>
    BY <1>0, InHand
  <2>2. Len(events') = 0
    BY <2>1
  <2> QED BY <1>0, <2>1, <2>2, InHand
<1>2. CASE Takeback
  <2>1. /\ \A s \in Sides: pending'[s] = NoAnswer
        /\ \A s \in Sides: thinking'[s] = NoPosition
        /\ undone' /\ tasks' = tasks
    BY <1>2 DEF Takeback
  <2> QED BY <1>1, <2>1
      DEF AskedInv, HumansComputeNothing, OneTouch, ThinksHere, AnswersHere, Asked
<1>3. CASE NewGame
  <2>1. /\ \A s \in Sides: pending'[s] = NoAnswer
        /\ \A s \in Sides: thinking'[s] = IF s \in Engines \cap {"w"} THEN Setup ELSE NoPosition
        /\ pos' = Setup /\ past' = <<>> /\ tasks' = tasks
    BY <1>3 DEF NewGame
  <2>2. Turn' = "w" /\ Turn' \in Sides
    BY <2>1, WhiteBegins DEF Sides
  <2>3. HumansComputeNothing'
    BY <2>1 DEF HumansComputeNothing
  <2>4. OneTouch'
    BY <1>1, <2>1 DEF OneTouch
  <2>5. ThinksHere' /\ AnswersHere'
    BY <2>1, <2>2 DEF ThinksHere, AnswersHere
  <2>6. Asked'
    BY <2>1, <2>2, SetupAssumption, NoPositionIsNone DEF Asked
  <2> QED BY <2>3, <2>4, <2>5, <2>6 DEF AskedInv
<1>4. CASE Resume
  <2>1. /\ UNCHANGED <<pos, past, undone, tasks, toShow>>
        /\ \/ UNCHANGED <<pending, thinking>>
           \/ Ask(Turn, pos, pending, lifted)
    BY <1>0, <1>4 DEF Resume, Handling, players, game
  <2>2. CASE UNCHANGED <<pending, thinking>>
    BY <1>0, <1>1, <2>1, <2>2, EventFits, AskedFrame
  <2>3. CASE Ask(Turn, pos, pending, lifted)
    <3>1. /\ pending' = pending
          /\ \A s \in Sides: thinking'[s] # NoPosition =>
                s = Turn /\ s \in Engines /\ thinking'[s] = pos
          /\ Turn \in Engines => thinking'[Turn] # NoPosition \/ pending'[Turn] # NoAnswer
      BY <1>0, <1>1, <2>3, AskAsks
    <3>2. Turn' = Turn /\ tasks' = 0 /\ pos' = pos
      BY <1>1, <2>1, TurnStays
    <3>3. HumansComputeNothing'
      BY <1>1, <3>1 DEF HumansComputeNothing
    <3>4. OneTouch'
      BY <1>1, <3>2 DEF OneTouch
    <3>5. ThinksHere'
      BY <3>1, <3>2 DEF ThinksHere
    <3>6. AnswersHere'
      BY <1>1, <3>1, <3>2 DEF AskedInv, AnswersHere
    <3>7. Asked'
      BY <3>1, <3>2 DEF Asked
    <3> QED BY <3>3, <3>4, <3>5, <3>6, <3>7 DEF AskedInv
  <2> QED BY <2>1, <2>2, <2>3
<1>5. CASE NoMoveIsMade
  <2>1. pending' = pending
    <3>1. ASSUME Waits, Answer \notin Legal(pos, Turn) PROVE FALSE
      <4>1. pending[Turn] # NoAnswer
        BY <3>1 DEF Waits, Answer, NoAnswer
      <4> QED BY <1>0, <3>1, <4>1, InHand DEF Answer
    <3> QED BY <1>5, <3>1 DEF NoMoveIsMade
  <2>2. UNCHANGED <<pos, past, undone, tasks, thinking, toShow>>
    BY <1>0, <1>5 DEF NoMoveIsMade, Handling
  <2> QED BY <1>0, <1>1, <2>1, <2>2, EventFits, AskedFrame
<1> QED BY <1>0, <1>2, <1>3, <1>4, <1>5, HandledHow, AskedMade

LEMMA AskedStep == Unhurried /\ TypeInv /\ AskedInv /\ [Next]_vars => AskedInv'
<1> SUFFICES ASSUME Unhurried, TypeInv, AskedInv, [Next]_vars PROVE AskedInv'
  OBVIOUS
<1>0. /\ tasks \in Nat /\ Len(events) \in Nat /\ pending \in Pendings
      /\ thinking \in [Sides -> Positions \cup {NoPosition}]
      /\ Turn \in Sides /\ pos \in Positions
  BY TurnIsASide DEF TypeInv, EventsFit, PlayersFit, GameFits
<1>1. CASE UNCHANGED <<events, pos, past, undone, tasks, thinking, pending, toShow>>
  BY <1>0, <1>1, AskedFrame
<1>2. CASE Hand
  <2>1. /\ \E l, s: events' = Append(events, [lift |-> l, at |-> s])
        /\ Len(events) < MaxEvents /\ tasks < MaxTasks /\ Patient
        /\ UNCHANGED <<pos, past, undone, tasks, thinking, pending, toShow>>
    BY <1>2 DEF Hand, Lift, Place, Bounce, Sends, game, players
  <2>2. Len(events') = Len(events) + 1
    BY <2>1 DEF TypeInv, EventsFit
  <2>3. tasks = 0 /\ Len(events) = 0
    BY <1>0, <2>1, BoundsFit DEF Unhurried
  <2>4. toShow = {} /\ \A s \in Sides: thinking[s] = NoPosition
    BY <2>1 DEF Patient, Unhurried, AskedInv, HumansComputeNothing
  <2>5. OneTouch'
    BY <2>1, <2>2, <2>3, <2>4 DEF OneTouch
  <2>6. Turn' = Turn /\ (GameOver' <=> GameOver)
    BY <2>1, TurnStays DEF GameOver
  <2>7. HumansComputeNothing' /\ ThinksHere' /\ AnswersHere' /\ Asked'
    BY <2>1, <2>6 DEF AskedInv, HumansComputeNothing, ThinksHere, AnswersHere, Asked
  <2> QED BY <2>5, <2>7 DEF AskedInv
<1>3. CASE Handle
  BY <1>3, AskedHandle
<1>4. ASSUME NEW s \in Engines, EngineCommits(s) PROVE AskedInv'
  <2>1. /\ thinking[s] # NoPosition /\ tasks = 0
        /\ \E m \in Legal(thinking[s], s):
             pending' = [pending EXCEPT ![s] = [move |-> m, at |-> thinking[s]]]
        /\ thinking' = [thinking EXCEPT ![s] = NoPosition]
        /\ UNCHANGED <<events, pos, past, undone, tasks>>
    BY <1>4 DEF EngineCommits, Unhurried, game
  <2>2. s \in Sides /\ s = Turn /\ thinking[s] = pos
    BY <2>1, EnginesAssumption DEF AskedInv, ThinksHere
  <2>3. PICK m \in Legal(pos, Turn): pending' = [pending EXCEPT ![s] = [move |-> m, at |-> pos]]
    BY <2>1, <2>2
  <2>4. /\ \A q \in Sides: q # s => pending'[q] = pending[q] /\ thinking'[q] = thinking[q]
        /\ pending'[s].at = pos /\ pending'[s].move = m /\ thinking'[s] = NoPosition
    BY <1>0, <2>1, <2>2, <2>3 DEF Pendings
  <2>5. pending'[s] # NoAnswer
    BY <1>0, <2>4, NoPositionIsNone DEF NoAnswer
  <2>6. Turn' = Turn /\ (GameOver' <=> GameOver)
    BY <2>1, TurnStays DEF GameOver
  <2>7. HumansComputeNothing'
    BY <2>4 DEF AskedInv, HumansComputeNothing
  <2>8. OneTouch'
    BY <2>1, <2>2 DEF AskedInv, OneTouch
  <2>9. ThinksHere'
    BY <2>1, <2>4, <2>6 DEF AskedInv, ThinksHere
  <2>10. AnswersHere'
    BY <2>1, <2>2, <2>3, <2>4, <2>6 DEF AskedInv, AnswersHere
  <2>11. Asked'
    BY <2>2, <2>5, <2>6 DEF Asked
  <2> QED BY <2>7, <2>8, <2>9, <2>10, <2>11 DEF AskedInv
<1>5. ASSUME NEW m \in toShow, EngineShows(m) PROVE AskedInv'
  <2>1. /\ toShow # {} /\ UNCHANGED <<events, pos, past, undone, tasks, thinking, pending>>
    BY <1>5 DEF EngineShows, game, players
  <2>2. OneTouch'
    BY <2>1 DEF AskedInv, OneTouch
  <2>3. Turn' = Turn /\ (GameOver' <=> GameOver)
    BY <2>1, TurnStays DEF GameOver
  <2>4. HumansComputeNothing' /\ ThinksHere' /\ AnswersHere' /\ Asked'
    BY <2>1, <2>3 DEF AskedInv, HumansComputeNothing, ThinksHere, AnswersHere, Asked
  <2> QED BY <2>2, <2>4 DEF AskedInv
<1>6. CASE WorkerAnnounces
  <2>1. /\ tasks > 0 /\ tasks' = tasks - 1
        /\ \A s \in Sides: pending'[s] =
             IF s \in Engines /\ thinking[s] = NoPosition THEN NoAnswer ELSE pending[s]
        /\ UNCHANGED <<events, pos, past, undone, thinking, toShow>>
    BY <1>6 DEF WorkerAnnounces, game
  <2>2. tasks = 1 /\ Len(events) = 0 /\ tasks' = 0
    BY <1>0, <2>1 DEF AskedInv, OneTouch
  <2>3. \A s \in Sides: pending'[s] = NoAnswer
    <3> SUFFICES ASSUME NEW s \in Sides, pending'[s] # NoAnswer PROVE FALSE
      OBVIOUS
    <3>1. pending[s] # NoAnswer /\ (s \notin Engines \/ thinking[s] # NoPosition)
      BY <2>1
    <3>2. thinking[s] # NoPosition
      BY <3>1 DEF AskedInv, HumansComputeNothing
    <3>3. s = Turn
      BY <3>2 DEF AskedInv, ThinksHere
    <3> QED BY <2>2, <3>1, <3>3 DEF AskedInv, AnswersHere
  <2>4. Turn' = Turn /\ (GameOver' <=> GameOver)
    BY <2>1, TurnStays DEF GameOver
  <2>5. HumansComputeNothing' /\ ThinksHere' /\ AnswersHere'
    BY <2>1, <2>3, <2>4 DEF AskedInv, HumansComputeNothing, ThinksHere, AnswersHere
  <2>6. OneTouch'
    BY <2>1, <2>2 DEF AskedInv, OneTouch
  <2>7. Asked'
    <3> SUFFICES ASSUME Turn \in Engines, ~GameOver, ~undone PROVE thinking[Turn] # NoPosition
      BY <2>1, <2>4 DEF Asked
    <3>1. pending[Turn] = NoAnswer
      BY <1>0, <2>2 DEF AskedInv, AnswersHere
    <3> QED BY <3>1 DEF AskedInv, Asked
  <2> QED BY <2>5, <2>6, <2>7 DEF AskedInv
<1>7. CASE WorkerJudges \/ WorkerEnters
  BY <1>1, <1>7 DEF WorkerJudges, WorkerEnters, game, players
<1>8. CASE UNCHANGED vars
  BY <1>1, <1>8 DEF vars
<1> QED BY <1>2, <1>3, <1>4, <1>5, <1>6, <1>7, <1>8 DEF Next, Engine, Worker

\* When all is quiet and it is an engine's turn, the engine has an answer to the position
\* on the board or is computing one, for any board, rules and engines, as long as touches
\* wait for each other, for the announcements and for the engines: an answer that comes
\* before its announcement is forgotten with it, and so is the request for the next move
\* when the announcement comes too late to clear the answer before.
THEOREM EngineIsAlwaysAsked == Unhurried /\ Spec => []EngineIsAsked
<1> SUFFICES ASSUME Unhurried PROVE Spec => []EngineIsAsked
  OBVIOUS
<1>1. TypeInv /\ AskedInv => EngineIsAsked
  <2> SUFFICES ASSUME TypeInv, AskedInv, Quiet, Turn \in Engines, ~GameOver, ~undone
               PROVE  thinking[Turn] = pos \/ pending[Turn].at = pos
    BY DEF EngineIsAsked
  <2>1. Turn \in Sides
    BY EnginesAssumption
  <2>2. thinking[Turn] # NoPosition \/ pending[Turn] # NoAnswer
    BY DEF AskedInv, Asked
  <2>3. tasks = 0
    BY DEF Quiet
  <2> QED BY <2>1, <2>2, <2>3 DEF AskedInv, ThinksHere, AnswersHere
<1> QED BY <1>1, AskedInit, AskedStep, TypeInit, TypeStep, PTL DEF Spec

\* Only the handling of an event makes a move.
LEMMA MovesAreMade ==
    ASSUME TypeInv, [Next]_vars, Len(past') = Len(past) + 1
    PROVE  Handling /\ MoveIsMade
<1>0. past \in Seq(Positions) /\ Len(past) \in Nat
  BY DEF TypeInv, GameFits
<1>1. past' # past
  BY <1>0
<1>2. Handle
  BY <1>1 DEF Next, Engine, Worker, Hand, Lift, Place, Bounce, Sends, EngineCommits, EngineShows,
              WorkerAnnounces, WorkerJudges, WorkerEnters, game, vars
<1>3. ~Takeback
  <2>1. TakenBack /\ past' = SubSeq(past, 1, Len(past) - 1) => Len(past') = Len(past) - 1
    BY <1>0 DEF TakenBack
  <2> QED BY <1>0, <2>1 DEF Takeback
<1>4. ~NewGame
  <2>1. past' = <<>> => Len(past') = 0
    OBVIOUS
  <2> QED BY <1>0, <2>1 DEF NewGame
<1>5. ~Resume /\ ~NoMoveIsMade
  BY <1>1 DEF Resume, NoMoveIsMade, game
<1> QED BY <1>2, <1>3, <1>4, <1>5, HandledHow

\* A move made for an engine is its answer to the position it is made in, under the same
\* hypothesis: a piece touched while the engine thinks may be taken for its move.
THEOREM EnginesPlayTheirAnswers == Unhurried /\ Spec => AnswersFit
<1> SUFFICES ASSUME Unhurried PROVE Spec => AnswersFit
  OBVIOUS
<1>1. TypeInv /\ AskedInv /\ [Next]_vars =>
        [MadeForAnEngine => /\ pending[Turn].at = pos
                            /\ pos' = After(pos, Turn, pending[Turn].move)]_vars
  <2> SUFFICES ASSUME TypeInv, AskedInv, [Next]_vars, MadeForAnEngine
               PROVE  /\ pending[Turn].at = pos
                      /\ pos' = After(pos, Turn, pending[Turn].move)
    OBVIOUS
  <2>1. Handling /\ MoveIsMade /\ Turn \in Engines /\ ~undone
    BY MovesAreMade DEF MadeForAnEngine
  <2>2. PICK m \in Legal(pos, Turn), c \in BOOLEAN, buf \in {lifted, Emptied},
             pend \in {pending, Cleared}:
          Execute(m, pend, buf, c) /\ (ByAnswer(m) \/ ByShown(m) \/ ByHand(m))
    BY <2>1 DEF MoveIsMade
  <2>3. ~GameOver
    BY <2>2 DEF GameOver
  <2>4. pending[Turn].at = pos /\ pending[Turn].move \in Legal(pos, Turn)
    BY <2>1, <2>3, InHand
  <2>5. Waits
    <3>1. pending[Turn].move \in Steps
      BY <2>4, LegalSteps, TurnIsASide DEF TypeInv, GameFits
    <3> QED BY <3>1, StepsJoin DEF Waits, Answer
  <2>6. ByAnswer(m)
    BY <2>1, <2>2, <2>5 DEF ByShown, ByHand
  <2> QED BY <2>2, <2>4, <2>6, MadeDoes DEF ByAnswer, Answer
<1> QED BY <1>1, AskedInit, AskedStep, TypeInit, TypeStep, PTL DEF Spec, AnswersFit

-----------------------------------------------------------------------------
(* A human's piece moves when it has left its square                       *)

\* No castling brings the rook to the square the king leaves.
CastlesApart == \A s \in Sides: \A c \in Castles[s]: c.rook[2] # c.king[1]

LEMMA MoverIsOwn ==
    ASSUME NEW p \in Positions, NEW side \in Sides, NEW m \in Legal(p, side)
    PROVE  p[m[1]] = side /\ p[m[2]] # side
<1>1. CASE m \in Reach[side] /\ p[m[1]] = side /\ p[m[2]] # side
  BY <1>1
<1>2. CASE \E c \in Castles[side]: m = c.king /\ p[c.king[1]] = side /\ p[c.king[2]] = "none"
  BY <1>2 DEF Sides
<1> QED BY <1>1, <1>2 DEF Legal

\* A legal move leaves its square empty.
LEMMA SquareIsLeft ==
    ASSUME CastlesApart, NEW p \in Positions, NEW side \in Sides, NEW m \in Legal(p, side)
    PROVE  m[1] \notin Occupied(After(p, side, m))
<1>1. m \in Steps /\ m[1] \in Squares /\ m[2] \in Squares /\ m[1] # m[2]
  BY LegalSteps, StepsJoin, MoverIsOwn
<1>2. Stepped(p, m) \in Positions /\ Stepped(p, m)[m[1]] = "none"
  <2>1. Stepped(p, m) = [[p EXCEPT ![m[1]] = "none"] EXCEPT ![m[2]] = p[m[1]]]
    BY DEF Stepped
  <2>2. [p EXCEPT ![m[1]] = "none"] \in [Squares -> Sides \cup {"none"}]
    BY <1>1 DEF Positions
  <2> QED BY <1>1, <2>1, <2>2, SteppedFits DEF Positions
<1>3. CASE Castling(side, m) = {}
  BY <1>2, <1>3 DEF After, Occupied
<1>4. CASE Castling(side, m) # {}
  <2> DEFINE q == Stepped(p, m)
             r == (CHOOSE c \in Castling(side, m): TRUE).rook
  <2>1. r \in Steps /\ r[1] \in Squares /\ r[2] \in Squares
    BY <1>4, RookSteps, StepsJoin
  <2>2. r[2] # m[1]
    <3>1. (CHOOSE c \in Castling(side, m): TRUE) \in Castling(side, m)
      BY <1>4
    <3> QED BY <3>1 DEF CastlesApart, Castling
  <2>3. After(p, side, m) = Stepped(q, r)
    BY <1>4 DEF After
  <2>4. q \in Positions /\ q[m[1]] = "none"
    BY <1>2
  <2> HIDE DEF q, r
  <2>5. Stepped(q, r) = [[q EXCEPT ![r[1]] = "none"] EXCEPT ![r[2]] = q[r[1]]]
    BY DEF Stepped
  <2>6. [q EXCEPT ![r[1]] = "none"] \in [Squares -> Sides \cup {"none"}]
        /\ [q EXCEPT ![r[1]] = "none"][m[1]] = "none"
    BY <1>1, <2>1, <2>4 DEF Positions
  <2>7. Stepped(q, r)[m[1]] = "none"
    BY <1>1, <2>1, <2>2, <2>5, <2>6
  <2> QED BY <2>3, <2>7 DEF Occupied
<1> QED BY <1>3, <1>4

\* What an engine has still to show is for its own turn.
ShownHere ==
    /\ toShow # {} => Turn \in Engines /\ events = <<>>
    /\ forced => Turn \in Engines
Touched == events # <<>> => (e.lift <=> e.at \notin phys)

\* The pieces a human at play remembers to have lifted are off the board, unless they are
\* just being put back; the referee knows of one of them.
HumanKnows ==
    Turn \notin Engines /\ ~undone /\ ~GameOver /\ ~correction =>
        /\ rookPending # NoMove => lifted[Turn] = <<>>
        /\ \A i \in DOMAIN lifted[Turn]: pos[lifted[Turn][i]] = Turn =>
             /\ source # NoSquare
             /\ \/ lifted[Turn][i] \notin phys
                \/ events # <<>> /\ ~e.lift /\ e.at = lifted[Turn][i]
HandInv == ShownHere /\ Touched /\ HumanKnows

LEMMA HandInit == Init => HandInv
<1> SUFFICES ASSUME Init PROVE HandInv
  OBVIOUS
<1>1. toShow = {} /\ ~forced /\ events = <<>> /\ rookPending = NoMove
  BY DEF Init
<1>2. lifted[Turn] = <<>>
  BY DEF Init, Turn, Sides
<1>3. HumanKnows
  BY <1>1, <1>2 DEF HumanKnows
<1> QED BY <1>1, <1>3 DEF HandInv, ShownHere, Touched

\* A human who has nothing in mind knows nothing wrong.
LEMMA NothingLifted ==
    ASSUME Turn' \notin Engines /\ ~undone' /\ ~GameOver' /\ ~correction' => lifted'[Turn'] = <<>>
    PROVE  HumanKnows'
<1> SUFFICES ASSUME Turn' \notin Engines, ~undone', ~GameOver', ~correction' PROVE
        /\ lifted'[Turn'] = <<>>
        /\ DOMAIN lifted'[Turn'] = {}
  BY DEF HumanKnows
<1>1. lifted'[Turn'] = <<>>
  OBVIOUS
<1>2. DOMAIN <<>> = {}
  OBVIOUS
<1> QED BY <1>1, <1>2

LEMMA AskEmpties ==
    ASSUME NEW side \in Sides, NEW p, NEW pend, NEW buf \in Buffers, Ask(side, p, pend, buf),
           side \notin Engines
    PROVE  lifted'[side] = <<>>
  BY DEF Ask, Buffers

\* Nothing changes that a human knows of.
LEMMA KnownFrame ==
    ASSUME TypeInv, HumanKnows,
           UNCHANGED <<pos, past, undone, rookPending, source, phys>>,
           Turn \notin Engines => lifted'[Turn] = lifted[Turn],
           correction => correction',
           events' # events =>
             \A i \in DOMAIN lifted[Turn]: events # <<>> /\ ~e.lift => e.at # lifted[Turn][i]
    PROVE  HumanKnows'
<1>1. Turn' = Turn /\ (GameOver' <=> GameOver)
  BY TurnStays DEF GameOver
<1>2. events' = events => (events' # <<>> /\ ~e.lift' <=> events # <<>> /\ ~e.lift) /\ e' = e
  BY DEF e
<1> QED BY <1>1, <1>2 DEF HumanKnows

\* After an event that made no move.
LEMMA HandNotMoved ==
    ASSUME Unhurried, TypeInv, AskedInv, HandInv, Handle,
           ~Takeback, ~NewGame, ~Resume, ~MoveIsMade
    PROVE  HumanKnows'
<1>0. Handling /\ NoMoveIsMade /\ Turn \in Sides
  BY HandledHow, TurnIsASide DEF TypeInv, GameFits
<1>1. Turn' = Turn /\ (GameOver' <=> GameOver) /\ pos' = pos /\ undone' = undone /\ phys' = phys
  BY <1>0, TurnStays DEF NoMoveIsMade, GameOver, Handling, hands
<1> SUFFICES ASSUME Turn \notin Engines, ~undone, ~GameOver, ~correction' PROVE HumanKnows'
  BY <1>1 DEF HumanKnows
<1>2. ~Waits
  BY <1>0, InHand DEF Waits, Answer, NoAnswer
<1>3. e.lift <=> e.at \notin phys
  BY <1>0 DEF HandInv, Touched, Handling
<1>4. events # <<>> /\ e.at \in Squares
  BY <1>0, EventFits DEF Handling
<1>5. ~correction =>
        /\ rookPending # NoMove => lifted[Turn] = <<>>
        /\ \A i \in DOMAIN lifted[Turn]: pos[lifted[Turn][i]] = Turn =>
             /\ source # NoSquare
             /\ lifted[Turn][i] \notin phys \/ (~e.lift /\ e.at = lifted[Turn][i])
  BY DEF HandInv, HumanKnows
<1>6. lifted[Turn] \in Seq(Squares) /\ Distinct(lifted[Turn])
  BY <1>0 DEF TypeInv, PlayersFit, Buffers
<1>7. CASE FollowRook
  <2>1. ~correction /\ lifted' = lifted /\ rookPending # NoMove
    BY <1>7 DEF FollowRook, players
  <2> QED BY <1>1, <1>5, <2>1, NothingLifted
<1>8. CASE StillWrong \/ LiftRefused \/ PlaceTooEarly
  BY <1>8 DEF StillWrong, LiftRefused, PlaceTooEarly, Correcting
<1>9. CASE FailToPush
  BY <1>2, <1>9 DEF FailToPush, Dies
<1>10. CASE PlaceNoise
  <2>1. /\ ~correction /\ source = NoSquare /\ lifted' = lifted /\ rookPending = NoMove
        /\ rookPending' = rookPending
    BY <1>10 DEF PlaceNoise, Noise, Playing, Decided, Noted, players
  <2> QED BY <1>1, <1>5, <2>1 DEF HumanKnows
<1>11. CASE CorrectByPending \/ PlacePending
  BY <1>2, <1>11 DEF CorrectByPending, PlacePending, TranscribedAnyway
<1>12. CASE CorrectByMove \/ PlaceSettled
  <2>1. MoveIsMade
    BY <1>12, ShownDoes DEF MoveIsMade, ByShown
  <2> QED BY <2>1
<1>13. CASE HumanForms
  <2>1. CASE \E m \in Steps: FromHand(m) /\ PlayerMove(m, Emptied, correction)
    <3>1. PICK m \in Steps: FromHand(m) /\ PlayerMove(m, Emptied, correction)
      BY <2>1
    <3>2. CASE m \in Legal(pos, Turn)
      <4>1. correction \in BOOLEAN /\ ~correction
        BY <1>13, HumanDoes DEF TypeInv, ModeFits
      <4>2. MoveIsMade
        BY <3>1, <3>2, <4>1 DEF PlayerMove, MoveIsMade, ByHand
      <4> QED BY <4>2
    <3>3. CASE m \notin Legal(pos, Turn)
      BY <3>1, <3>3 DEF PlayerMove
    <3> QED BY <3>2, <3>3
  <2>2. CASE /\ Noted /\ UNCHANGED <<correction, game, players, tasks>>
             /\ From = e.at /\ (InBuffer => Len(Buffer) = 2)
    <3>1. Buffer = <<>>
      <4> SUFFICES ASSUME Buffer # <<>> PROVE FALSE
        OBVIOUS
      <4>1. Len(Buffer) \in Nat /\ Len(Buffer) > 0 /\ DOMAIN Buffer = 1..Len(Buffer)
        BY <1>6 DEF Buffer
      <4>2. CASE Len(Buffer) = 2 /\ Buffer[1] = e.at
        <5>1. Buffer[2] = e.at
          BY <2>2, <4>2 DEF From
        <5> QED BY <1>6, <4>1, <4>2, <5>1 DEF Distinct, Buffer
      <4>3. CASE ~(Len(Buffer) = 2 /\ Buffer[1] = e.at)
        <5>1. Buffer[1] = e.at /\ 1 \in DOMAIN Buffer
          BY <2>2, <4>1, <4>3 DEF From
        <5> QED BY <2>2, <4>3, <5>1 DEF InBuffer
      <4> QED BY <4>2, <4>3
    <3>2. lifted'[Turn'] = <<>>
      BY <1>1, <2>2, <3>1 DEF Buffer, players
    <3> QED BY <3>2, NothingLifted
  <2> QED BY <1>13, <2>1, <2>2, HumanDoes
<1>14. CASE EngineForms
  BY <1>14, EngineDoes
<1>15. CASE LiftNoted
  <2>1. /\ ~correction /\ rookPending' = rookPending /\ rookPending = NoMove /\ e.lift
        /\ ~Refused /\ source' = SourceNow
    BY <1>15 DEF LiftNoted, Playing, Decided, Noted
  <2>2. \A i \in DOMAIN lifted'[Turn]:
          \/ i \in DOMAIN lifted[Turn] /\ lifted'[Turn][i] = lifted[Turn][i]
          \/ lifted'[Turn][i] = e.at
    <3>1. lifted \in [Sides -> Seq(Squares)]
      BY DEF TypeInv, PlayersFit, Buffers
    <3>2. lifted'[Turn] = lifted[Turn] \/ lifted'[Turn] = Append(lifted[Turn], e.at)
      BY <1>0, <1>15, <3>1 DEF LiftNoted
    <3>3. CASE lifted'[Turn] = lifted[Turn]
      BY <3>3
    <3>4. CASE lifted'[Turn] = Append(lifted[Turn], e.at)
      <4> DEFINE a == lifted[Turn]
                 b == Append(a, e.at)
      <4>1. /\ DOMAIN a = 1..Len(a) /\ Len(a) \in Nat /\ DOMAIN b = 1..(Len(a) + 1)
            /\ b[Len(a) + 1] = e.at /\ \A i \in 1..Len(a): b[i] = a[i]
        BY <1>4, <1>6
      <4>2. lifted'[Turn] = b
        BY <3>4
      <4> HIDE DEF a, b
      <4>3. \A i \in DOMAIN b: (i \in DOMAIN a /\ b[i] = a[i]) \/ b[i] = e.at
        BY <4>1
      <4> QED BY <4>2, <4>3 DEF a
    <3> QED BY <3>2, <3>3, <3>4
  <2>3. source # NoSquare => source' # NoSquare
    BY <1>2, <2>1 DEF SourceNow
  <2>4. pos[e.at] = Turn => source' # NoSquare
    <3> SUFFICES ASSUME pos[e.at] = Turn, source = NoSquare, ~CanMoveFrom(e.at) PROVE FALSE
      <4>1. NoSquare \notin Squares
        BY Squared
      <4> QED BY <1>2, <1>4, <2>1, <4>1 DEF SourceNow
    <3>1. SourceNow = NoSquare /\ ~Bump /\ pos[e.at] # Other(Turn) /\ pos[e.at] # "none"
      <4>1. Turn # Other(Turn) /\ Turn # "none"
        BY TurnIsASide DEF TypeInv, GameFits, Sides
      <4> QED BY <1>2, <2>1, <4>1 DEF SourceNow, Bump
    <3> QED BY <2>1, <3>1 DEF Refused, CannotMove
  <2>5. \A i \in DOMAIN lifted'[Turn]: pos[lifted'[Turn][i]] = Turn =>
          source' # NoSquare /\ lifted'[Turn][i] \notin phys
    BY <1>3, <1>5, <2>1, <2>2, <2>3, <2>4
  <2> QED BY <1>1, <2>1, <2>5 DEF HumanKnows
<1>16. CASE PutBack
  <2>1. /\ ~correction /\ rookPending' = rookPending /\ rookPending = NoMove /\ ~e.lift
        /\ source' = SourceNow
    BY <1>16 DEF PutBack, Forwarded, Playing, Decided, Noted
  <2>2. PICK i \in DOMAIN lifted[Turn]:
          /\ lifted[Turn][i] = e.at
          /\ lifted' = [lifted EXCEPT ![Turn] = RemoveAt(lifted[Turn], i)]
    BY <1>16 DEF PutBack, Buffer
  <2> DEFINE a == lifted[Turn]
             b == RemoveAt(a, i)
  <2>3. lifted'[Turn] = b
    BY <1>0, <2>2 DEF TypeInv, PlayersFit, Buffers
  <2>4. /\ b \in Seq(Squares) /\ Len(b) = Len(a) - 1
        /\ \A j \in 1..Len(b): b[j] = IF j < i THEN a[j] ELSE a[j + 1]
    <3>1. a \in Seq(Squares) /\ i \in DOMAIN a
      BY <1>6
    <3> HIDE DEF a
    <3> QED BY <3>1, RemovedAt
  <2>5. DOMAIN a = 1..Len(a) /\ DOMAIN b = 1..Len(b) /\ Len(a) \in Nat /\ i \in 1..Len(a)
        /\ Distinct(a) /\ a[i] = e.at
    BY <1>6, <2>2, <2>4
  <2>6. \A j \in DOMAIN a: pos[a[j]] = Turn =>
          source # NoSquare /\ (a[j] \notin phys \/ e.at = a[j])
    BY <1>5, <2>1
  <2> HIDE DEF a, b
  <2>7. \A j \in DOMAIN b: \E k \in DOMAIN a: b[j] = a[k] /\ k # i
    BY <2>4, <2>5
  <2>8. \A j \in DOMAIN b: pos[b[j]] = Turn => source # NoSquare /\ b[j] \notin phys
    BY <2>5, <2>6, <2>7 DEF Distinct
  <2>9. \A j \in DOMAIN b: pos[b[j]] = Turn => source' # NoSquare
    <3> SUFFICES ASSUME NEW j \in DOMAIN b, pos[b[j]] = Turn PROVE source' # NoSquare
      OBVIOUS
    <3>1. b[j] \in Squares /\ b[j] \notin phys /\ source # NoSquare
      BY <2>4, <2>5, <2>8
    <3>2. Turn # "none"
      BY <1>0 DEF Sides
    <3>3. ~InPlace
      BY <3>1, <3>2 DEF InPlace, Occupied
    <3> QED BY <1>2, <2>1, <3>1, <3>3 DEF SourceNow
  <2> QED BY <1>1, <2>1, <2>3, <2>8, <2>9 DEF HumanKnows
<1> QED BY <1>7, <1>8, <1>9, <1>10, <1>11, <1>12, <1>13, <1>14, <1>15, <1>16 DEF Handle

LEMMA HandHandle ==
    ASSUME Unhurried, TypeInv, AskedInv, HandInv, Handle
    PROVE  HandInv'
<1>0. Handling /\ Turn \in Sides /\ lifted \in Buffers
  BY HandledHow, TurnIsASide DEF TypeInv, GameFits, PlayersFit
<1>1. toShow' = {} /\ events' = <<>>
  <2>1. toShow = {}
    BY <1>0 DEF Handling, AskedInv, OneTouch
  <2> QED BY <1>0, <2>1, InHand DEF Handling
<1>2. forced' => Turn' \in Engines
  <2>1. CASE Takeback \/ NewGame
    BY <2>1 DEF Takeback, NewGame, ResetMoveState
  <2>2. CASE Resume \/ NoMoveIsMade
    <3>1. past' = past /\ (forced' => forced)
      BY <2>2 DEF Resume, NoMoveIsMade, game
    <3> QED BY <3>1, TurnStays DEF HandInv, ShownHere
  <2>3. CASE MoveIsMade
    BY <2>3, MadeDoes DEF MoveIsMade
  <2> QED BY <2>1, <2>2, <2>3, HandledHow
<1>3. ASSUME Takeback PROVE HumanKnows'
  BY <1>3 DEF Takeback, HumanKnows
<1>4. ASSUME NewGame PROVE HumanKnows'
  <2>1. lifted' = [s \in Sides |-> <<>>] /\ past' = <<>>
    BY <1>4 DEF NewGame
  <2>2. Turn' \in Sides
    BY <2>1, WhiteBegins DEF Sides
  <2> QED BY <2>1, <2>2, NothingLifted
<1>5. ASSUME Resume PROVE HumanKnows'
  <2> SUFFICES ASSUME Turn' \notin Engines, ~GameOver' PROVE lifted'[Turn'] = <<>>
    BY NothingLifted
  <2>1. Turn' = Turn /\ (GameOver' <=> GameOver)
    BY <1>5, TurnStays DEF Resume, game, GameOver
  <2>2. ~forced
    BY <2>1 DEF HandInv, ShownHere
  <2>3. Ask(Turn, pos, pending, lifted)
    BY <1>5, <2>1, <2>2 DEF Resume
  <2> QED BY <1>0, <2>1, <2>3, AskEmpties
<1>6. ASSUME MoveIsMade PROVE HumanKnows'
  <2> SUFFICES ASSUME Turn' \notin Engines, ~GameOver' PROVE lifted'[Turn'] = <<>>
    BY NothingLifted
  <2>1. PICK m \in Legal(pos, Turn), c \in BOOLEAN, buf \in {lifted, Emptied},
             pend \in {pending, Cleared}: Execute(m, pend, buf, c)
    BY <1>6 DEF MoveIsMade
  <2>2. Ask(Turn', pos', pend, buf) /\ Turn' = Other(Turn)
    BY <2>1, MadeDoes
  <2>3. Turn' \in Sides
    BY <2>2, TurnIsASide DEF TypeInv, GameFits
  <2>4. buf \in Buffers
    BY <1>0, EmptiedFits DEF Emptied
  <2> QED BY <2>2, <2>3, <2>4, AskEmpties
<1>7. HumanKnows'
  BY <1>3, <1>4, <1>5, <1>6, HandNotMoved
<1> QED BY <1>1, <1>2, <1>7 DEF HandInv, ShownHere, Touched

\* The hand touches a piece when no other touch waits.
LEMMA HandHand ==
    ASSUME Unhurried, TypeInv, AskedInv, HandInv, Hand
    PROVE  HandInv'
<1>1. PICK s \in Squares: Lift(s) \/ Place(s) \/ Bounce(s)
  BY DEF Hand
<1>2. PICK l \in BOOLEAN: Sends(l, s)
  BY <1>1 DEF Lift, Place, Bounce
<1>3. /\ events' = Append(events, [lift |-> l, at |-> s])
      /\ Len(events) < MaxEvents /\ Patient
      /\ UNCHANGED <<pos, past, undone, source, pendingSource, captureSeen, forced, rookPending,
                     correction, lifted, pending, thinking, toShow>>
  BY <1>2 DEF Sends, game, moveState, players
<1>4. events = <<>> /\ events' # <<>> /\ e' = [lift |-> l, at |-> s]
  <2>1. events \in Seq([lift: BOOLEAN, at: Squares]) /\ Len(events) \in Nat
    BY DEF TypeInv, EventsFit
  <2>2. Len(events) = 0
    BY <1>3, <2>1, BoundsFit DEF Unhurried
  <2>3. events = <<>>
    BY <2>1, <2>2
  <2>4. events' = <<[lift |-> l, at |-> s]>>
    BY <1>3, <2>3
  <2> QED BY <2>3, <2>4 DEF e
<1>5. /\ e'.at = s /\ (e'.lift <=> s \notin phys')
      /\ \A t \in Squares: t # s => (t \in phys' <=> t \in phys)
      /\ ~e'.lift \/ phys' = phys \ {s}
  <2>1. CASE Lift(s)
    <3>1. events' = Append(events, [lift |-> TRUE, at |-> s]) /\ phys' = phys \ {s}
      BY <2>1 DEF Lift, Sends
    <3>2. e' = [lift |-> TRUE, at |-> s]
      BY <1>4, <3>1 DEF e
    <3> QED BY <3>1, <3>2
  <2>2. CASE Place(s) \/ Bounce(s)
    <3>1. /\ events' = Append(events, [lift |-> FALSE, at |-> s])
          /\ phys' = phys \cup {s}
      BY <2>2 DEF Place, Bounce, Sends, hands
    <3>2. e' = [lift |-> FALSE, at |-> s]
      BY <1>4, <3>1 DEF e
    <3> QED BY <3>1, <3>2
  <2> QED BY <1>1, <2>1, <2>2
<1>6. Turn' = Turn /\ (GameOver' <=> GameOver)
  BY <1>3, TurnStays DEF GameOver
<1>7. Touched'
  BY <1>5 DEF Touched
<1>8. ShownHere'
  <2>1. toShow' = {}
    BY <1>3 DEF Patient, Unhurried
  <2> QED BY <1>3, <1>6, <2>1 DEF HandInv, ShownHere
<1>9. HumanKnows'
  <2> SUFFICES ASSUME Turn \notin Engines, ~undone, ~GameOver, ~correction
               PROVE  /\ rookPending # NoMove => lifted[Turn] = <<>>
                      /\ \A i \in DOMAIN lifted[Turn]: pos[lifted[Turn][i]] = Turn =>
                           /\ source # NoSquare
                           /\ lifted[Turn][i] \notin phys' \/ (~e'.lift /\ e'.at = lifted[Turn][i])
    BY <1>3, <1>4, <1>6 DEF HumanKnows
  <2>1. lifted[Turn] \in Seq(Squares)
    BY TurnIsASide DEF TypeInv, GameFits, PlayersFit, Buffers
  <2>2. \A i \in DOMAIN lifted[Turn]: pos[lifted[Turn][i]] = Turn =>
          source # NoSquare /\ lifted[Turn][i] \notin phys /\ lifted[Turn][i] \in Squares
    BY <1>4, <2>1 DEF HandInv, HumanKnows
  <2>3. \A t \in Squares: t \notin phys => t \notin phys' \/ (~e'.lift /\ e'.at = t)
    BY <1>5
  <2> QED BY <2>2, <2>3 DEF HandInv, HumanKnows
<1> QED BY <1>7, <1>8, <1>9 DEF HandInv

LEMMA HandStep == Unhurried /\ TypeInv /\ AskedInv /\ HandInv /\ [Next]_vars => HandInv'
<1> SUFFICES ASSUME Unhurried, TypeInv, AskedInv, HandInv, [Next]_vars PROVE HandInv'
  OBVIOUS
<1>1. ASSUME UNCHANGED <<pos, past, undone, rookPending, source, phys, events>>,
             Turn \notin Engines => lifted'[Turn] = lifted[Turn], correction => correction'
      PROVE  Touched' /\ HumanKnows' /\ Turn' = Turn
  <2>1. Turn' = Turn /\ (GameOver' <=> GameOver)
    BY <1>1, TurnStays DEF GameOver
  <2>2. events' = events /\ e' = e /\ phys' = phys
    BY <1>1 DEF e
  <2>3. Touched'
    BY <2>2 DEF HandInv, Touched
  <2>4. HumanKnows'
    BY <1>1, KnownFrame DEF HandInv
  <2> QED BY <2>1, <2>3, <2>4
<1>2. CASE UNCHANGED vars
  BY <1>1, <1>2 DEF vars, HandInv, ShownHere
<1>3. CASE Hand
  BY <1>3, HandHand
<1>4. CASE Handle
  BY <1>4, HandHandle
<1>5. ASSUME NEW s \in Engines, EngineCommits(s) PROVE HandInv'
  <2>1. /\ thinking[s] # NoPosition
        /\ UNCHANGED <<pos, past, undone, rookPending, source, phys, events, lifted>>
        /\ UNCHANGED <<correction, forced>>
    BY <1>5 DEF EngineCommits, hands, game, moveState
  <2>2. Turn \in Engines /\ events = <<>>
    BY <2>1, EnginesAssumption DEF AskedInv, ThinksHere, OneTouch
  <2>3. Touched' /\ HumanKnows' /\ Turn' = Turn
    BY <1>1, <2>1
  <2> QED BY <2>1, <2>2, <2>3 DEF HandInv, ShownHere
<1>6. ASSUME NEW m \in toShow, EngineShows(m) PROVE HandInv'
  <2>1. /\ UNCHANGED <<pos, past, undone, rookPending, source, phys, events, lifted>>
        /\ correction => correction'
    BY <1>6 DEF EngineShows, hands, game, players
  <2>2. Turn \in Engines /\ events = <<>>
    BY DEF HandInv, ShownHere
  <2>3. Touched' /\ HumanKnows' /\ Turn' = Turn
    BY <1>1, <2>1
  <2> QED BY <2>1, <2>2, <2>3 DEF HandInv, ShownHere
<1>7. CASE WorkerAnnounces
  <2>1. /\ UNCHANGED <<pos, past, undone, rookPending, source, phys, events>>
        /\ UNCHANGED <<correction, forced, toShow>>
        /\ \A s \in Sides: s \notin Engines => lifted'[s] = lifted[s]
    BY <1>7 DEF WorkerAnnounces, hands, game, moveState
  <2>2. Turn \in Sides
    BY TurnIsASide DEF TypeInv, GameFits
  <2>3. Touched' /\ HumanKnows' /\ Turn' = Turn
    BY <1>1, <2>1, <2>2
  <2> QED BY <2>1, <2>3 DEF HandInv, ShownHere
<1>8. CASE WorkerJudges \/ WorkerEnters
  <2>1. /\ UNCHANGED <<pos, past, undone, rookPending, source, phys, events>>
        /\ UNCHANGED <<lifted, forced, toShow>>
        /\ correction => correction'
    BY <1>8 DEF WorkerJudges, WorkerEnters, hands, game, moveState, players
  <2>2. Touched' /\ HumanKnows' /\ Turn' = Turn
    BY <1>1, <2>1
  <2> QED BY <2>1, <2>2 DEF HandInv, ShownHere
<1> QED BY <1>2, <1>3, <1>4, <1>5, <1>6, <1>7, <1>8 DEF Next, Engine, Worker

\* A move is made for a human only when its piece has left its square, for any board and
\* any number of pieces in hand, as long as touches wait for each other.
THEOREM PiecesMoveWhenLifted == Unhurried /\ CastlesApart /\ Spec => PieceHasLeft
<1> SUFFICES ASSUME Unhurried, CastlesApart PROVE Spec => PieceHasLeft
  OBVIOUS
<1>1. TypeInv /\ AskedInv /\ HandInv /\ [Next]_vars =>
        [Turn \notin Engines /\ ~undone /\ Len(past') = Len(past) + 1 =>
           \E m \in Legal(pos, Turn): pos' = After(pos, Turn, m) /\ m[1] \notin phys]_vars
  <2> SUFFICES ASSUME TypeInv, AskedInv, HandInv, [Next]_vars,
                      Turn \notin Engines, ~undone, Len(past') = Len(past) + 1
               PROVE  \E m \in Legal(pos, Turn): pos' = After(pos, Turn, m) /\ m[1] \notin phys
    OBVIOUS
  <2>1. Handling /\ MoveIsMade
    BY MovesAreMade
  <2>2. PICK m \in Legal(pos, Turn), c \in BOOLEAN, buf \in {lifted, Emptied},
             pend \in {pending, Cleared}:
          Execute(m, pend, buf, c) /\ (ByAnswer(m) \/ ByShown(m) \/ ByHand(m))
    BY <2>1 DEF MoveIsMade
  <2>0. Turn \in Sides /\ pos \in Positions
    BY TurnIsASide DEF TypeInv, GameFits
  <2>3. ~ByAnswer(m)
    BY <2>0, <2>1, InHand DEF ByAnswer, Waits, Answer, NoAnswer
  <2>4. CASE ByShown(m)
    <3>1. m[1] \notin phys
      BY <2>0, <2>2, <2>4, SquareIsLeft DEF ByShown
    <3> QED BY <2>2, <3>1, MadeDoes
  <2>5. CASE ByHand(m)
    <3>1. ~correction /\ ~GameOver
      BY <2>2, <2>5 DEF ByHand, GameOver
    <3>2. pos[m[1]] = Turn
      BY <2>0, <2>2, MoverIsOwn
    <3>3. CASE m = <<From, e.at>> /\ From # e.at /\ \E i \in DOMAIN Buffer: From = Buffer[i]
      <4>1. m[1] = From
        BY <3>3
      <4>2. PICK i \in DOMAIN lifted[Turn]: m[1] = lifted[Turn][i] /\ m[1] # e.at
        BY <3>3, <4>1 DEF Buffer
      <4>3. m[1] \notin phys
        BY <3>1, <3>2, <4>2 DEF HandInv, HumanKnows
      <4> QED BY <2>2, <4>3, MadeDoes
    <3>4. CASE \E s \in Sources(e.at): m = <<s, e.at>>
      <4>1. m[1] \in Sources(e.at)
        BY <3>4
      <4>2. Sources(e.at) \cap phys = {}
        BY DEF Sources, LeftSquares
      <4>3. m[1] \notin phys
        BY <4>1, <4>2
      <4> QED BY <2>2, <4>3, MadeDoes
    <3> QED BY <2>5, <3>3, <3>4 DEF ByHand, FromHand
  <2> QED BY <2>2, <2>3, <2>4, <2>5
<1> QED BY <1>1, AskedInit, AskedStep, HandInit, HandStep, TypeInit, TypeStep, PTL
    DEF Spec, PieceHasLeft

-----------------------------------------------------------------------------
(* No piece goes missing unnoticed                                         *)

\* Nobody castles: whatever arrives on the rook's square ends a castling, with no
\* further look at the board.
NoCastling == \A s \in Sides: Castles[s] = {}

NoRook == rookPending = NoMove

\* A piece that was placed and is off the board again has been lifted since.
PlacesAreFollowed ==
    \A k \in 1..Len(events): ~events[k].lift /\ events[k].at \notin phys =>
        \E j \in 1..Len(events): j > k /\ events[j].lift /\ events[j].at = events[k].at

\* A board that lacks a piece is in correction mode, has still to be looked at by the
\* worker, or waits for an answer to be carried out; or a lift of the piece is on its way
\* or remembered.
Excused == correction \/ tasks > 0 \/ worker # "idle" \/ Waits
Queued(s) == \E k \in 1..Len(events): events[k].lift /\ events[k].at = s
Held(s) == \E p \in Sides: \E i \in DOMAIN lifted[p]: lifted[p][i] = s
Missing(s) == pos[s] # "none" /\ s \notin phys
Accounted == ~Excused => \A s \in Squares: Missing(s) => Queued(s) \/ Held(s)

MissingInv == NoRook /\ PlacesAreFollowed /\ Accounted

LEMMA MissingInit == Init => MissingInv
<1> SUFFICES ASSUME Init PROVE MissingInv
  OBVIOUS
<1>1. NoRook
  BY DEF Init, NoRook
<1>2. PlacesAreFollowed
  <2>1. Len(events) = 0
    BY DEF Init
  <2> QED BY <2>1 DEF PlacesAreFollowed
<1>3. Accounted
  BY DEF Init, Accounted, Missing, Occupied
<1> QED BY <1>1, <1>2, <1>3 DEF MissingInv

\* A board on which nothing is missing needs no account.
LEMMA NothingLacks ==
    ASSUME phys' = Occupied(pos')
    PROVE  Accounted'
  BY DEF Accounted, Missing, Occupied

\* The touches of a hand are queued.
LEMMA MissingHand ==
    ASSUME TypeInv, MissingInv, Hand
    PROVE  MissingInv'
<1>1. PICK s \in Squares: Lift(s) \/ Place(s) \/ Bounce(s)
  BY DEF Hand
<1>2. PICK isLift \in BOOLEAN: Sends(isLift, s)
  BY <1>1 DEF Lift, Place, Bounce
<1>3. /\ Lift(s) => isLift
      /\ isLift => phys' = phys \ {s}
      /\ ~isLift => phys' = phys \cup {s}
  <2>1. CASE isLift
    <3>1. Append(events, [lift |-> TRUE, at |-> s]) # Append(events, [lift |-> FALSE, at |-> s])
      <4>1. events \in Seq([lift: BOOLEAN, at: Squares])
        BY DEF TypeInv, EventsFit
      <4>2. [lift |-> TRUE, at |-> s] # [lift |-> FALSE, at |-> s]
        OBVIOUS
      <4> QED BY <4>1, <4>2
    <3> QED BY <1>1, <1>2, <2>1, <3>1 DEF Lift, Place, Bounce, Sends, hands
  <2>2. CASE ~isLift
    <3>1. Append(events, [lift |-> TRUE, at |-> s]) # Append(events, [lift |-> FALSE, at |-> s])
      <4>1. events \in Seq([lift: BOOLEAN, at: Squares])
        BY DEF TypeInv, EventsFit
      <4>2. [lift |-> TRUE, at |-> s] # [lift |-> FALSE, at |-> s]
        OBVIOUS
      <4> QED BY <4>1, <4>2
    <3> QED BY <1>1, <1>2, <2>2, <3>1 DEF Lift, Place, Bounce, Sends, hands
  <2> QED BY <2>1, <2>2
<1> DEFINE x == [lift |-> isLift, at |-> s]
<1>4. /\ Len(events) \in Nat /\ Len(events') = Len(events) + 1
      /\ events'[Len(events) + 1] = x
      /\ \A k \in 1..Len(events): events'[k] = events[k]
  <2>1. events \in Seq([lift: BOOLEAN, at: Squares]) /\ events' = Append(events, x)
    BY <1>2 DEF Sends, TypeInv, EventsFit
  <2> HIDE DEF x
  <2> QED BY <2>1
<1>5. x.lift = isLift /\ x.at = s
  OBVIOUS
<1> HIDE DEF x
<1>6. UNCHANGED <<pos, past, rookPending, correction, lifted, pending, tasks, worker>>
  BY <1>2 DEF Sends, game, moveState, players
<1>7. NoRook'
  BY <1>6 DEF MissingInv, NoRook
<1>8. PlacesAreFollowed'
  <2> SUFFICES ASSUME NEW k \in 1..Len(events'), ~events'[k].lift, events'[k].at \notin phys'
      PROVE  \E j \in 1..Len(events'):
                j > k /\ events'[j].lift /\ events'[j].at = events'[k].at
    BY DEF PlacesAreFollowed
  <2>1. k # Len(events) + 1
    BY <1>3, <1>4, <1>5
  <2>2. k \in 1..Len(events) /\ events'[k] = events[k]
    BY <1>4, <2>1
  <2>3. CASE events[k].at \notin phys
    <3>1. PICK j \in 1..Len(events): j > k /\ events[j].lift /\ events[j].at = events[k].at
      BY <2>2, <2>3 DEF MissingInv, PlacesAreFollowed
    <3> QED BY <1>4, <2>2, <3>1
  <2>4. CASE events[k].at \in phys
    <3>1. isLift /\ events[k].at = s
      BY <1>3, <2>2, <2>4
    <3> DEFINE n == Len(events) + 1
    <3>2. n \in 1..Len(events') /\ n > k
      BY <1>4, <2>2
    <3>3. events'[n] = x
      BY <1>4
    <3> QED BY <1>5, <2>2, <3>1, <3>2, <3>3
  <2> QED BY <2>3, <2>4
<1>9. Accounted'
  <2>1. Excused' <=> Excused
    BY <1>6 DEF Excused, Waits, Answer, Turn
  <2> SUFFICES ASSUME ~Excused, NEW q \in Squares, Missing(q)' PROVE Queued(q)' \/ Held(q)'
    BY <2>1 DEF Accounted
  <2>2. CASE Missing(q)
    <3>1. Held(q) => Held(q)'
      BY <1>6 DEF Held
    <3>2. Queued(q) => Queued(q)'
      BY <1>4 DEF Queued
    <3> QED BY <2>2, <3>1, <3>2 DEF MissingInv, Accounted
  <2>3. CASE ~Missing(q)
    <3>1. isLift /\ q = s
      BY <1>3, <1>6, <2>3 DEF Missing
    <3>2. Len(events) + 1 \in 1..Len(events')
      BY <1>4
    <3> QED BY <1>4, <1>5, <3>1, <3>2 DEF Queued
  <2> QED BY <2>2, <2>3
<1> QED BY <1>7, <1>8, <1>9 DEF MissingInv

\* The queue after its first event.
LEMMA Dequeued ==
    ASSUME TypeInv, Handling
    PROVE  /\ Len(events) \in Nat /\ Len(events) > 0 /\ Len(events') = Len(events) - 1
           /\ events[1] = e
           /\ \A k \in 1..Len(events'): events'[k] = events[k + 1]
<1> DEFINE E == [lift: BOOLEAN, at: Squares]
<1>1. events \in Seq(E) /\ events # <<>> /\ events' = Tail(events)
  BY DEF TypeInv, EventsFit, Handling
<1> HIDE DEF E
<1> QED BY <1>1 DEF e

LEMMA FollowedHandle ==
    ASSUME TypeInv, MissingInv, Handling
    PROVE  PlacesAreFollowed'
<1> SUFFICES ASSUME NEW k \in 1..Len(events'), ~events'[k].lift, events'[k].at \notin phys'
    PROVE  \E j \in 1..Len(events'):
              j > k /\ events'[j].lift /\ events'[j].at = events'[k].at
  BY DEF PlacesAreFollowed
<1>1. phys' = phys
  BY DEF Handling, hands
<1>2. k + 1 \in 1..Len(events) /\ events'[k] = events[k + 1]
  BY Dequeued
<1>3. PICK j \in 1..Len(events): j > k + 1 /\ events[j].lift /\ events[j].at = events[k + 1].at
  BY <1>1, <1>2 DEF MissingInv, PlacesAreFollowed
<1>4. j - 1 \in 1..Len(events') /\ j - 1 > k /\ events'[j - 1] = events[j]
  <2>1. j - 1 \in 1..Len(events') /\ j - 1 > k
    BY <1>3, Dequeued
  <2>2. (j - 1) + 1 = j
    OBVIOUS
  <2> QED BY <2>1, <2>2, Dequeued
<1> QED BY <1>2, <1>3, <1>4

\* An event that changes nothing on the board: what it lifted is remembered, and only
\* what it placed may be forgotten.
LEMMA StillAccounted ==
    ASSUME TypeInv, MissingInv, Handling, pos' = pos, Excused => Excused',
           \A q \in Squares: e.lift /\ q = e.at => Held(q)',
           \A q \in Squares: Held(q) => Held(q)' \/ (~e.lift /\ q = e.at)
    PROVE  Accounted'
<1> SUFFICES ASSUME ~Excused, NEW q \in Squares, Missing(q)' PROVE Queued(q)' \/ Held(q)'
  BY DEF Accounted
<1>1. Missing(q)
  BY DEF Missing, Handling, hands
<1>2. ASSUME NEW k \in 1..Len(events), k > 1, events[k].lift, events[k].at = q PROVE Queued(q)'
  <2>1. k - 1 \in 1..Len(events') /\ (k - 1) + 1 = k
    BY <1>2, Dequeued
  <2>2. events'[k - 1] = events[k]
    BY <2>1, Dequeued
  <2> QED BY <1>2, <2>1, <2>2 DEF Queued
<1>3. CASE Queued(q)
  <2>1. PICK k \in 1..Len(events): events[k].lift /\ events[k].at = q
    BY <1>3 DEF Queued
  <2>2. CASE k = 1
    BY <2>1, <2>2, Dequeued
  <2>3. CASE k # 1
    BY <1>2, <2>1, <2>3
  <2> QED BY <2>2, <2>3
<1>4. CASE Held(q)
  <2>1. CASE ~e.lift /\ q = e.at
    <3>1. 1 \in 1..Len(events) /\ ~events[1].lift /\ events[1].at \notin phys
      BY <1>1, <2>1, Dequeued DEF Missing
    <3>2. PICK j \in 1..Len(events): j > 1 /\ events[j].lift /\ events[j].at = events[1].at
      BY <3>1 DEF MissingInv, PlacesAreFollowed
    <3> QED BY <1>2, <2>1, <3>2, Dequeued
  <2>2. CASE ~(~e.lift /\ q = e.at)
    BY <1>4, <2>2
  <2> QED BY <2>1, <2>2
<1> QED BY <1>1, <1>3, <1>4 DEF MissingInv, Accounted

\* A piece that is lifted is remembered.
LEMMA LiftedIsHeld ==
    ASSUME TypeInv, LiftNoted
    PROVE  /\ \A q \in Squares: q = e.at => Held(q)'
           /\ \A q \in Squares: Held(q) => Held(q)'
<1>1. Turn \in Sides /\ lifted \in [Sides -> Seq(Squares)]
  BY TurnIsASide DEF TypeInv, GameFits, PlayersFit, Buffers
<1> DEFINE a == lifted[Turn]
<1>2. CASE \E i \in DOMAIN a: a[i] = e.at
  <2>1. lifted' = lifted
    BY <1>2 DEF LiftNoted
  <2> QED BY <1>1, <1>2, <2>1 DEF Held
<1>3. CASE ~ \E i \in DOMAIN a: a[i] = e.at
  <2>1. lifted' = [lifted EXCEPT ![Turn] = Append(a, e.at)]
    BY <1>3 DEF LiftNoted
  <2> DEFINE b == Append(a, e.at)
  <2>2. /\ Len(a) \in Nat /\ DOMAIN a = 1..Len(a) /\ DOMAIN b = 1..(Len(a) + 1)
        /\ b[Len(a) + 1] = e.at /\ \A i \in 1..Len(a): b[i] = a[i]
    <3>1. a \in Seq(Squares) /\ e.at \in Squares
      BY <1>1, EventFits DEF LiftNoted, Playing
    <3> HIDE DEF a
    <3> QED BY <3>1
  <2>3. lifted'[Turn] = b /\ \A p \in Sides: p # Turn => lifted'[p] = lifted[p]
    BY <1>1, <2>1
  <2>4. Len(a) + 1 \in DOMAIN b
    BY <2>2
  <2>5. \A q \in Squares: q = e.at => Held(q)'
    BY <1>1, <2>2, <2>3, <2>4 DEF Held
  <2>6. \A i \in DOMAIN a: i \in DOMAIN b /\ b[i] = a[i]
    BY <2>2
  <2> HIDE DEF b
  <2>7. ASSUME NEW q \in Squares, Held(q) PROVE Held(q)'
    <3>1. PICK p \in Sides: \E i \in DOMAIN lifted[p]: lifted[p][i] = q
      BY <2>7 DEF Held
    <3>2. CASE p = Turn
      BY <1>1, <2>3, <2>6, <3>1, <3>2 DEF Held
    <3>3. CASE p # Turn
      BY <2>3, <3>1, <3>3 DEF Held
    <3> QED BY <3>2, <3>3
  <2> QED BY <2>5, <2>7
<1> QED BY <1>2, <1>3

\* Only the piece that is put back is forgotten.
LEMMA PutBackIsForgotten ==
    ASSUME TypeInv, PutBack
    PROVE  \A q \in Squares: Held(q) => Held(q)' \/ q = e.at
<1>1. Turn \in Sides /\ lifted \in [Sides -> Seq(Squares)]
  BY TurnIsASide DEF TypeInv, GameFits, PlayersFit, Buffers
<1> DEFINE a == lifted[Turn]
<1>2. PICK i \in DOMAIN a: a[i] = e.at /\ lifted' = [lifted EXCEPT ![Turn] = RemoveAt(a, i)]
  BY DEF PutBack, Buffer
<1> DEFINE b == RemoveAt(a, i)
<1>3. /\ b \in Seq(Squares) /\ Len(b) = Len(a) - 1
      /\ \A j \in 1..Len(b): b[j] = IF j < i THEN a[j] ELSE a[j + 1]
      /\ Len(a) \in Nat /\ DOMAIN a = 1..Len(a)
  <2>1. a \in Seq(Squares) /\ i \in DOMAIN a
    BY <1>1
  <2> HIDE DEF a
  <2> QED BY <2>1, RemovedAt
<1>4. DOMAIN b = 1..Len(b)
  BY <1>3
<1>5. lifted'[Turn] = b /\ \A p \in Sides: p # Turn => lifted'[p] = lifted[p]
  BY <1>1, <1>2
<1> HIDE DEF a, b
<1>6. \A j \in DOMAIN a: j # i => \E k \in DOMAIN b: b[k] = a[j]
  <2> SUFFICES ASSUME NEW j \in DOMAIN a, j # i PROVE \E k \in DOMAIN b: b[k] = a[j]
    OBVIOUS
  <2>1. CASE j < i
    <3>1. j \in 1..Len(b) /\ b[j] = a[j]
      BY <1>3, <2>1
    <3> QED BY <1>4, <3>1
  <2>2. CASE ~(j < i)
    <3>1. j - 1 \in 1..Len(b) /\ ~(j - 1 < i) /\ (j - 1) + 1 = j
      BY <1>3, <2>2
    <3>2. b[j - 1] = a[j]
      BY <1>3, <3>1
    <3> QED BY <1>4, <3>1, <3>2
  <2> QED BY <2>1, <2>2
<1> SUFFICES ASSUME NEW q \in Squares, Held(q), q # e.at PROVE Held(q)'
  OBVIOUS
<1>7. PICK p \in Sides: \E j \in DOMAIN lifted[p]: lifted[p][j] = q
  BY DEF Held
<1>8. CASE p = Turn
  <2>1. PICK j \in DOMAIN a: a[j] = q
    BY <1>7, <1>8 DEF a
  <2>2. j # i
    BY <1>2, <2>1
  <2>3. PICK k \in DOMAIN b: b[k] = q
    BY <1>6, <2>1, <2>2
  <2> QED BY <1>1, <1>5, <2>3 DEF Held
<1>9. CASE p # Turn
  BY <1>5, <1>7, <1>9 DEF Held
<1> QED BY <1>8, <1>9

\* A move that is made is looked at by the worker; one that is not legal is answered by
\* correction mode.
LEMMA TriedIsExcused ==
    ASSUME TypeInv, NEW m, NEW pend, NEW buf, NEW c, Execute(m, pend, buf, c)
    PROVE  Excused'
<1>1. tasks \in Nat
  BY DEF TypeInv, EventsFit
<1>2. tasks' = tasks + 1 \/ correction'
  BY DEF Execute
<1> QED BY <1>1, <1>2 DEF Excused

LEMMA PlayedIsExcused ==
    ASSUME TypeInv, NEW m, NEW buf, NEW c, PlayerMove(m, buf, c)
    PROVE  Excused'
<1>1. CASE m \in Legal(pos, Turn)
  BY <1>1, TriedIsExcused DEF PlayerMove
<1>2. CASE m \notin Legal(pos, Turn)
  BY <1>2 DEF PlayerMove, Excused
<1> QED BY <1>1, <1>2

\* The excuses an event leaves standing.
LEMMA ExcuseStands ==
    ASSUME UNCHANGED <<past, pending, tasks, worker>>, correction => correction'
    PROVE  Excused => Excused'
  BY DEF Excused, Waits, Answer, Turn

LEMMA AccountedHandle ==
    ASSUME TypeInv, MissingInv, Handle
    PROVE  Accounted'
<1>0. Handling /\ worker' = worker /\ phys' = phys
  BY HandledFits DEF Handling, hands
<1>1. CASE Takeback \/ NewGame \/ Resume
  <2>1. phys' = Occupied(pos')
    BY <1>0, <1>1 DEF Takeback, TakenBack, NewGame, Resume, InPlace, Occupied, game
  <2> QED BY <2>1, NothingLacks
<1>2. CASE FollowRook
  BY <1>2 DEF FollowRook, MissingInv, NoRook
<1>3. CASE StillWrong \/ LiftRefused \/ PlaceTooEarly
  <2>1. correction'
    BY <1>3 DEF StillWrong, LiftRefused, PlaceTooEarly, Correcting
  <2> QED BY <2>1 DEF Accounted, Excused
<1>4. CASE FailToPush
  <2>1. Waits'
    BY <1>4 DEF FailToPush, Dies, Waits, Answer, Turn, game, players
  <2> QED BY <2>1 DEF Accounted, Excused
<1>5. CASE PlaceNoise
  <2>1. phys' = Occupied(pos')
    BY <1>0, <1>5 DEF PlaceNoise, Noise, InPlace, Occupied, game
  <2> QED BY <2>1, NothingLacks
<1>6. CASE CorrectByPending \/ PlacePending
  <2>1. Excused'
    BY <1>6, TriedIsExcused DEF CorrectByPending, PlacePending, ExecutePending
  <2> QED BY <2>1 DEF Accounted
<1>7. CASE CorrectByMove \/ PlaceSettled
  <2>1. Excused'
    BY <1>7, ShownDoes, TriedIsExcused
  <2> QED BY <2>1 DEF Accounted
<1>8. CASE HumanForms
  <2>1. CASE \E m \in Steps: FromHand(m) /\ PlayerMove(m, Emptied, correction)
    <3>1. Excused'
      BY <2>1, PlayedIsExcused
    <3> QED BY <3>1 DEF Accounted
  <2>2. CASE Noted /\ UNCHANGED <<correction, game, players, tasks>>
    <3>1. UNCHANGED <<pos, past, lifted, pending, tasks, worker, correction>> /\ ~e.lift
      BY <1>0, <1>8, <2>2, HumanDoes DEF game, players
    <3>2. Excused => Excused'
      BY <3>1, ExcuseStands
    <3>3. \A q \in Squares: Held(q) => Held(q)'
      BY <3>1 DEF Held
    <3> QED BY <1>0, <3>1, <3>2, <3>3, StillAccounted
  <2> QED BY <1>8, <2>1, <2>2, HumanDoes
<1>9. CASE EngineForms
  <2>1. CASE Waits /\ PlayerMove(Answer, Emptied, correction)
    <3>1. Excused'
      BY <2>1, PlayedIsExcused
    <3> QED BY <3>1 DEF Accounted
  <2>2. CASE /\ Noted /\ UNCHANGED <<pending, thinking, pos, past, undone, tasks>>
             /\ correction' = (correction \/ ~Waits \/ From = e.at)
    <3>1. Waits' \/ correction'
      BY <2>2 DEF Waits, Answer, Turn
    <3> QED BY <3>1 DEF Accounted, Excused
  <2> QED BY <1>9, <2>1, <2>2, EngineDoes
<1>10. CASE LiftNoted
  <2>1. UNCHANGED <<pos, past, pending, tasks, worker, correction>> /\ e.lift
    BY <1>0, <1>10 DEF LiftNoted, game
  <2>2. Excused => Excused'
    BY <2>1, ExcuseStands
  <2> QED BY <1>0, <1>10, <2>1, <2>2, LiftedIsHeld, StillAccounted
<1>11. CASE PutBack
  <2>1. UNCHANGED <<pos, past, pending, tasks, worker, correction>> /\ ~e.lift
    BY <1>0, <1>11 DEF PutBack, Forwarded, game
  <2>2. Excused => Excused'
    BY <2>1, ExcuseStands
  <2> QED BY <1>0, <1>11, <2>1, <2>2, PutBackIsForgotten, StillAccounted
<1> QED BY <1>1, <1>2, <1>3, <1>4, <1>5, <1>6, <1>7, <1>8, <1>9, <1>10, <1>11 DEF Handle

LEMMA NoRookHandle ==
    ASSUME NoCastling, TypeInv, NoRook, Handle
    PROVE  NoRook'
<1>1. \A m, pend, buf, c: Execute(m, pend, buf, c) => rookPending' = NoMove
  <2>1. Turn \in Sides
    BY TurnIsASide DEF TypeInv, GameFits
  <2>2. \A m: Castling(Turn, m) = {}
    BY <2>1 DEF Castling, NoCastling
  <2> QED BY <2>2 DEF Execute
<1>2. \A m, buf, c: PlayerMove(m, buf, c) => rookPending' = NoMove
  BY <1>1 DEF PlayerMove, Noted, NoRook
<1>3. CASE Takeback \/ NewGame \/ FollowRook \/ Resume
  BY <1>3 DEF Takeback, NewGame, ResetMoveState, FollowRook, Resume, NoRook
<1>4. CASE StillWrong \/ FailToPush \/ LiftRefused \/ PlaceNoise \/ PlaceTooEarly
  BY <1>4, StandsByDoes DEF Noted, NoRook
<1>5. CASE CorrectByPending \/ PlacePending
  BY <1>1, <1>5 DEF CorrectByPending, PlacePending, ExecutePending, NoRook
<1>6. CASE CorrectByMove \/ PlaceSettled
  BY <1>1, <1>6, ShownDoes DEF NoRook
<1>7. CASE HumanForms
  BY <1>2, <1>7, HumanDoes DEF Noted, NoRook
<1>8. CASE EngineForms
  BY <1>2, <1>8, EngineDoes DEF Noted, NoRook
<1>9. CASE LiftNoted \/ PutBack
  BY <1>9 DEF LiftNoted, PutBack, Noted, NoRook
<1> QED BY <1>3, <1>4, <1>5, <1>6, <1>7, <1>8, <1>9 DEF Handle

\* Nothing happens to the board, the queue or what is remembered.
LEMMA MissingFrame ==
    ASSUME MissingInv, UNCHANGED <<phys, events, pos, rookPending, lifted>>, Excused => Excused'
    PROVE  MissingInv'
<1>1. NoRook' /\ PlacesAreFollowed'
  BY DEF MissingInv, NoRook, PlacesAreFollowed
<1>2. \A q: Queued(q) <=> Queued(q)'
  BY DEF Queued
<1>3. \A q: Held(q) <=> Held(q)'
  BY DEF Held
<1>4. \A q: Missing(q) <=> Missing(q)'
  BY DEF Missing
<1>5. Accounted'
  BY <1>2, <1>3, <1>4 DEF MissingInv, Accounted
<1> QED BY <1>1, <1>5 DEF MissingInv

LEMMA MissingStep ==
    NoCastling /\ "busy" \notin Conditions /\ TypeInv /\ MissingInv /\ [Next]_vars => MissingInv'
<1> SUFFICES ASSUME NoCastling, "busy" \notin Conditions, TypeInv, MissingInv, [Next]_vars
    PROVE  MissingInv'
  OBVIOUS
<1>1. CASE Hand
  BY <1>1, MissingHand
<1>2. CASE Handle
  <2>1. Handling
    BY <1>2, HandledFits
  <2> QED BY <1>2, <2>1, FollowedHandle, AccountedHandle, NoRookHandle DEF MissingInv
<1>3. CASE \E s \in Engines: EngineCommits(s)
  <2>1. PICK s \in Engines: EngineCommits(s)
    BY <1>3
  <2>2. PICK m \in Legal(thinking[s], s):
          pending' = [pending EXCEPT ![s] = [move |-> m, at |-> thinking[s]]]
    BY <2>1 DEF EngineCommits
  <2>3. UNCHANGED <<phys, events, pos, past, rookPending, correction, lifted, tasks, worker>>
    BY <2>1 DEF EngineCommits, hands, game, moveState
  <2>4. m # NoMove
    <3>1. s \in Sides /\ thinking[s] \in Positions
      BY <2>1, EnginesAssumption DEF EngineCommits, TypeInv, PlayersFit
    <3> QED BY <2>2, <3>1, LegalSteps, StepsJoin
  <2>5. Waits => Waits'
    <3>1. pending \in [Sides -> Answers \cup {NoAnswer}] /\ Turn \in Sides /\ Turn' = Turn
      BY <2>3, TurnIsASide, TurnStays DEF TypeInv, PlayersFit, Pendings, GameFits
    <3>2. CASE Turn = s
      <4>1. pending'[Turn].move = m
        BY <2>2, <3>1, <3>2
      <4> QED BY <2>4, <3>1, <4>1 DEF Waits, Answer
    <3>3. CASE Turn # s
      <4>1. pending'[Turn] = pending[Turn]
        BY <2>2, <3>1, <3>3
      <4> QED BY <3>1, <4>1 DEF Waits, Answer
    <3> QED BY <3>2, <3>3
  <2>6. Excused => Excused'
    BY <2>3, <2>5 DEF Excused
  <2> QED BY <2>3, <2>6, MissingFrame
<1>4. CASE \E m \in toShow: EngineShows(m)
  <2>1. /\ UNCHANGED <<phys, events, pos, past, rookPending, pending, lifted, tasks, worker>>
        /\ correction => correction'
    BY <1>4 DEF EngineShows, hands, game, players
  <2> QED BY <2>1, ExcuseStands, MissingFrame
<1>5. CASE WorkerAnnounces
  <2>1. UNCHANGED <<phys, events, pos, rookPending>> /\ worker' = "judge"
    BY <1>5 DEF WorkerAnnounces, hands, game, moveState
  <2>2. NoRook' /\ PlacesAreFollowed'
    BY <2>1 DEF MissingInv, NoRook, PlacesAreFollowed
  <2>3. Accounted'
    BY <2>1 DEF Accounted, Excused
  <2> QED BY <2>2, <2>3 DEF MissingInv
<1>6. CASE WorkerJudges
  <2>1. UNCHANGED <<phys, events, pos, rookPending>>
    BY <1>6 DEF WorkerJudges, hands, game, moveState
  <2>2. NoRook' /\ PlacesAreFollowed'
    BY <2>1 DEF MissingInv, NoRook, PlacesAreFollowed
  <2>3. CASE worker' = "enter"
    <3>1. Accounted'
      BY <2>3 DEF Accounted, Excused
    <3> QED BY <2>2, <3>1 DEF MissingInv
  <2>4. CASE InPlace
    <3>1. phys' = Occupied(pos')
      BY <2>1, <2>4 DEF InPlace, Occupied
    <3> QED BY <2>2, <3>1, NothingLacks DEF MissingInv
  <2> QED BY <1>6, <2>3, <2>4 DEF WorkerJudges, MissingInv, NoRook
<1>7. CASE WorkerEnters
  <2>1. UNCHANGED <<phys, events, pos, rookPending>> /\ correction'
    BY <1>7 DEF WorkerEnters, hands, game, moveState
  <2>2. NoRook' /\ PlacesAreFollowed'
    BY <2>1 DEF MissingInv, NoRook, PlacesAreFollowed
  <2>3. Accounted'
    BY <2>1 DEF Accounted, Excused
  <2> QED BY <2>2, <2>3 DEF MissingInv
<1>8. CASE UNCHANGED vars
  <2>1. /\ UNCHANGED <<phys, events, pos, past, rookPending, lifted>>
        /\ UNCHANGED <<pending, tasks, worker, correction>>
    BY <1>8 DEF vars
  <2> QED BY <2>1, ExcuseStands, MissingFrame
<1> QED BY <1>1, <1>2, <1>3, <1>4, <1>5, <1>6, <1>7, <1>8 DEF Next, Engine, Worker

\* Where nobody castles and the worker's look at the board is never skipped, no piece is
\* missing unnoticed once all is quiet, however many touches are ahead of their handling
\* (field_events, validate_physical_board_after_move).
THEOREM NoPieceGoesMissing ==
    NoCastling /\ "busy" \notin Conditions /\ Spec => []NothingMissing
<1> SUFFICES ASSUME NoCastling, "busy" \notin Conditions PROVE Spec => []NothingMissing
  OBVIOUS
<1>1. TypeInv /\ MissingInv => NothingMissing
  <2> SUFFICES ASSUME TypeInv, MissingInv, Quiet, NothingInHand, ~Waits, ~correction,
                      NEW s \in Occupied(pos), s \notin phys
      PROVE  FALSE
    BY DEF NothingMissing
  <2>1. ~Excused
    <3> SUFFICES ASSUME Excused PROVE FALSE
      OBVIOUS
    <3>1. CASE correction
      BY <3>1
    <3>2. CASE Waits
      BY <3>2
    <3>3. CASE tasks > 0
      <4>1. tasks = 0
        BY DEF Quiet
      <4> QED BY <3>3, <4>1
    <3>4. CASE worker # "idle"
      BY <3>4 DEF Quiet
    <3> QED BY <3>1, <3>2, <3>3, <3>4 DEF Excused
  <2>2. s \in Squares /\ Missing(s)
    BY DEF Occupied, Missing
  <2>3. ~Queued(s)
    <3>1. Len(events) = 0
      BY DEF Quiet
    <3> QED BY <3>1 DEF Queued
  <2>4. ~Held(s)
    <3>1. \A p \in Sides: lifted[p] = <<>>
      BY DEF NothingInHand
    <3>2. DOMAIN <<>> = {}
      OBVIOUS
    <3> QED BY <3>1, <3>2 DEF Held
  <2> QED BY <2>1, <2>2, <2>3, <2>4 DEF MissingInv, Accounted
<1>2. TypeInv /\ MissingInv /\ [Next]_vars => MissingInv'
  BY MissingStep
<1> QED BY <1>1, <1>2, TypeInit, TypeStep, MissingInit, PTL DEF Spec
================================================================================
