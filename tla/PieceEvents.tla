----------------------------- MODULE PieceEvents -----------------------------
(***************************************************************************)
(* From the board to the game: what becomes of the piece events that the   *)
(* driver (BoardLink) hands to the callback worker.                        *)
(*                                                                         *)
(* On a menu an event is queued and cancels the menu, and the main loop    *)
(* enters the game (resumes the suspended one or builds a new one) and     *)
(* forwards the queue.  In a game it goes to the game manager, which keeps *)
(* it until its thread is ready and then replays what it kept.  So three   *)
(* threads hand events to a game: the callback worker, the main loop and   *)
(* the game thread.                                                        *)
(***************************************************************************)
EXTENDS BoardLink

VARIABLES
    inGame,     \* the session: in the game, or on the menu
    widget,     \* a menu is on screen (active_widget)
    selection,  \* its result, which wakes the main loop
    pieces,     \* _pending.piece_events
    handler,    \* a game handler exists (_game.protocol); suspended on the menu
    gmReady,    \* GameManager._is_ready
    gmPending,  \* GameManager._pending_field_events
    gthread,    \* the game thread: "none", "starting" or "running"
    batch,      \* events it has taken over to replay
    main,       \* the main loop: idle or in a menu ("loop"), with a result read
                \* ("chosen"), "building", "activating" or "draining"
    taken       \* history: events the game has processed, in that order

appVars == <<inGame, widget, selection, pieces, main>>
gameVars == <<handler, gmReady, gmPending, gthread, batch, taken>>
vars == <<linkVars, appVars, gameVars>>

TypeOK ==
    /\ LinkTypeOK
    /\ inGame \in BOOLEAN
    /\ widget \in BOOLEAN
    /\ selection \in {"none", "PLAY", "BACK", "PIECE_MOVED"}
    /\ pieces \in Seq(Events) /\ gmPending \in Seq(Events) /\ batch \in Seq(Events)
    /\ handler \in BOOLEAN /\ gmReady \in BOOLEAN
    /\ gthread \in {"none", "starting", "running"}
    /\ main \in {"loop", "chosen", "building", "activating", "draining"}
    /\ taken \in Seq(Events)

Init ==
    /\ LinkInit
    /\ inGame = FALSE /\ widget = FALSE /\ selection = "none" /\ pieces = <<>>
    /\ handler = FALSE /\ gmReady = FALSE /\ gmPending = <<>>
    /\ gthread = "none" /\ batch = <<>>
    /\ main = "loop" /\ taken = <<>>

-----------------------------------------------------------------------------
\* GameManager.receive_field: kept while the game thread is not ready
Give(e) ==
    IF gmReady
    THEN taken' = Append(taken, e) /\ UNCHANGED gmPending
    ELSE gmPending' = Append(gmPending, e) /\ UNCHANGED taken

\* field_callback.  On a menu: queued, and the first one cancels the menu, which
\* comes too late when the main loop has read another result; with no menu on
\* screen and none queued it falls through, as the session is in no game.
CallbackOnMenu ==
    /\ callbacks # <<>> /\ ~inGame
    /\ IF widget \/ pieces # <<>>
       THEN /\ pieces' = Append(pieces, Head(callbacks))
            /\ selection' = IF pieces = <<>> /\ main # "chosen"
                            THEN "PIECE_MOVED" ELSE selection
            /\ UNCHANGED dropped
       ELSE /\ dropped' = dropped \cup {Head(callbacks)}
            /\ UNCHANGED <<pieces, selection>>
    /\ callbacks' = Tail(callbacks)
    /\ UNCHANGED <<boardVars, line, lost, discoveryVars, queueVars, poller, waiter,
                   listening, inGame, widget, main, gameVars>>

\* In a game: to its handler, or queued until there is one.
CallbackInGame ==
    /\ callbacks # <<>> /\ inGame
    /\ IF handler
       THEN Give(Head(callbacks)) /\ UNCHANGED pieces
       ELSE pieces' = Append(pieces, Head(callbacks)) /\ UNCHANGED <<taken, gmPending>>
    /\ callbacks' = Tail(callbacks)
    /\ UNCHANGED <<boardVars, line, lost, discoveryVars, queueVars, poller, waiter,
                   listening, dropped, inGame, widget, selection, main,
                   handler, gmReady, gthread, batch>>

-----------------------------------------------------------------------------
\* The game thread: it gets ready and takes over what was kept, then replays it.

\* it leaves what it takes over where it was
GameThreadReady_Copies ==
    /\ gthread = "starting"
    /\ gthread' = "running"
    /\ gmReady' = TRUE
    /\ batch' = gmPending
    /\ UNCHANGED <<linkVars, appVars, handler, gmPending, taken>>

GameThreadReady ==
    /\ gthread = "starting"
    /\ gthread' = "running"
    /\ gmReady' = TRUE
    /\ batch' = gmPending
    /\ gmPending' = <<>>
    /\ UNCHANGED <<linkVars, appVars, handler, taken>>

GameThreadReplay ==
    /\ batch # <<>>
    /\ taken' = Append(taken, Head(batch))
    /\ batch' = Tail(batch)
    /\ UNCHANGED <<linkVars, appVars, handler, gmReady, gmPending, gthread>>

-----------------------------------------------------------------------------
\* The main loop.

\* _cleanup_game: what is queued for the game, or kept by its manager, is gone;
\* its thread is joined.
Cleaned(queued) ==
    /\ dropped' = dropped \cup {e \in Events: Contains(queued \o gmPending, e)}
    /\ pieces' = <<>>
    /\ handler' = FALSE /\ gmReady' = FALSE /\ gmPending' = <<>>
    /\ gthread' = "none"
    /\ batch = <<>> /\ UNCHANGED batch

\* _enter_game resumes a suspended game; otherwise, or when the players have
\* changed since, it builds a new one over it.
EnterGame(anew) ==
    /\ inGame' = TRUE
    /\ IF handler /\ ~anew
       THEN main' = "draining" /\ UNCHANGED <<pieces, gameVars, dropped>>
       ELSE /\ main' = "building"
            /\ IF handler
               THEN Cleaned(pieces)
               ELSE UNCHANGED <<pieces, dropped, handler, gmReady, gmPending, gthread,
                                batch>>
            /\ UNCHANGED taken
    /\ UNCHANGED <<boardVars, line, lost, discoveryVars, queueVars, poller, waiter,
                   listening, callbacks>>

\* claim_menu_step: queued pieces enter the game
EnterWithPieces(anew) ==
    /\ main = "loop" /\ ~inGame /\ ~widget /\ pieces # <<>>
    /\ EnterGame(anew)
    /\ UNCHANGED <<widget, selection>>

\* MenuManager.show_menu: the widget is registered, and its result waited for;
\* one set while it loads is kept.
ShowMenu ==
    /\ main = "loop" /\ ~inGame /\ ~widget /\ pieces = <<>>
    /\ widget' = TRUE
    /\ UNCHANGED <<linkVars, inGame, selection, pieces, main, gameVars>>

Press(key) ==
    /\ widget /\ selection = "none"
    /\ selection' = key
    /\ UNCHANGED <<linkVars, inGame, widget, pieces, main, gameVars>>

MenuSelected ==
    /\ main = "loop" /\ widget /\ selection # "none"
    /\ main' = "chosen"
    /\ UNCHANGED <<linkVars, inGame, widget, selection, pieces, gameVars>>

\* the menu is left: with BACK, for the next round of the main loop
MenuLeft(anew) ==
    /\ main = "chosen"
    /\ widget' = FALSE
    /\ IF selection = "BACK"
       THEN main' = "loop" /\ UNCHANGED <<linkVars, inGame, pieces, gameVars>>
       ELSE EnterGame(anew)
    /\ selection' = "none"

\* _start_game_mode: the handler is made, and later its thread is started
MakeHandler ==
    /\ main = "building"
    /\ handler' = TRUE
    /\ main' = "activating"
    /\ UNCHANGED <<linkVars, inGame, widget, selection, pieces,
                   gmReady, gmPending, gthread, batch, taken>>

ActivateLocal ==
    /\ main = "activating"
    /\ gthread' = "starting"
    /\ main' = "draining"
    /\ UNCHANGED <<linkVars, inGame, widget, selection, pieces,
                   handler, gmReady, gmPending, batch, taken>>

\* the events queued on the menu are forwarded, until there are none
\* (PieceEventQueue.next)
Popped == [event |-> Head(pieces), rest |-> Tail(pieces)]

Drain ==
    /\ main = "draining"
    /\ IF pieces = <<>>
       THEN main' = "loop" /\ UNCHANGED <<pieces, taken, gmPending>>
       ELSE /\ Give(Popped.event)
            /\ pieces' = Popped.rest
            /\ UNCHANGED main
    /\ UNCHANGED <<linkVars, inGame, widget, selection,
                   handler, gmReady, gthread, batch>>

\* keys, in a game that has been entered: PLAY suspends it, BACK leaves it
Suspend ==
    /\ main = "loop" /\ inGame
    /\ inGame' = FALSE
    /\ UNCHANGED <<linkVars, widget, selection, pieces, main, gameVars>>

ReturnToMenu ==
    /\ main = "loop" /\ inGame
    /\ gthread = "running"
    /\ inGame' = FALSE
    /\ Cleaned(pieces)
    /\ UNCHANGED <<boardVars, line, lost, discoveryVars, queueVars, poller, waiter,
                   listening, callbacks, widget, selection, main, taken>>

-----------------------------------------------------------------------------
AppNext ==
    \/ CallbackOnMenu \/ CallbackInGame
    \/ GameThreadReady \/ GameThreadReplay
    \/ \E anew \in BOOLEAN: EnterWithPieces(anew) \/ MenuLeft(anew)
    \/ ShowMenu \/ MenuSelected
    \/ \E key \in {"PLAY", "BACK"}: Press(key)
    \/ MakeHandler \/ ActivateLocal \/ Drain
    \/ Suspend \/ ReturnToMenu

Next ==
    \/ LinkNext /\ UNCHANGED <<appVars, gameVars>>
    \/ AppNext

\* The threads go on; keys are pressed or not.
Fairness ==
    /\ LinkFairness
    /\ WF_vars(CallbackOnMenu \/ CallbackInGame)
    /\ WF_vars(GameThreadReady) /\ WF_vars(GameThreadReplay)
    /\ WF_vars(\E anew \in BOOLEAN: EnterWithPieces(anew) \/ MenuLeft(anew))
    /\ WF_vars(ShowMenu) /\ WF_vars(MenuSelected)
    /\ WF_vars(MakeHandler) /\ WF_vars(ActivateLocal) /\ WF_vars(Drain)

Spec == Init /\ [][Next]_vars /\ Fairness

-----------------------------------------------------------------------------
\* Properties

Waiting(e) ==
    \/ \E queue \in {held, callbacks, pieces, gmPending, batch}: Contains(queue, e)
    \/ \E k \in DOMAIN line: Contains(line[k].events, e)

\* What the game has processed it never processes again: it is not processed twice,
\* and waits in none of the queues of the driver, the menu and the game manager,
\* whichever thread handed it over, however games were begun, resumed and left.
EventsOnce ==
    \A i \in DOMAIN taken:
        /\ ~Waiting(taken[i])
        /\ \A j \in DOMAIN taken: taken[i] = taken[j] => i = j

\* The game processes events in the order in which the board saw them
\* (pending_work.py:119: "a lift and its place only make sense in sequence").  It
\* fails: three threads hand events to a game, and none looks what the others have.
EventsInOrder ==
    \A i, j \in DOMAIN taken: i < j => taken[i] < taken[j]

\* Every event the board saw reaches the game at last, unless it was given up:
\* before anybody listened, between two menus, or queued for a game discarded.
MovesArrive ==
    \A e \in Events:
        happened >= e ~> Contains(taken, e) \/ e \in dropped
=============================================================================
