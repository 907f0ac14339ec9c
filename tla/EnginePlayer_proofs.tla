-------------------------- MODULE EnginePlayer_proofs --------------------------
(***************************************************************************)
(* Proofs about a player over the registry, for any number of threads,     *)
(* loads, retries and positions.                                           *)
(*                                                                         *)
(* The player uses the registry as its users may: each of its steps is a   *)
(* step of the registry or leaves it alone (PlayerUsesRegistry), so what   *)
(* is proved of the registry holds with the player on top.                 *)
(*                                                                         *)
(* The invariants build on each other: LoadInv says that the player loads  *)
(* one engine at a time into an empty seat, AnswerInv which position is    *)
(* asked about, computed and answered, AskInv who will see to it that the  *)
(* engine is asked.  A theorem names the conditions it needs to be absent. *)
(***************************************************************************)
EXTENDS EnginePlayer, EngineRegistry_proofs

\* The reference the player has was taken by a thread that has finished loading.
SeatInv ==
    "raise" \notin Conditions /\ seat # NoThread =>
        pc[seat] = "held" /\ at[seat] \notin {"load", "loading"}

PlaceInv ==
    /\ seat \in Loaders \union {NoThread}
    /\ pc \in [Users -> Places]
    /\ at \in [Threads -> Steps]

UseInv == PlaceInv /\ SeatInv

LEMMA UseInit == Init => UseInv
    BY DEF Init, RegistryInit, UseInv, PlaceInv, SeatInv, Places, Steps

\* The steps of the registry that a user takes move this user only.
LEMMA UserMoves ==
    ASSUME PlaceInv, NEW x \in Users, Acquire(x) \/ Continue(x) \/ Release(x)
    PROVE  /\ pc' \in [Users -> Places]
           /\ \A u \in Users: u # x => pc'[u] = pc[u]
           /\ pc[x] = "held" => Release(x)
<1>1. CASE Acquire(x)
    BY <1>1 DEF PlaceInv, Places, Acquire, Reuse, AwaitOther, Register, TakeReference
<1>2. CASE Continue(x)
    <2>1. CASE LaunchDone(x) \/ Publish(x) \/ FinishLoad(x)
        BY <2>1 DEF PlaceInv, Places, LaunchDone, Publish, FinishLoad
    <2>2. CASE Woken(x) \/ WaitTimeout(x)
        BY <2>2 DEF PlaceInv, Places, Woken, WaitTimeout, LookAgain, TakeReference
    <2> QED
        BY <1>2, <2>1, <2>2 DEF Continue
<1>3. CASE Release(x)
    BY <1>3 DEF PlaceInv, Places, Release
<1> QED
    BY <1>1, <1>2, <1>3

LEMMA EngineMoves ==
    ASSUME EngineStep
    PROVE  UNCHANGED pc
    BY DEF EngineStep, EvictUnused, QuitEngine, EngineDies

\* Starting a player takes a load thread that holds nothing.
LEMMA StartMoves ==
    ASSUME UseInv, NEW p \in Threads, NEW s \in Steps \ {"load", "loading"}, Start(p, s),
           UNCHANGED <<registryVars, seat>>
    PROVE  UseInv'
<1> USE LoadersAssumption DEF UseInv, PlaceInv, SeatInv, registryVars
<1>1. PICK t \in Loaders: /\ t # p /\ Idle(t) /\ pc[t] = "idle"
                          /\ at' = [at EXCEPT ![t] = "load", ![p] = s]
    BY DEF Start
<1>2. at' \in [Threads -> Steps]
    BY <1>1 DEF Threads, Steps
<1>3. SeatInv'
    <2> SUFFICES ASSUME "raise" \notin Conditions, seat # NoThread
                 PROVE  pc[seat] = "held" /\ at'[seat] \notin {"load", "loading"}
        OBVIOUS
    <2>1. seat # t
        BY <1>1
    <2>2. seat \in Threads
        BY DEF Threads
    <2>3. at'[seat] \in {at[seat], s}
        BY <1>1, <2>1, <2>2
    <2> QED
        BY <2>3
<1> QED
    BY <1>2, <1>3

\* A thread goes on, the seat and the registry stay.
LEMMA GoMoves ==
    ASSUME UseInv, NEW p \in Threads, NEW s \in Steps \ {"load", "loading"}, Go(p, s),
           UNCHANGED <<registryVars, seat>>
    PROVE  UseInv'
<1> USE DEF UseInv, PlaceInv, SeatInv, registryVars
<1>1. at' \in [Threads -> Steps]
    BY DEF Go
<1>2. SeatInv'
    BY DEF Go, Threads
<1> QED
    BY <1>1, <1>2

----------------------------------------------------------------------------
(* Each step of the player is one of the registry, or leaves it alone      *)

LEMMA ConnectUses == ASSUME UseInv, Connect PROVE UseInv'
<1>1. Go("link", "release") /\ UNCHANGED <<registryVars, seat>>
    BY DEF Connect
<1> QED
    BY <1>1, GoMoves DEF Threads, Steps

LEMMA DetachUses ==
    ASSUME UseInv, DetachAndRelease
    PROVE  UseInv' /\ [RegistryNext]_registryVars
<1> USE DEF UseInv
<1>1. CASE seat = NoThread
    <2>1. UNCHANGED registryVars /\ Go("link", "stop") /\ seat' = NoThread
        BY <1>1 DEF DetachAndRelease
    <2> QED
        BY <2>1 DEF PlaceInv, SeatInv, Go, registryVars, Steps, Threads
<1>2. CASE seat # NoThread
    <2>1. seat \in Users /\ Release(seat) /\ Go("link", "stop") /\ seat' = NoThread
        BY <1>2, LoadersAssumption DEF DetachAndRelease, PlaceInv
    <2>2. pc' \in [Users -> Places]
        BY <2>1, UserMoves
    <2>3. at' \in [Threads -> Steps]
        BY <2>1 DEF PlaceInv, Go, Steps
    <2>4. RegistryNext
        BY <2>1 DEF RegistryNext
    <2> QED
        BY <2>1, <2>2, <2>3, <2>4 DEF PlaceInv, SeatInv
<1> QED
    BY <1>1, <1>2

\* What the thread of a load does to the registry, it does for itself.
LEMMA LoadUses ==
    ASSUME UseInv, NEW t \in Loaders, BeginLoad(t) \/ ConfigureFails(t)
    PROVE  UseInv' /\ [RegistryNext]_registryVars
<1> USE LoadersAssumption DEF UseInv
<1>1. /\ Acquire(t) \/ Release(t)
      /\ seat' \in {seat, t} /\ ("raise" \notin Conditions => seat' = seat)
      /\ at[t] \in {"load", "loading"}
      /\ \E s \in Steps: at' = [at EXCEPT ![t] = s]
    BY DEF BeginLoad, ConfigureFails, Go, Steps
<1>2. t \in Users /\ t \in Threads
    BY DEF Threads
<1>3. pc' \in [Users -> Places] /\ \A u \in Users: u # t => pc'[u] = pc[u]
    BY <1>1, <1>2, UserMoves
<1>7. PICK s \in Steps: at' = [at EXCEPT ![t] = s]
    BY <1>1
<1>4. at' \in [Threads -> Steps]
    BY <1>7, <1>2 DEF PlaceInv
<1>5. SeatInv'
    <2>1. SUFFICES ASSUME seat # NoThread, "raise" \notin Conditions
                   PROVE  pc'[seat] = "held" /\ at'[seat] \notin {"load", "loading"}
        BY <1>1 DEF SeatInv
    <2>2. seat \in Loaders /\ pc[seat] = "held" /\ at[seat] \notin {"load", "loading"}
        BY <2>1 DEF SeatInv, PlaceInv
    <2>3. seat # t
        BY <1>1, <2>2
    <2>4. at'[seat] = at[seat]
        BY <1>7, <1>2, <2>2, <2>3 DEF PlaceInv, Threads
    <2> QED
        BY <1>3, <2>2, <2>3, <2>4
<1>6. RegistryNext
    BY <1>1, <1>2 DEF RegistryNext
<1> QED
    BY <1>1, <1>3, <1>4, <1>5, <1>6 DEF PlaceInv

LEMMA ContinueUses ==
    ASSUME UseInv, NEW x \in Users, Continue(x) \/ (x \in Others /\ (Acquire(x) \/ Release(x))),
           UNCHANGED <<seat, at>>
    PROVE  UseInv' /\ [RegistryNext]_registryVars
<1> USE LoadersAssumption DEF UseInv
<1>1. /\ pc' \in [Users -> Places]
      /\ \A u \in Users: u # x => pc'[u] = pc[u]
      /\ pc[x] = "held" => Release(x)
    BY UserMoves
<1>2. SeatInv'
    <2>1. CASE x \in Others
        BY <2>1, <1>1 DEF SeatInv, PlaceInv, Others
    <2>2. CASE Continue(x)
        <3>1. pc[x] # "held"
            BY <2>2 DEF Continue, LaunchDone, Publish, FinishLoad, Woken, WaitTimeout
        <3> QED
            BY <3>1, <1>1 DEF SeatInv, PlaceInv
    <2> QED
        BY <2>1, <2>2
<1>3. RegistryNext
    BY DEF RegistryNext
<1> QED
    BY <1>1, <1>2, <1>3 DEF PlaceInv

LEMMA ElsewhereUses ==
    ASSUME UseInv, Elsewhere
    PROVE  UseInv' /\ [RegistryNext]_registryVars
<1>1. UNCHANGED <<seat, at>>
    BY DEF Elsewhere, playerVars
<1>2. CASE \E u \in Others: Acquire(u) \/ Continue(u) \/ Release(u)
    <2>1. PICK u \in Others: Acquire(u) \/ Continue(u) \/ Release(u)
        BY <1>2
    <2>2. u \in Users
        BY DEF Others
    <2> QED
        BY <1>1, <2>1, <2>2, ContinueUses
<1>3. CASE EngineStep
    <2>1. UNCHANGED pc
        BY <1>3, EngineMoves
    <2>2. RegistryNext
        BY <1>3 DEF RegistryNext
    <2> QED
        BY <1>1, <2>1, <2>2 DEF UseInv, PlaceInv, SeatInv
<1> QED
    BY <1>2, <1>3 DEF Elsewhere

\* The engine is ready: the thread that took the reference leaves it in the seat.
LEMMA ReadyUses ==
    ASSUME UseInv, NEW t \in Loaders, EngineReady(t)
    PROVE  UseInv' /\ UNCHANGED registryVars
<1> USE LoadersAssumption DEF UseInv, registryVars
<1>1. /\ pc[t] = "held" /\ seat' = t /\ UNCHANGED registryVars
      /\ \E s \in {"first", "idle"}: at' = [at EXCEPT ![t] = s]
    BY DEF EngineReady, Go
<1>2. PICK s \in {"first", "idle"}: at' = [at EXCEPT ![t] = s]
    BY <1>1
<1>3. t \in Threads
    BY DEF Threads
<1>4. at' \in [Threads -> Steps] /\ at'[t] = s
    BY <1>2, <1>3 DEF PlaceInv, Steps
<1> QED
    BY <1>1, <1>4 DEF PlaceInv, SeatInv

\* The other steps of the threads leave the registry and the seat alone.
LEMMA QuietUses ==
    ASSUME UseInv,
           \/ FirstStart \/ Connect \/ Stopped \/ Disconnect
           \/ \E t \in Loaders: LoadFails(t) \/ FirstReady(t) \/ ServeQueued(t)
           \/ \E p \in Threads: Ask(p) \/ Offer(p) \/ Queue(p) \/ Claim(p) \/ Spawn(p)
           \/ Move \/ Takeback \/ NewGame \/ OnTakeback \/ OnNewGame
    PROVE  UseInv' /\ UNCHANGED registryVars
<1> DEFINE Rest == Steps \ {"load", "loading"}
<1>1. UNCHANGED <<registryVars, seat>>
    BY DEF FirstStart, Connect, Stopped, Disconnect, LoadFails, FirstReady, ServeQueued, Ask,
           Offer, Queue, Claim, Spawn, Move, Takeback, NewGame, OnTakeback, OnNewGame
<1>2. \E p \in Threads, s \in Rest: Go(p, s) \/ Start(p, s)
    <2> USE DEF Steps, Threads
    <2>1. CASE FirstStart \/ Connect \/ Stopped \/ Disconnect
        BY <2>1 DEF FirstStart, Connect, Stopped, Disconnect
    <2>2. CASE \E t \in Loaders: LoadFails(t) \/ FirstReady(t) \/ ServeQueued(t)
        BY <2>2 DEF LoadFails, FirstReady, ServeQueued
    <2>3. ASSUME NEW p \in Threads, Ask(p) \/ Offer(p)
          PROVE  \E s \in Rest: Go(p, s) \/ Start(p, s)
        BY <2>3 DEF Ask, Offer, Recover
    <2>4. ASSUME NEW p \in Threads, Queue(p) \/ Spawn(p) \/ Claim(p)
          PROVE  \E s \in Rest: Go(p, s)
        BY <2>4 DEF Queue, Claim, Spawn, After
    <2>5. CASE Move \/ Takeback \/ NewGame \/ OnTakeback \/ OnNewGame
        BY <2>5 DEF Move, Takeback, NewGame, OnTakeback, OnNewGame
    <2> QED
        BY <2>1, <2>2, <2>3, <2>4, <2>5
<1>3. PICK p \in Threads, s \in Rest: Go(p, s) \/ Start(p, s)
    BY <1>2
<1> QED
    BY <1>1, <1>3, GoMoves, StartMoves

LEMMA StepUses ==
    ASSUME UseInv, [Next]_vars
    PROVE  UseInv' /\ [RegistryNext]_registryVars
<1>1. CASE DetachAndRelease
    BY <1>1, DetachUses
<1>2. ASSUME NEW t \in Loaders, LoaderStep(t) \/ ConfigureFails(t)
      PROVE  UseInv' /\ [RegistryNext]_registryVars
    <2>1. CASE BeginLoad(t) \/ ConfigureFails(t)
        BY <2>1, LoadUses
    <2>2. CASE LoadGoesOn(t)
        <3>1. t \in Users /\ Continue(t)
            BY <2>2, LoadersAssumption DEF LoadGoesOn
        <3>2. UNCHANGED <<seat, at>>
            BY <2>2 DEF LoadGoesOn, playerVars
        <3> QED
            BY <3>1, <3>2, ContinueUses
    <2>3. CASE EngineReady(t)
        BY <2>3, ReadyUses
    <2>4. CASE LoadFails(t) \/ FirstReady(t) \/ ServeQueued(t)
        BY <2>4, QuietUses
    <2> QED
        BY <1>2, <2>1, <2>2, <2>3, <2>4 DEF LoaderStep
<1>3. CASE Elsewhere
    BY <1>3, ElsewhereUses
<1>4. CASE (\E th \in thinkers: Commit(th) \/ AfterCommit(th)) \/ AnnounceMove \/ UNCHANGED vars
    BY <1>4 DEF Commit, AfterCommit, AnnounceMove, vars, playerVars, registryVars, UseInv,
                PlaceInv, SeatInv
<1>5. CASE \/ FirstStart \/ Connect \/ Stopped \/ Disconnect
           \/ \E p \in Threads: Ask(p) \/ Offer(p) \/ Queue(p) \/ Claim(p) \/ Spawn(p)
           \/ Move \/ Takeback \/ NewGame \/ OnTakeback \/ OnNewGame
    BY <1>5, QuietUses
<1> QED
    BY <1>1, <1>2, <1>3, <1>4, <1>5 DEF Next

\* The player is a user of the registry: every behaviour of the two together is
\* one of the registry (start, stop, acquire_async).
THEOREM PlayerUsesRegistry == Spec => RegistrySpec
<1>1. Init => RegistryInit /\ UseInv
    BY UseInit DEF Init
<1>2. UseInv /\ [Next]_vars => UseInv' /\ [RegistryNext]_registryVars
    BY StepUses
<1> QED
    BY <1>1, <1>2, PTL DEF Spec, RegistrySpec

\* The player's handle is one the registry counts a reference for, whatever
\* loads, fails, stops or is evicted meanwhile, if nothing fails once the handle
\* is stored (stop, _on_engine_ready).
THEOREM PlayerHoldsItsEngine ==
    ASSUME "raise" \notin Conditions
    PROVE  Spec => []SeatIsHeld
<1>1. UseInv /\ [Next]_vars => UseInv'
    BY StepUses
<1>2. UseInv => SeatIsHeld
    BY DEF UseInv, SeatInv, SeatIsHeld
<1> QED
    BY UseInit, <1>1, <1>2, PTL DEF Spec

----------------------------------------------------------------------------
(* The thinking flag                                                       *)

LEMMA FlagStep ==
    ASSUME FlagHasThinker, [Next]_vars
    PROVE  FlagHasThinker'
<1> USE DEF FlagHasThinker
<1>1. CASE FirstStart \/ DetachAndRelease \/ Stopped \/ Disconnect
    BY <1>1 DEF FirstStart, DetachAndRelease, Stopped, Disconnect
<1>2. CASE Connect \/ OnTakeback \/ OnNewGame
    BY <1>2 DEF Connect, OnTakeback, OnNewGame, Invalidate
<1>3. ASSUME NEW t \in Loaders, LoaderStep(t) \/ ConfigureFails(t) PROVE FlagHasThinker'
    BY <1>3 DEF LoaderStep, ConfigureFails, BeginLoad, LoadGoesOn, EngineReady, LoadFails,
                FirstReady, ServeQueued, playerVars
<1>4. ASSUME NEW p \in Threads, Ask(p) \/ Offer(p) \/ Queue(p) PROVE FlagHasThinker'
    BY <1>4 DEF Ask, Offer, Queue
<1>5. ASSUME NEW p \in Threads, Claim(p) PROVE FlagHasThinker'
    BY <1>5 DEF Claim
<1>6. ASSUME NEW p \in Threads, Spawn(p) PROVE FlagHasThinker'
    <2>1. PICK th \in thinkers:
            /\ thinkers' = (thinkers \ {th}) \union
                   {[gen |-> th.gen, pos |-> IF board[p] = 0 THEN pos ELSE board[p],
                     engine |-> th.engine, step |-> "compute", by |-> NoThread]}
            /\ gen' = gen /\ thinking' = thinking
        BY <1>6 DEF Spawn
    <2> DEFINE r == [gen |-> th.gen, pos |-> IF board[p] = 0 THEN pos ELSE board[p],
                     engine |-> th.engine, step |-> "compute", by |-> NoThread]
    <2>2. SUFFICES ASSUME thinking
                   PROVE  \E x \in thinkers': x.gen = gen /\ x.step \in {"claimed", "compute"}
        BY <2>1
    <2>3. PICK w \in thinkers: w.gen = gen /\ w.step \in {"claimed", "compute"}
        BY <2>2
    <2>4. CASE w = th
        <3>1. r \in thinkers' /\ r.gen = gen /\ r.step = "compute"
            BY <2>1, <2>3, <2>4
        <3> HIDE DEF r
        <3> QED
            BY <3>1
    <2>5. CASE w # th
        BY <2>1, <2>3, <2>5
    <2> QED
        BY <2>4, <2>5
<1>7. ASSUME NEW th \in thinkers, Commit(th) \/ AfterCommit(th) PROVE FlagHasThinker'
    BY <1>7 DEF Commit, AfterCommit
<1>8. CASE Move \/ AnnounceMove \/ Takeback \/ NewGame \/ Elsewhere \/ UNCHANGED vars
    BY <1>8 DEF Move, AnnounceMove, Takeback, NewGame, Elsewhere, vars, playerVars
<1> QED
    BY <1>1, <1>2, <1>3, <1>4, <1>5, <1>6, <1>7, <1>8 DEF Next

\* The thinking flag has a computation that will lower it, however requests,
\* invalidations and late results interleave (_do_request_move,
\* _invalidate_pending).
THEOREM ThinkingEnds == Spec => []FlagHasThinker
<1>1. Init => FlagHasThinker
    BY DEF Init, FlagHasThinker
<1>2. FlagHasThinker /\ [Next]_vars => FlagHasThinker'
    BY FlagStep
<1> QED
    BY <1>1, <1>2, PTL DEF Spec

----------------------------------------------------------------------------
(* Types                                                                   *)

Computations ==
    [gen: Nat, pos: 0..MaxPos, engine: Loads \union {None},
     step: {"claimed", "compute", "done"}, by: Threads \union {NoThread}]

\* The types of what a step of the player may change, but for the places.
StateTypes ==
    /\ status \in Statuses
    /\ queued \in 0..MaxPos
    /\ seat \in Loaders \union {NoThread}
    /\ retries \in 0..MaxLoadRetries
    /\ gen \in Nat
    /\ thinking \in BOOLEAN
    /\ answer \in 0..MaxPos
    /\ thinkers \subseteq Computations
    /\ board \in [Threads -> 0..MaxPos]

GameTypes ==
    /\ fired \in BOOLEAN /\ seated \in BOOLEAN /\ news \in BOOLEAN /\ origin \in Origins
    /\ pos \in 1..MaxPos
    /\ turn \in {"human", "engine"} /\ first \in {"human", "engine"}

LEMMA TypesAre ==
    TypeOK <=> RegistryTypeOK /\ StateTypes /\ at \in [Threads -> Steps] /\ GameTypes
    BY DEF TypeOK, StateTypes, GameTypes, Computations

\* The engine of the seat is a load; a computation keeps its fields.
LEMMA SeatEngine ==
    ASSUME RegistryTypeOK, StateTypes
    PROVE  Engine \in Loads \union {None}
    BY LoadersAssumption DEF RegistryTypeOK, StateTypes, Engine

LEMMA Computed ==
    ASSUME NEW g \in Nat, NEW n \in 0..MaxPos, NEW e \in Loads \union {None},
           NEW s \in {"claimed", "compute", "done"}, NEW p \in Threads \union {NoThread}
    PROVE  [gen |-> g, pos |-> n, engine |-> e, step |-> s, by |-> p] \in Computations
    BY DEF Computations

LEMMA ComputedFields ==
    ASSUME NEW th \in Computations
    PROVE  /\ th.gen \in Nat /\ th.pos \in 0..MaxPos /\ th.engine \in Loads \union {None}
           /\ th.step \in {"claimed", "compute", "done"} /\ th.by \in Threads \union {NoThread}
    BY DEF Computations

LEMMA TypesStep ==
    ASSUME TypeOK, [Next]_vars
    PROVE  StateTypes' /\ GameTypes'
<1> USE PlayerBoundsAssumption
<1>t. RegistryTypeOK /\ StateTypes /\ GameTypes
    BY TypesAre
<1>z. 0 \in 0..MaxPos /\ pos \in 0..MaxPos /\ (pos < MaxPos => pos + 1 \in 1..MaxPos)
    BY <1>t DEF GameTypes
<1>1. CASE FirstStart
    BY <1>1, <1>t DEF FirstStart, Start, StateTypes, GameTypes, Statuses, gameVars
<1>2. CASE Connect \/ OnTakeback \/ OnNewGame
    <2>1. Invalidate /\ UNCHANGED <<queued, seat, retries, thinkers, board, fired, gameVars>>
        BY <1>2 DEF Connect, OnTakeback, OnNewGame
    <2>2. status' \in {status, "init", "ready"}
        <3>1. CASE Connect \/ OnTakeback
            BY <3>1 DEF Connect, OnTakeback, AfterInvalidate
        <3>2. CASE OnNewGame
            <4>1. CASE status = "error"
                BY <3>2, <4>1 DEF OnNewGame, Start
            <4>2. CASE status # "error"
                BY <3>2, <4>2 DEF OnNewGame, AfterInvalidate
            <4> QED
                BY <4>1, <4>2
        <3> QED
            BY <1>2, <3>1, <3>2
    <2>3. status' \in Statuses
        BY <2>2, <1>t DEF Statuses, StateTypes
    <2>4. gen' = gen + 1 /\ thinking' = FALSE /\ answer' = 0
        BY <2>1 DEF Invalidate
    <2>5. gen \in Nat
        BY <1>t DEF StateTypes
    <2>6. gen' \in Nat
        BY <2>4, <2>5
    <2> QED
        BY <2>1, <2>3, <2>4, <2>6, <1>t, <1>z DEF StateTypes, GameTypes, gameVars
<1>3. CASE DetachAndRelease
    BY <1>3, <1>t DEF DetachAndRelease, StateTypes, GameTypes, gameVars
<1>4. CASE Stopped
    BY <1>4, <1>t DEF Stopped, StateTypes, GameTypes, Statuses
<1>5. CASE Disconnect
    <2>1. /\ status' = "init" /\ seated' = TRUE /\ origin' = "app"
          /\ turn' \in {"human", "engine"} /\ pos' = pos + 1 /\ pos < MaxPos
          /\ UNCHANGED <<queued, seat, retries, gen, thinking, answer, thinkers, board, fired,
                         first, news>>
        BY <1>5 DEF Disconnect, Start
    <2> QED
        BY <2>1, <1>t, <1>z DEF StateTypes, GameTypes, Statuses, Origins
<1>6. ASSUME NEW t \in Loaders, LoaderStep(t) \/ ConfigureFails(t)
      PROVE  StateTypes' /\ GameTypes'
    <2>1. CASE BeginLoad(t) \/ LoadGoesOn(t)
        BY <2>1, <1>t DEF BeginLoad, LoadGoesOn, StateTypes, GameTypes, playerVars, gameVars
    <2>2. CASE EngineReady(t)
        BY <2>2, <1>t DEF EngineReady, StateTypes, GameTypes, Statuses, gameVars
    <2>3. CASE ConfigureFails(t) \/ LoadFails(t)
        <3>1. /\ status' = "error" /\ seat' \in {seat, t} /\ retries' \in {retries, 0}
              /\ UNCHANGED <<queued, gen, thinking, answer, thinkers, board, fired, gameVars>>
            BY <2>3 DEF ConfigureFails, LoadFails
        <3> QED
            BY <3>1, <1>t DEF StateTypes, GameTypes, Statuses, gameVars
    <2>4. CASE FirstReady(t)
        <3>1. /\ queued' \in {0, queued} /\ fired' \in BOOLEAN
              /\ UNCHANGED <<status, seat, retries, gen, thinking, answer, thinkers, board,
                             gameVars>>
            BY <2>4, <1>t DEF FirstReady, AllReady, GameTypes
        <3>2. queued' \in 0..MaxPos
            BY <3>1, <1>t, <1>z DEF StateTypes
        <3> QED
            BY <3>1, <3>2, <1>t DEF StateTypes, GameTypes, gameVars
    <2>5. CASE ServeQueued(t)
        <3>1. /\ queued' = 0 /\ board' = [board EXCEPT ![t] = queued]
              /\ UNCHANGED <<status, seat, retries, gen, thinking, answer, thinkers, fired,
                             gameVars>>
            BY <2>5 DEF ServeQueued
        <3>2. board' \in [Threads -> 0..MaxPos]
            BY <3>1, <1>t DEF StateTypes
        <3> QED
            BY <3>1, <3>2, <1>t, <1>z DEF StateTypes, GameTypes, gameVars
    <2> QED
        BY <1>6, <2>1, <2>2, <2>3, <2>4, <2>5 DEF LoaderStep
<1>7. ASSUME NEW p \in Threads, Ask(p) \/ Offer(p) \/ Queue(p)
      PROVE  StateTypes' /\ GameTypes'
    <2>1. /\ queued' \in {0, queued, pos} /\ status' \in {status, "init"}
          /\ \/ retries' = retries
             \/ retries < MaxLoadRetries /\ retries' = retries + 1
          /\ UNCHANGED <<seat, gen, thinking, answer, thinkers, board, fired, gameVars>>
        BY <1>7 DEF Ask, Offer, Queue, Recover, Start
    <2>2. queued' \in 0..MaxPos /\ retries' \in 0..MaxLoadRetries /\ status' \in Statuses
        BY <2>1, <1>t, <1>z DEF StateTypes, Statuses
    <2> QED
        BY <2>1, <2>2, <1>t DEF StateTypes, GameTypes, gameVars
<1>8. ASSUME NEW p \in Threads, Claim(p)
      PROVE  StateTypes' /\ GameTypes'
    <2>1. /\ UNCHANGED <<status, queued, seat, retries, answer, fired, gameVars>>
          /\ board' = board \/ board' = [board EXCEPT ![p] = 0]
        BY <1>8 DEF Claim
    <2>4. board' \in [Threads -> 0..MaxPos]
        BY <2>1, <1>t, <1>z DEF StateTypes
    <2>2. CASE ~thinking /\ answer = 0 /\ seat # NoThread
        <3>1. /\ gen' = gen + 1 /\ thinking' = TRUE
              /\ thinkers' = thinkers \union
                     {[gen |-> gen + 1, pos |-> 0, engine |-> Engine, step |-> "claimed", by |-> p]}
            BY <1>8, <2>2 DEF Claim
        <3>2. gen + 1 \in Nat /\ thinkers \subseteq Computations
            BY <1>t DEF StateTypes
        <3>3. thinkers' \subseteq Computations
            BY <3>1, <3>2, <1>t, <1>z, SeatEngine, Computed
        <3> QED
            BY <2>1, <2>4, <3>1, <3>2, <3>3, <1>t DEF StateTypes, GameTypes, gameVars
    <2>3. CASE ~(~thinking /\ answer = 0 /\ seat # NoThread)
        <3>1. UNCHANGED <<gen, thinking, thinkers>>
            BY <1>8, <2>3 DEF Claim
        <3> QED
            BY <2>1, <2>4, <3>1, <1>t DEF StateTypes, GameTypes, gameVars
    <2> QED
        BY <2>2, <2>3
<1>9. ASSUME NEW p \in Threads, Spawn(p)
      PROVE  StateTypes' /\ GameTypes'
    <2> DEFINE n == IF board[p] = 0 THEN pos ELSE board[p]
    <2>1. PICK th \in thinkers:
              thinkers' = (thinkers \ {th}) \union
                  {[gen |-> th.gen, pos |-> n, engine |-> th.engine, step |-> "compute",
                    by |-> NoThread]}
        BY <1>9 DEF Spawn
    <2>2. th \in Computations /\ thinkers \subseteq Computations
        BY <1>t DEF StateTypes
    <2>3. n \in 0..MaxPos
        BY <1>t, <1>z DEF StateTypes
    <2> HIDE DEF n
    <2>4. thinkers' \subseteq Computations
        BY <2>1, <2>2, <2>3, ComputedFields, Computed
    <2>5. /\ status' = "thinking" /\ board' = [board EXCEPT ![p] = 0]
          /\ UNCHANGED <<queued, seat, retries, gen, thinking, answer, fired, gameVars>>
        BY <1>9 DEF Spawn
    <2>6. board' \in [Threads -> 0..MaxPos]
        BY <2>5, <1>t, <1>z DEF StateTypes
    <2> QED
        BY <2>4, <2>5, <2>6, <1>t DEF StateTypes, GameTypes, Statuses, gameVars
<1>10. ASSUME NEW th \in thinkers, Commit(th) \/ AfterCommit(th)
       PROVE  StateTypes' /\ GameTypes'
    <2>1. th \in Computations /\ thinkers \subseteq Computations
        BY <1>t DEF StateTypes
    <2>2. Ended(th) \in Computations /\ th.pos \in 0..MaxPos
        BY <2>1, ComputedFields, Computed DEF Ended
    <2>3. /\ thinkers' \in {thinkers \ {th}, (thinkers \ {th}) \union {Ended(th)}}
          /\ thinking' \in {thinking, FALSE} /\ answer' \in {answer, th.pos}
          /\ status' \in {status, "ready"}
          /\ UNCHANGED <<queued, seat, retries, gen, board, fired, gameVars>>
        BY <1>10 DEF Commit, AfterCommit
    <2>4. thinkers' \subseteq Computations
        BY <2>1, <2>2, <2>3
    <2>5. /\ thinking' \in BOOLEAN /\ answer' \in 0..MaxPos /\ status' \in Statuses
        BY <2>2, <2>3, <1>t DEF StateTypes, Statuses
    <2> QED
        BY <2>3, <2>4, <2>5, <1>t DEF StateTypes, GameTypes, gameVars
<1>11. CASE Move \/ Takeback \/ NewGame
    <2>1. /\ pos < MaxPos /\ pos' = pos + 1 /\ origin' \in Origins /\ news' \in {TRUE, news}
          /\ turn' \in {"human", "engine", first}
          /\ UNCHANGED <<status, queued, seat, retries, gen, thinking, answer, thinkers, board,
                         fired, seated, first>>
        BY <1>11 DEF Move, Takeback, NewGame, NextPosition, Origins
    <2> QED
        BY <2>1, <1>t, <1>z DEF StateTypes, GameTypes
<1>12. CASE AnnounceMove
    <2>1. /\ news' = FALSE /\ answer' \in {answer, 0}
          /\ UNCHANGED <<status, queued, seat, retries, gen, thinking, thinkers, board, fired,
                         seated, pos, turn, first, origin>>
        BY <1>12 DEF AnnounceMove
    <2> QED
        BY <2>1, <1>t, <1>z DEF StateTypes, GameTypes
<1>13. CASE Elsewhere \/ UNCHANGED vars
    BY <1>13, <1>t DEF Elsewhere, vars, playerVars, gameVars, StateTypes, GameTypes
<1> QED
    BY <1>1, <1>2, <1>3, <1>4, <1>5, <1>6, <1>7, <1>8, <1>9, <1>10, <1>11, <1>12, <1>13 DEF Next

LEMMA PlayerInit == Init => TypeOK /\ UseInv /\ RegistryInv
<1> SUFFICES ASSUME Init PROVE TypeOK /\ UseInv /\ RegistryInv
    OBVIOUS
<1>1. RegistryInv /\ UseInv
    BY UseInit, InitInv DEF Init
<1>2. at \in [Threads -> Steps] /\ RegistryTypeOK
    BY <1>1 DEF UseInv, PlaceInv, RegistryInv
<1>3. board \in [Threads -> 0..MaxPos]
    BY PlayerBoundsAssumption DEF Init
<1>z. 0 \in 0..MaxPos /\ 0 \in 0..MaxLoadRetries /\ 0 \in Nat /\ 1 \in 1..MaxPos
    BY PlayerBoundsAssumption
<1>4. StateTypes
    BY <1>3, <1>z DEF Init, StateTypes, Statuses
<1>5. GameTypes
    BY <1>z DEF Init, GameTypes, Origins
<1> QED
    BY <1>1, <1>2, <1>4, <1>5, TypesAre

LEMMA PlayerStep ==
    TypeOK /\ UseInv /\ RegistryInv /\ [Next]_vars => TypeOK' /\ UseInv' /\ RegistryInv'
<1> SUFFICES ASSUME TypeOK, UseInv, RegistryInv, [Next]_vars
             PROVE  TypeOK' /\ UseInv' /\ RegistryInv'
    OBVIOUS
<1>1. UseInv' /\ RegistryInv'
    BY StepUses, NextInv
<1>2. RegistryTypeOK' /\ at' \in [Threads -> Steps]
    BY <1>1 DEF UseInv, PlaceInv, RegistryInv
<1>3. StateTypes' /\ GameTypes'
    BY TypesStep
<1>4. TypeOK'
    BY <1>2, <1>3 DEF TypeOK, StateTypes, GameTypes, Computations
<1> QED
    BY <1>1, <1>4

\* The variables of the player and of the registry have their types, for any
\* threads, loads, retries and positions and whatever the conditions.
THEOREM TypeCorrect == Spec => []TypeOK
    BY PlayerInit, PlayerStep, PTL DEF Spec

----------------------------------------------------------------------------
(* One load at a time, and the app                                         *)

LEMMA ThreadNames ==
    /\ "game" \in Threads /\ "link" \in Threads /\ Loaders \subseteq Threads
    /\ "game" \notin Loaders /\ "link" \notin Loaders /\ NoThread \notin Loaders
    /\ Loaders \subseteq Users
    BY LoadersAssumption DEF Threads

LEMMA Goes ==
    ASSUME at \in [Threads -> Steps], NEW p \in Threads, NEW s, Go(p, s)
    PROVE  at'[p] = s /\ \A q \in Threads: q # p => at'[q] = at[q]
    BY DEF Go

LEMMA Starts ==
    ASSUME at \in [Threads -> Steps], NEW p \in Threads, NEW s, Start(p, s)
    PROVE  /\ status' = "init"
           /\ \E t \in Loaders: /\ t # p /\ at[t] = "idle" /\ pc[t] = "idle"
                                /\ at'[t] = "load" /\ at'[p] = s
                                /\ \A q \in Threads: q # p /\ q # t => at'[q] = at[q]
<1>1. PICK t \in Loaders: /\ t # p /\ at[t] = "idle" /\ pc[t] = "idle" /\ status' = "init"
                          /\ at' = [at EXCEPT ![t] = "load", ![p] = s]
    BY DEF Start, Idle
<1>2. t \in Threads
    BY ThreadNames
<1>3. /\ at'[t] = "load" /\ at'[p] = s
      /\ \A q \in Threads: q # p /\ q # t => at'[q] = at[q]
    BY <1>1, <1>2
<1> QED
    BY <1>1, <1>3

Busy(t) == at[t] \in {"load", "loading"}
Claiming(p) == at[p] \in {"claim", "claimed"}
AppSeat == at["link"] \in {"release", "stop", "leave"}

\* Which steps each thread has.
StepsApart ==
    /\ \A t \in Loaders: at[t] \in {"idle", "load", "loading", "first", "serve", "claim", "claimed"}
    /\ at["game"] \in {"idle", "ask", "offer", "queue", "claim", "claimed", "undo", "reset"}
    /\ at["link"] \in {"idle", "release", "stop", "leave", "offer", "claim", "claimed"}

\* A load thread waits for the registry only while it loads, and what it holds
\* afterwards is the seat's.
LoadsEnd ==
    \A t \in Loaders:
        /\ at[t] # "loading" => pc[t] \in {"idle", "held"}
        /\ at[t] = "load" => pc[t] = "idle"
        /\ pc[t] = "held" /\ at[t] # "loading" => seat = t

\* There is one load at a time, while the player is initialising and its seat
\* is empty.
LoadsOnce ==
    /\ \A t \in Loaders: Busy(t) => seat = NoThread /\ status = "init"
    /\ \A t, u \in Loaders: at[t] # "idle" /\ at[u] # "idle" => t = u
    /\ status = "init" => \E t \in Loaders: Busy(t)

\* What the threads do with a player that is not ready, and with its seat.
StatusFits ==
    /\ status \in {"new", "error", "stopped"} =>
           seat = NoThread /\ \A t \in Loaders: at[t] = "idle"
    /\ \A t \in Loaders: at[t] \in {"first", "serve"} => status \in {"ready", "thinking"}
    /\ \A p \in Threads: Claiming(p) => status \in {"ready", "thinking"}
    /\ status \in {"ready", "thinking"} => seat # NoThread \/ at["link"] = "stop"

\* While the app takes the seat nothing is loaded or asked for.
AppAlone ==
    /\ AppSeat => /\ \A t \in Loaders: at[t] = "idle"
                  /\ at["game"] \notin {"queue", "claim", "claimed"}
                  /\ status \notin {"new", "thinking"}
    /\ at["link"] \in {"stop", "leave"} => seat = NoThread
    /\ at["link"] = "leave" <=> status = "stopped"
    /\ at["link"] = "leave" <=> ~seated

LoadInv == StepsApart /\ LoadsEnd /\ LoadsOnce /\ StatusFits /\ AppAlone

LEMMA LoadInit == Init => LoadInv
<1> SUFFICES ASSUME Init PROVE LoadInv
    OBVIOUS
<1>1. \A p \in Threads: at[p] = "idle"
    BY DEF Init
<1>2. \A t \in Loaders: pc[t] = "idle"
    BY ThreadNames DEF Init, RegistryInit
<1>3. status = "new" /\ seat = NoThread /\ seated = TRUE
    BY DEF Init
<1> QED
    BY <1>1, <1>2, <1>3, ThreadNames
       DEF LoadInv, StepsApart, LoadsEnd, LoadsOnce, StatusFits, AppAlone, Busy, Claiming, AppSeat

LEMMA LoadStep ==
    ASSUME TypeOK, UseInv, LoadInv, [Next]_vars,
           "overlap" \notin Conditions, "early" \notin Conditions, "raise" \notin Conditions
    PROVE  LoadInv'
<1> USE ThreadNames
<1> USE DEF LoadInv, StepsApart, LoadsEnd, LoadsOnce, StatusFits, AppAlone, Busy, Claiming, AppSeat
<1>a. at \in [Threads -> Steps] /\ pc \in [Users -> Places]
    BY DEF TypeOK, RegistryTypeOK
<1>h. SeatInv
    BY DEF UseInv
<1>l. seat \in Loaders \union {NoThread}
    BY DEF UseInv, PlaceInv
<1>1. CASE FirstStart
    <2>1. PICK t \in Loaders:
            /\ t # "game" /\ at[t] = "idle" /\ pc[t] = "idle" /\ status' = "init"
            /\ at'[t] = "load" /\ at'["game"] = "idle"
            /\ \A q \in Threads: q # "game" /\ q # t => at'[q] = at[q]
        BY <1>1, <1>a, Starts DEF FirstStart
    <2>2. UNCHANGED <<pc, seat, seated>> /\ status = "new"
        BY <1>1 DEF FirstStart, registryVars, gameVars
    <2> QED
        BY <2>1, <2>2
<1>2. CASE Connect
    <2>1. /\ at'["link"] = "release" /\ \A q \in Threads: q # "link" => at'[q] = at[q]
          /\ at["link"] = "idle"
        BY <1>2, <1>a, Goes DEF Connect, Idle
    <2>2. /\ UNCHANGED <<pc, seat, seated>> /\ seated /\ status # "new"
          /\ \A t \in Loaders: at[t] = "idle"
          /\ \A p \in Threads: at[p] \notin {"ask", "offer", "queue", "claim", "claimed", "reset"}
          /\ status' = IF status = "thinking" THEN "ready" ELSE status
        BY <1>2 DEF Connect, registryVars, gameVars, Idle, Apart, AfterInvalidate
    <2> QED
        BY <2>1, <2>2
<1>3. CASE DetachAndRelease
    <2>1. /\ at'["link"] = "stop" /\ \A q \in Threads: q # "link" => at'[q] = at[q]
          /\ at["link"] = "release" /\ seat' = NoThread /\ UNCHANGED <<status, seated>>
        BY <1>3, <1>a, Goes DEF DetachAndRelease, gameVars
    <2>2. \A u \in Users: pc'[u] = IF u = seat THEN "idle" ELSE pc[u]
        <3>1. CASE seat = NoThread
            BY <1>3, <3>1, LoadersAssumption DEF DetachAndRelease, registryVars
        <3>2. CASE seat # NoThread
            BY <1>3, <1>a, <1>h, <1>l, <3>2 DEF DetachAndRelease, Release, SeatInv
        <3> QED
            BY <3>1, <3>2
    <2> QED
        BY <2>1, <2>2
<1>4. CASE Stopped
    <2>1. /\ at'["link"] = "leave" /\ \A q \in Threads: q # "link" => at'[q] = at[q]
          /\ at["link"] = "stop" /\ status' = "stopped" /\ seated' = FALSE /\ UNCHANGED <<pc, seat>>
        BY <1>4, <1>a, Goes DEF Stopped, registryVars
    <2> QED
        BY <2>1 DEF Threads
<1>5. CASE Disconnect
    <2>1. PICK t \in Loaders:
            /\ t # "link" /\ at[t] = "idle" /\ pc[t] = "idle" /\ status' = "init"
            /\ at'[t] = "load" /\ at'["link"] = "offer"
            /\ \A q \in Threads: q # "link" /\ q # t => at'[q] = at[q]
        BY <1>5, <1>a, Starts DEF Disconnect
    <2>2. UNCHANGED <<pc, seat>> /\ seated' = TRUE /\ at["link"] = "leave"
        BY <1>5 DEF Disconnect, registryVars
    <2> QED
        BY <2>1, <2>2
<1>6. ASSUME NEW t \in Loaders, LoaderStep(t) \/ ConfigureFails(t)
      PROVE  LoadInv'
    <2>1. CASE BeginLoad(t)
        <3>1. /\ at'[t] = "loading" /\ \A q \in Threads: q # t => at'[q] = at[q]
              /\ at[t] = "load" /\ UNCHANGED <<status, seat, seated>>
            BY <2>1, <1>a, Goes DEF BeginLoad, gameVars
        <3>2. \A u \in Users: u # t => pc'[u] = pc[u]
            BY <2>1, UserMoves DEF UseInv, BeginLoad
        <3> QED
            BY <3>1, <3>2
    <2>2. CASE LoadGoesOn(t)
        <3>1. UNCHANGED <<at, status, seat, seated>>
            BY <2>2 DEF LoadGoesOn, playerVars, gameVars
        <3>2. \A u \in Users: u # t => pc'[u] = pc[u]
            BY <2>2, UserMoves DEF UseInv, LoadGoesOn
        <3>3. pc[t] \notin {"idle", "held"}
            BY <2>2 DEF LoadGoesOn, Continue, LaunchDone, Publish, FinishLoad, Woken, WaitTimeout
        <3> QED
            BY <3>1, <3>2, <3>3
    <2>3. CASE EngineReady(t)
        <3>1. /\ at[t] = "loading" /\ pc[t] = "held" /\ seat' = t /\ status' = "ready"
              /\ UNCHANGED <<pc, seated>> /\ status = "init"
            BY <2>3 DEF EngineReady, gameVars, registryVars
        <3>2. at'[t] = "first" /\ \A q \in Threads: q # t => at'[q] = at[q]
            BY <2>3, <3>1, <1>a, Goes DEF EngineReady
        <3> QED
            BY <3>1, <3>2
    <2>4. CASE LoadFails(t) \/ ConfigureFails(t)
        <3>1. /\ at[t] = "loading" /\ status' = "error" /\ UNCHANGED <<seat, seated>>
              /\ at'[t] = "idle" /\ \A q \in Threads: q # t => at'[q] = at[q]
            BY <2>4, <1>a, Goes DEF LoadFails, ConfigureFails, gameVars
        <3>2. \A u \in Users: pc'[u] = IF u = t THEN "idle" ELSE pc[u]
            BY <2>4, <1>a DEF LoadFails, ConfigureFails, Release, registryVars
        <3> QED
            BY <3>1, <3>2
    <2>5. CASE FirstReady(t) \/ ServeQueued(t)
        <3>1. /\ at[t] \in {"first", "serve"} /\ UNCHANGED <<pc, status, seat, seated>>
              /\ \E s \in {"idle", "claim", "serve"}: Go(t, s)
            BY <2>5 DEF FirstReady, ServeQueued, gameVars, registryVars
        <3>2. /\ at'[t] \in {"idle", "claim", "serve"}
              /\ \A q \in Threads: q # t => at'[q] = at[q]
            BY <3>1, <1>a, Goes
        <3> QED
            BY <3>1, <3>2
    <2> QED
        BY <1>6, <2>1, <2>2, <2>3, <2>4, <2>5 DEF LoaderStep
<1>7. ASSUME NEW p \in Threads, Ask(p) \/ Offer(p) PROVE LoadInv'
    <2>1. at[p] \in {"ask", "offer"} /\ UNCHANGED <<pc, seat, seated>>
        BY <1>7 DEF Ask, Offer, gameVars, registryVars
    <2>2. \A q \in Threads: at[q] \notin {"release", "stop"}
        BY <1>7 DEF Ask, Offer, Apart
    <2>3. CASE /\ status = "ready" /\ seated /\ Go(p, "claim") /\ UNCHANGED status
        BY <2>1, <2>2, <2>3, <1>a, Goes
    <2>4. CASE /\ status = "init" /\ at[p] = "ask" /\ seated /\ Go(p, "queue") /\ UNCHANGED status
        BY <2>1, <2>2, <2>4, <1>a, Goes DEF Threads
    <2>5. CASE /\ status = "error" /\ at[p] = "ask" /\ seated /\ Start(p, "idle")
        <3>1. PICK t \in Loaders:
                /\ t # p /\ at[t] = "idle" /\ pc[t] = "idle" /\ status' = "init"
                /\ at'[t] = "load" /\ at'[p] = "idle"
                /\ \A q \in Threads: q # p /\ q # t => at'[q] = at[q]
            BY <2>5, <1>a, Starts
        <3> QED
            BY <2>1, <2>2, <2>5, <3>1 DEF Threads
    <2>6. CASE Go(p, "idle") /\ UNCHANGED status
        BY <2>1, <2>2, <2>6, <1>a, Goes
    <2>7. CASE Ask(p)
        BY <2>7, <2>3, <2>4, <2>5, <2>6 DEF Ask, Recover
    <2>8. CASE Offer(p)
        BY <2>8, <2>3, <2>6 DEF Offer
    <2> QED
        BY <1>7, <2>7, <2>8
<1>8. ASSUME NEW p \in Threads, Queue(p) PROVE LoadInv'
    <2>1. /\ at[p] = "queue" /\ UNCHANGED <<pc, status, seat, seated>>
          /\ at'[p] = "idle" /\ \A q \in Threads: q # p => at'[q] = at[q]
        BY <1>8, <1>a, Goes DEF Queue, gameVars, registryVars
    <2> QED
        BY <2>1
<1>9. ASSUME NEW p \in Threads, Claim(p) \/ Spawn(p) PROVE LoadInv'
    <2>1. /\ Claiming(p) /\ UNCHANGED <<pc, seat, seated>> /\ status' \in {status, "thinking"}
        BY <1>9 DEF Claim, Spawn, gameVars, registryVars
    <2>2. /\ p \in Loaders \/ at'[p] \in {"claimed", "idle"}
          /\ at'[p] \in {"claimed", "serve", "idle"}
          /\ \A q \in Threads: q # p => at'[q] = at[q]
        BY <1>9, <1>a, Goes DEF Claim, Spawn, After
    <2> QED
        BY <2>1, <2>2 DEF Threads
<1>10. ASSUME NEW th \in thinkers, Commit(th) \/ AfterCommit(th) PROVE LoadInv'
    <2>1. /\ UNCHANGED <<pc, at, seat, seated>>
          /\ status' = status \/ (status = "thinking" /\ status' = "ready")
        BY <1>10 DEF Commit, AfterCommit, gameVars, registryVars
    <2> QED
        BY <2>1
<1>11. CASE Move \/ Takeback \/ NewGame \/ OnTakeback \/ OnNewGame
    <2>1. UNCHANGED <<pc, seat, seated>>
        BY <1>11 DEF Move, Takeback, NewGame, OnTakeback, OnNewGame, NextPosition, gameVars,
                     registryVars
    <2>2. CASE /\ \E s \in {"idle", "ask", "offer", "undo", "reset"}: Go("game", s)
               /\ status' = status \/ (status = "thinking" /\ status' = "ready")
        BY <2>1, <2>2, <1>a, Goes
    <2>3. CASE /\ status = "error" /\ Start("game", "offer")
               /\ \A q \in Threads: at[q] \notin {"release", "stop"}
        <3>1. PICK t \in Loaders:
                /\ t # "game" /\ at[t] = "idle" /\ pc[t] = "idle" /\ status' = "init"
                /\ at'[t] = "load" /\ at'["game"] = "offer"
                /\ \A q \in Threads: q # "game" /\ q # t => at'[q] = at[q]
            BY <2>3, <1>a, Starts
        <3> QED
            BY <2>1, <2>3, <3>1
    <2>4. CASE Move \/ Takeback \/ NewGame
        BY <2>2, <2>4 DEF Move, Takeback, NewGame
    <2>5. CASE OnTakeback
        BY <2>2, <2>5 DEF OnTakeback, AfterInvalidate
    <2>6. CASE OnNewGame
        BY <2>2, <2>3, <2>6 DEF OnNewGame, AfterInvalidate, Apart
    <2> QED
        BY <1>11, <2>4, <2>5, <2>6
<1>12. CASE AnnounceMove \/ UNCHANGED vars
    <2>1. UNCHANGED <<pc, at, status, seat, seated>>
        BY <1>12 DEF AnnounceMove, vars, playerVars, gameVars, registryVars
    <2> QED
        BY <2>1
<1>13. CASE Elsewhere
    <2>1. UNCHANGED <<at, status, seat, seated>>
        BY <1>13 DEF Elsewhere, playerVars, gameVars
    <2>2. \A t \in Loaders: pc'[t] = pc[t]
        <3>1. CASE EngineStep
            BY <3>1, EngineMoves
        <3>2. ASSUME NEW u \in Others, Acquire(u) \/ Continue(u) \/ Release(u)
              PROVE  \A t \in Loaders: pc'[t] = pc[t]
            BY <3>2, UserMoves DEF UseInv, Others
        <3> QED
            BY <1>13, <3>1, <3>2 DEF Elsewhere
    <2> QED
        BY <2>1, <2>2
<1> QED
    BY <1>1, <1>2, <1>3, <1>4, <1>5, <1>6, <1>7, <1>8, <1>9, <1>10, <1>11, <1>12, <1>13 DEF Next

\* A load thread that has ended left its reference with the player or returned
\* it, whatever fails, dies or is evicted and however takebacks, new games and
\* apps interrupt the requests; the thread of a load must not be interrupted
\* itself (acquire_async: "that reference is otherwise orphaned").
THEOREM NoReferenceIsOrphaned ==
    ASSUME "overlap" \notin Conditions, "early" \notin Conditions, "raise" \notin Conditions
    PROVE  Spec => []NoOrphanReference
<1>1. Init => LoadInv /\ TypeOK /\ UseInv /\ RegistryInv
    BY LoadInit, PlayerInit
<1>2. LoadInv /\ TypeOK /\ UseInv /\ RegistryInv /\ [Next]_vars
          => LoadInv' /\ TypeOK' /\ UseInv' /\ RegistryInv'
    BY LoadStep, PlayerStep
<1>3. LoadInv => NoOrphanReference
    BY DEF LoadInv, LoadsEnd, NoOrphanReference, Idle
<1> QED
    BY <1>1, <1>2, <1>3, PTL DEF Spec

----------------------------------------------------------------------------
(* Which position is asked about, and which answered                       *)

AtWork(th) == th.gen = gen /\ th.step \in {"claimed", "compute"}

\* The position is new, and what was asked before it is not yet cancelled.
Unsettled == at["game"] \in {"undo", "reset"}

\* The computations are told apart by their generations; the one of the present
\* generation is the one that thinks.
Generations ==
    /\ \A th \in thinkers: th.gen <= gen
    /\ \A th, u \in thinkers: th.gen = u.gen => th = u
    /\ \A th \in thinkers: AtWork(th) => thinking
    /\ thinking => answer = 0

WorkFits ==
    \A th \in thinkers:
        AtWork(th) /\ th.step = "compute" => Unsettled \/ (th.pos = pos /\ turn = "engine")

\* Who claims has a position to ask about that is on the board, and leaves no
\* request queued.
ClaimsFit ==
    /\ \A p \in Threads: Claiming(p) => turn = "engine" /\ board[p] \in {0, pos} /\ queued = 0
    /\ board["game"] = 0 /\ board["link"] = 0
    /\ \A t \in Loaders: board[t] # 0 => Claiming(t)

QueueFits ==
    /\ queued # 0 => queued = pos /\ turn = "engine" /\ answer = 0 /\ ~thinking
    /\ at["game"] = "queue" => status \in {"init", "error"} /\ turn = "engine"

AnswerFits ==
    /\ status \in {"new", "init", "error"} => answer = 0 /\ ~thinking
    /\ AppSeat => queued = 0 /\ answer = 0 /\ ~thinking
    /\ answer # 0 => (answer = pos /\ turn = "engine") \/ news \/ Unsettled

AnswerInv == Generations /\ WorkFits /\ ClaimsFit /\ QueueFits /\ AnswerFits

LEMMA AnswerInit == Init => AnswerInv
<1> SUFFICES ASSUME Init PROVE AnswerInv
    OBVIOUS
<1>1. /\ thinkers = {} /\ thinking = FALSE /\ answer = 0 /\ queued = 0 /\ status = "new"
      /\ \A p \in Threads: at[p] = "idle" /\ board[p] = 0
    BY DEF Init
<1> QED
    BY <1>1, ThreadNames DEF AnswerInv, Generations, WorkFits, ClaimsFit, QueueFits, AnswerFits,
                             Claiming, AppSeat

\* The steps that touch neither requests nor answers.
LEMMA AnswerStays ==
    ASSUME TypeOK, LoadInv, AnswerInv,
           UNCHANGED <<queued, gen, thinking, answer, thinkers, board, turn, pos, news>>,
           \A p \in Threads: Claiming(p)' <=> Claiming(p),
           at'["game"] \in {"queue", "undo", "reset"} <=> at["game"] \in {"queue", "undo", "reset"},
           at'["game"] \in {"queue", "undo", "reset"} => at'["game"] = at["game"],
           at'["game"] = "queue" => status' \in {"init", "error"},
           AppSeat' => AppSeat,
           status' \in {"new", "init", "error"} => status \in {"new", "init", "error"} \/ AppSeat
    PROVE  AnswerInv'
<1> USE ThreadNames DEF AnswerInv
<1>1. Generations' /\ WorkFits'
    BY DEF Generations, WorkFits, AtWork, Unsettled
<1>2. ClaimsFit' /\ QueueFits'
    BY DEF ClaimsFit, QueueFits, Claiming
<1>3. AnswerFits'
    BY DEF AnswerFits, Unsettled
<1> QED
    BY <1>1, <1>2, <1>3

\* What is under way and what has been answered is cancelled.
LEMMA Invalidates ==
    ASSUME TypeOK, AnswerInv, Invalidate, UNCHANGED thinkers
    PROVE  Generations' /\ WorkFits' /\ answer' = 0 /\ thinking' = FALSE
<1>1. /\ gen \in Nat /\ gen' = gen + 1 /\ answer' = 0 /\ thinking' = FALSE
      /\ \A th \in thinkers: th.gen \in Nat /\ th.gen <= gen
      /\ \A th, u \in thinkers: th.gen = u.gen => th = u
      /\ thinkers' = thinkers
    BY TypesAre, ComputedFields DEF Invalidate, AnswerInv, Generations, StateTypes
<1>2. \A th \in thinkers: th.gen <= gen' /\ th.gen # gen'
    <2>1. \A a, b \in Nat: a <= b => a <= b + 1 /\ a # b + 1
        OBVIOUS
    <2> QED
        BY <1>1, <2>1, Zenon
<1> QED
    BY <1>1, <1>2 DEF Generations, WorkFits, AtWork

LEMMA AnswerStep ==
    ASSUME TypeOK, UseInv, LoadInv, AnswerInv, [Next]_vars,
           "overlap" \notin Conditions, "early" \notin Conditions, "requeue" \notin Conditions,
           "race" \notin Conditions, "raise" \notin Conditions
    PROVE  AnswerInv'
<1> USE ThreadNames
<1>a. at \in [Threads -> Steps] /\ board \in [Threads -> 0..MaxPos]
    BY DEF TypeOK
<1>b. /\ gen \in Nat /\ pos \in 1..MaxPos /\ queued \in 0..MaxPos /\ answer \in 0..MaxPos
      /\ thinking \in BOOLEAN /\ news \in BOOLEAN /\ fired \in BOOLEAN
      /\ thinkers \subseteq Computations
    BY TypesAre DEF StateTypes, GameTypes
<1>c. Generations /\ WorkFits /\ ClaimsFit /\ QueueFits /\ AnswerFits
    BY DEF AnswerInv
<1>d. StepsApart /\ LoadsEnd /\ LoadsOnce /\ StatusFits /\ AppAlone
    BY DEF LoadInv
<1>1. CASE FirstStart
    <2>1. PICK t \in Loaders:
            /\ at[t] = "idle" /\ at'[t] = "load" /\ at'["game"] = "idle" /\ status' = "init"
            /\ \A q \in Threads: q # "game" /\ q # t => at'[q] = at[q]
        BY <1>1, <1>a, Starts DEF FirstStart
    <2>2. /\ UNCHANGED <<queued, gen, thinking, answer, thinkers, board, turn, pos, news, fired>>
          /\ at["game"] = "idle" /\ status = "new"
        BY <1>1 DEF FirstStart, gameVars, Idle
    <2> QED
        BY <2>1, <2>2, AnswerStays DEF Claiming, AppSeat
<1>2. CASE Connect
    <2>1. /\ at'["link"] = "release" /\ \A q \in Threads: q # "link" => at'[q] = at[q]
        BY <1>2, <1>a, Goes DEF Connect
    <2>2. /\ Invalidate /\ UNCHANGED <<queued, thinkers, board, turn, pos, news, fired>>
          /\ queued = 0
          /\ \A p \in Threads: at[p] \notin {"ask", "offer", "queue", "claim", "claimed", "reset"}
        BY <1>2 DEF Connect, gameVars, Apart
    <2>3. Generations' /\ WorkFits' /\ answer' = 0 /\ thinking' = FALSE
        BY <2>2, Invalidates
    <2>4. ClaimsFit' /\ QueueFits'
        BY <1>c, <2>1, <2>2 DEF ClaimsFit, QueueFits, Claiming
    <2>5. AnswerFits'
        BY <2>2, <2>3 DEF AnswerFits
    <2> QED
        BY <2>3, <2>4, <2>5 DEF AnswerInv
<1>3. CASE DetachAndRelease \/ Stopped
    <2>1. /\ at["link"] \in {"release", "stop"} /\ at'["link"] \in {"stop", "leave"}
          /\ \A q \in Threads: q # "link" => at'[q] = at[q]
        BY <1>3, <1>a, Goes DEF DetachAndRelease, Stopped
    <2>2. /\ UNCHANGED <<queued, gen, thinking, answer, thinkers, board, turn, pos, news, fired>>
          /\ status' \in {status, "stopped"}
        BY <1>3 DEF DetachAndRelease, Stopped, gameVars
    <2> QED
        BY <1>d, <2>1, <2>2, AnswerStays DEF Claiming, AppSeat, AppAlone
<1>4. CASE Disconnect
    <2>1. PICK t \in Loaders:
            /\ at[t] = "idle" /\ at'[t] = "load" /\ at'["link"] = "offer" /\ status' = "init"
            /\ \A q \in Threads: q # "link" /\ q # t => at'[q] = at[q]
        BY <1>4, <1>a, Starts DEF Disconnect
    <2>2. /\ UNCHANGED <<queued, gen, thinking, answer, thinkers, board, news, fired>>
          /\ at["game"] = "idle" /\ at["link"] = "leave"
        BY <1>4 DEF Disconnect, Idle
    <2>3. queued = 0 /\ answer = 0 /\ ~thinking /\ \A q \in Loaders: at[q] = "idle"
        BY <1>c, <1>d, <2>2 DEF AnswerFits, AppAlone, AppSeat
    <2>4. \A p \in Threads: at'[p] \in {"idle", "load", "offer"}
        BY <2>1, <2>2, <2>3 DEF Threads
    <2>5. Generations' /\ WorkFits'
        BY <1>c, <2>2, <2>3 DEF Generations, WorkFits, AtWork
    <2>6. ClaimsFit' /\ QueueFits' /\ AnswerFits'
        BY <1>c, <2>2, <2>3, <2>4 DEF ClaimsFit, QueueFits, AnswerFits, Claiming
    <2> QED
        BY <2>5, <2>6 DEF AnswerInv
<1>5. ASSUME NEW t \in Loaders, LoaderStep(t) \/ ConfigureFails(t)
      PROVE  AnswerInv'
    <2>1. CASE BeginLoad(t) \/ LoadGoesOn(t)
        <3>1. /\ at' = at \/ (at[t] = "load" /\ Go(t, "loading"))
              /\ UNCHANGED <<queued, gen, thinking, answer, thinkers, board, turn, pos, news,
                             fired, status>>
            BY <2>1 DEF BeginLoad, LoadGoesOn, playerVars, gameVars
        <3>2. /\ at'[t] \in {at[t], "loading"} /\ \A q \in Threads: q # t => at'[q] = at[q]
            BY <3>1, <1>a, Goes
        <3> QED
            BY <1>c, <3>1, <3>2, AnswerStays DEF Claiming, AppSeat, QueueFits
    <2>2. CASE (EngineReady(t) /\ NoneQueueing) \/ LoadFails(t) \/ ConfigureFails(t)
        <3>1. /\ at[t] = "loading" /\ status' \in {"ready", "error"}
              /\ at'[t] \in {"first", "idle"} /\ \A q \in Threads: q # t => at'[q] = at[q]
            BY <2>2, <1>a, Goes DEF EngineReady, LoadFails, ConfigureFails
        <3>2. UNCHANGED <<queued, gen, thinking, answer, thinkers, board, turn, pos, news, fired>>
            BY <2>2 DEF EngineReady, LoadFails, ConfigureFails, gameVars
        <3>3. status = "init"
            BY <1>d, <3>1 DEF LoadsOnce, Busy
        <3>4. status' = "ready" => at["game"] # "queue"
            BY <2>2, ThreadNames DEF NoneQueueing, LoadFails, ConfigureFails
        <3> QED
            BY <1>c, <3>1, <3>2, <3>3, <3>4, AnswerStays DEF Claiming, AppSeat, QueueFits
    <2>3. CASE FirstReady(t)
        <3>1. /\ at[t] = "first"
              /\ UNCHANGED <<gen, thinking, answer, thinkers, board, turn, pos, news, status>>
            BY <2>3 DEF FirstReady, gameVars
        <3>2. /\ at'[t] \in {"serve", "claim"} /\ \A q \in Threads: q # t => at'[q] = at[q]
              /\ queued' \in {0, queued}
              /\ at'[t] = "claim" => turn = "engine" /\ queued' = 0
            BY <2>3, <1>a, Goes DEF FirstReady
        <3>3. Generations' /\ WorkFits'
            BY <1>c, <3>1, <3>2 DEF Generations, WorkFits, AtWork, Unsettled
        <3>4. ClaimsFit' /\ QueueFits'
            BY <1>c, <3>1, <3>2 DEF ClaimsFit, QueueFits, Claiming
        <3>5. AnswerFits'
            BY <1>c, <3>1, <3>2 DEF AnswerFits, AppSeat, Unsettled
        <3> QED
            BY <3>3, <3>4, <3>5 DEF AnswerInv
    <2>4. CASE ServeQueued(t)
        <3>1. /\ at[t] = "serve" /\ queued' = 0 /\ board' = [board EXCEPT ![t] = queued]
              /\ UNCHANGED <<gen, thinking, answer, thinkers, turn, pos, news, status, fired>>
            BY <2>4 DEF ServeQueued, gameVars
        <3>2. /\ at'[t] \in {"idle", "claim"} /\ \A q \in Threads: q # t => at'[q] = at[q]
              /\ at'[t] = "claim" <=> queued # 0
            BY <2>4, <1>a, Goes DEF ServeQueued
        <3>3. board'[t] = queued /\ \A q \in Threads: q # t => board'[q] = board[q]
            BY <3>1, <1>a
        <3>4. Generations' /\ WorkFits'
            BY <1>c, <3>1, <3>2 DEF Generations, WorkFits, AtWork, Unsettled
        <3>5. ClaimsFit' /\ QueueFits'
            BY <1>c, <3>1, <3>2, <3>3 DEF ClaimsFit, QueueFits, Claiming
        <3>6. AnswerFits'
            BY <1>c, <3>1, <3>2 DEF AnswerFits, AppSeat, Unsettled
        <3> QED
            BY <3>4, <3>5, <3>6 DEF AnswerInv
    <2> QED
        BY <1>5, <2>1, <2>2, <2>3, <2>4 DEF LoaderStep
<1>6. ASSUME NEW p \in Threads, Ask(p) \/ Offer(p) PROVE AnswerInv'
    <2>1. /\ at[p] \in {"ask", "offer"} /\ p \in {"game", "link"}
          /\ at[p] = "ask" => p = "game"
          /\ UNCHANGED <<gen, thinking, answer, thinkers, board, turn, pos, news, fired>>
        BY <1>6, <1>d DEF Ask, Offer, gameVars, StepsApart, Threads
    <2>2. \A q \in Threads: at[q] \notin {"release", "stop"}
        BY <1>6 DEF Ask, Offer, Apart
    <2>3. CASE turn = "engine" /\ queued' = 0 /\ Go(p, "claim") /\ UNCHANGED status
        <3>1. at'[p] = "claim" /\ \A q \in Threads: q # p => at'[q] = at[q]
            BY <2>3, <1>a, Goes
        <3>2. Generations' /\ WorkFits'
            BY <1>c, <2>1, <3>1 DEF Generations, WorkFits, AtWork, Unsettled
        <3>3. ClaimsFit' /\ QueueFits'
            BY <1>c, <2>1, <2>3, <3>1 DEF ClaimsFit, QueueFits, Claiming
        <3>4. AnswerFits'
            BY <1>c, <2>1, <2>3, <3>1 DEF AnswerFits, AppSeat, Unsettled
        <3> QED
            BY <3>2, <3>3, <3>4 DEF AnswerInv
    <2>4. CASE /\ turn = "engine" /\ status = "init" /\ p = "game" /\ Go(p, "queue")
               /\ UNCHANGED <<queued, status>>
        <3>1. at'[p] = "queue" /\ \A q \in Threads: q # p => at'[q] = at[q]
            BY <2>4, <1>a, Goes
        <3>2. Generations' /\ WorkFits'
            BY <1>c, <2>1, <3>1, <2>4 DEF Generations, WorkFits, AtWork, Unsettled
        <3>3. ClaimsFit' /\ QueueFits'
            BY <1>c, <2>1, <2>4, <3>1 DEF ClaimsFit, QueueFits, Claiming
        <3>4. AnswerFits'
            BY <1>c, <2>1, <2>4, <3>1 DEF AnswerFits, AppSeat, Unsettled
        <3> QED
            BY <3>2, <3>3, <3>4 DEF AnswerInv
    <2>5. CASE /\ turn = "engine" /\ status = "error" /\ p = "game" /\ seated
               /\ queued' = pos /\ Start(p, "idle")
        <3>1. PICK t \in Loaders:
                /\ at[t] = "idle" /\ at'[t] = "load" /\ at'[p] = "idle" /\ status' = "init"
                /\ \A q \in Threads: q # p /\ q # t => at'[q] = at[q]
            BY <2>5, <1>a, Starts
        <3>2. answer = 0 /\ ~thinking /\ \A q \in Threads: ~Claiming(q)
            BY <1>c, <1>d, <2>5 DEF AnswerFits, StatusFits
        <3>3. Generations' /\ WorkFits'
            BY <1>c, <2>1, <2>5, <3>1 DEF Generations, WorkFits, AtWork, Unsettled
        <3>4. \A q \in Threads: ~Claiming(q)'
            BY <3>1, <3>2 DEF Claiming
        <3>5. ClaimsFit'
            BY <1>c, <2>1, <3>1, <3>2, <3>4 DEF ClaimsFit
        <3>6. QueueFits'
            BY <2>1, <2>5, <3>1, <3>2 DEF QueueFits
        <3>7. AnswerFits'
            BY <1>d, <2>1, <2>2, <2>5, <3>1, <3>2 DEF AnswerFits, AppSeat, AppAlone
        <3> QED
            BY <3>3, <3>5, <3>6, <3>7 DEF AnswerInv
    <2>6. CASE Go(p, "idle") /\ UNCHANGED status /\ queued' \in {0, queued}
        <3>1. at'[p] = "idle" /\ \A q \in Threads: q # p => at'[q] = at[q]
            BY <2>6, <1>a, Goes
        <3>2. Generations' /\ WorkFits'
            BY <1>c, <2>1, <3>1 DEF Generations, WorkFits, AtWork, Unsettled
        <3>3. ClaimsFit' /\ QueueFits'
            BY <1>c, <2>1, <2>6, <3>1 DEF ClaimsFit, QueueFits, Claiming
        <3>4. AnswerFits'
            BY <1>c, <2>1, <2>6, <3>1 DEF AnswerFits, AppSeat, Unsettled
        <3> QED
            BY <3>2, <3>3, <3>4 DEF AnswerInv
    <2>7. CASE Ask(p)
        <3>1. at[p] = "ask"
            BY <2>7 DEF Ask
        <3> QED
            BY <2>7, <2>1, <3>1, <2>3, <2>4, <2>5, <2>6 DEF Ask, Recover
    <2>8. CASE Offer(p)
        BY <2>8, <2>3, <2>6 DEF Offer
    <2> QED
        BY <1>6, <2>7, <2>8
<1>7. ASSUME NEW p \in Threads, Queue(p) PROVE AnswerInv'
    <2>1. /\ at[p] = "queue" /\ queued' = pos
          /\ UNCHANGED <<gen, thinking, answer, thinkers, board, turn, pos, news, fired, status>>
          /\ at'[p] = "idle" /\ \A q \in Threads: q # p => at'[q] = at[q]
        BY <1>7, <1>a, Goes DEF Queue, gameVars
    <2>2. p = "game"
        BY <2>1, <1>d DEF StepsApart, Threads
    <2>3. /\ status \in {"init", "error"} /\ turn = "engine" /\ answer = 0 /\ ~thinking
          /\ \A q \in Threads: ~Claiming(q)
        BY <1>c, <1>d, <2>1, <2>2 DEF QueueFits, AnswerFits, StatusFits
    <2>4. Generations' /\ WorkFits'
        BY <1>c, <2>1, <2>2, <2>3 DEF Generations, WorkFits, AtWork, Unsettled
    <2>5. ClaimsFit' /\ QueueFits'
        BY <1>c, <2>1, <2>2, <2>3 DEF ClaimsFit, QueueFits, Claiming
    <2>6. AnswerFits'
        BY <1>d, <2>1, <2>2, <2>3 DEF AnswerFits, AppSeat, AppAlone
    <2> QED
        BY <2>4, <2>5, <2>6 DEF AnswerInv
<1>8. ASSUME NEW p \in Threads, Claim(p) PROVE AnswerInv'
    <2>1. /\ at[p] = "claim"
          /\ UNCHANGED <<queued, answer, turn, pos, news, fired, status>>
        BY <1>8 DEF Claim, gameVars
    <2>2. /\ status \in {"ready", "thinking"} /\ queued = 0
        BY <1>c, <1>d, <2>1 DEF Claiming, StatusFits, ClaimsFit
    <2>3. ~AppSeat
        BY <1>d, <2>1 DEF AppSeat, AppAlone, Threads
    <2>4. CASE ~thinking /\ answer = 0 /\ seat # NoThread
        <3> DEFINE r == [gen |-> gen + 1, pos |-> 0, engine |-> Engine, step |-> "claimed",
                         by |-> p]
        <3>1. /\ thinkers' = thinkers \union {r} /\ gen' = gen + 1 /\ thinking' = TRUE
              /\ at'[p] = "claimed" /\ \A q \in Threads: q # p => at'[q] = at[q]
              /\ board' = board
            BY <1>8, <2>4, <1>a, Goes DEF Claim
        <3>2. r.gen = gen' /\ r.step = "claimed"
            BY <3>1
        <3>3. \A th \in thinkers: th.gen <= gen' /\ th.gen # gen'
            <4>1. \A a, b \in Nat: a <= b => a <= b + 1 /\ a # b + 1
                OBVIOUS
            <4>2. \A th \in thinkers: th.gen \in Nat /\ th.gen <= gen
                BY <1>b, <1>c, ComputedFields DEF Generations
            <4> QED
                BY <1>b, <3>1, <4>1, <4>2, Zenon
        <3>4. gen' \in Nat
            BY <1>b, <3>1
        <3> HIDE DEF r
        <3>5. Generations'
            BY <1>c, <2>1, <2>4, <3>1, <3>2, <3>3, <3>4 DEF Generations, AtWork
        <3>6. WorkFits'
            BY <3>1, <3>2, <3>3 DEF WorkFits, AtWork
        <3>7. ClaimsFit' /\ QueueFits'
            BY <1>c, <2>1, <2>2, <3>1 DEF ClaimsFit, QueueFits, Claiming
        <3>8. AnswerFits'
            BY <2>1, <2>2, <2>3, <2>4, <3>1 DEF AnswerFits, AppSeat
        <3> QED
            BY <3>5, <3>6, <3>7, <3>8 DEF AnswerInv
    <2>5. CASE ~(~thinking /\ answer = 0 /\ seat # NoThread)
        <3>1. /\ UNCHANGED <<gen, thinking, thinkers>> /\ Go(p, After(p))
              /\ board'[p] = 0 /\ \A q \in Threads: q # p => board'[q] = board[q]
            BY <1>a, <1>8, <2>5 DEF Claim
        <3>2. /\ at'[p] \in {"idle", "serve"} /\ \A q \in Threads: q # p => at'[q] = at[q]
              /\ at'[p] = "serve" => p \in Loaders
            BY <3>1, <1>a, Goes DEF After
        <3>3. Generations' /\ WorkFits'
            BY <1>c, <2>1, <3>1, <3>2 DEF Generations, WorkFits, AtWork, Unsettled
        <3>4. ClaimsFit' /\ QueueFits'
            BY <1>c, <2>1, <3>1, <3>2 DEF ClaimsFit, QueueFits, Claiming
        <3>5. AnswerFits'
            BY <1>c, <2>1, <3>1, <3>2 DEF AnswerFits, AppSeat, Unsettled
        <3> QED
            BY <3>3, <3>4, <3>5 DEF AnswerInv
    <2> QED
        BY <2>4, <2>5
<1>9. ASSUME NEW p \in Threads, Spawn(p) PROVE AnswerInv'
    <2> DEFINE n == IF board[p] = 0 THEN pos ELSE board[p]
    <2>1. PICK th \in thinkers:
            /\ th.by = p /\ th.step = "claimed"
            /\ thinkers' = (thinkers \ {th}) \union
                   {[gen |-> th.gen, pos |-> n, engine |-> th.engine, step |-> "compute",
                     by |-> NoThread]}
        BY <1>9 DEF Spawn
    <2>2. /\ at[p] = "claimed" /\ status' = "thinking" /\ Go(p, After(p))
          /\ board' = [board EXCEPT ![p] = 0]
          /\ UNCHANGED <<queued, gen, thinking, answer, turn, pos, news, fired>>
        BY <1>9 DEF Spawn, gameVars
    <2>3. /\ turn = "engine" /\ n = pos /\ status \in {"ready", "thinking"}
        BY <1>c, <1>d, <2>2 DEF Claiming, StatusFits, ClaimsFit
    <2>4. /\ at'[p] \in {"idle", "serve"} /\ \A q \in Threads: q # p => at'[q] = at[q]
          /\ at'[p] = "serve" => p \in Loaders
        BY <2>2, <1>a, Goes DEF After
    <2>5. board'[p] = 0 /\ \A q \in Threads: q # p => board'[q] = board[q]
        BY <2>2, <1>a
    <2> DEFINE r == [gen |-> th.gen, pos |-> n, engine |-> th.engine, step |-> "compute",
                     by |-> NoThread]
    <2>6. /\ r.gen = th.gen /\ r.step = "compute" /\ r.pos = pos
          /\ thinkers' = (thinkers \ {th}) \union {r}
        BY <2>1, <2>3
    <2> HIDE DEF r, n
    <2>7. Generations'
        BY <1>c, <2>1, <2>2, <2>6 DEF Generations, AtWork
    <2>8. WorkFits'
        BY <1>c, <2>2, <2>3, <2>4, <2>6 DEF WorkFits, AtWork, Unsettled
    <2>9. ClaimsFit'
        BY <1>c, <2>2, <2>4, <2>5 DEF ClaimsFit, Claiming
    <2>10. QueueFits' /\ AnswerFits'
        BY <1>c, <2>2, <2>3, <2>4 DEF QueueFits, AnswerFits, AppSeat, Unsettled
    <2> QED
        BY <2>7, <2>8, <2>9, <2>10 DEF AnswerInv
<1>10. ASSUME NEW th \in thinkers, Commit(th) PROVE AnswerInv'
    <2>1. /\ UNCHANGED <<queued, gen, at, board, turn, pos, news, fired, status>>
          /\ th.step = "compute"
        BY <1>10 DEF Commit, gameVars
    <2>2. ClaimsFit'
        BY <1>c, <2>1 DEF ClaimsFit, Claiming
    <2>3. CASE th.gen = gen
        <3>1. /\ thinking' = FALSE /\ answer' \in {answer, th.pos}
              /\ thinkers' = (thinkers \ {th}) \union {Ended(th)}
            BY <1>10, <2>3 DEF Commit
        <3>2. Ended(th).gen = th.gen /\ Ended(th).step = "done"
            BY DEF Ended
        <3>3. AtWork(th) /\ thinking /\ answer = 0
            BY <1>c, <2>1, <2>3 DEF AtWork, Generations
        <3>4. Unsettled \/ (th.pos = pos /\ turn = "engine")
            BY <1>c, <2>1, <3>3 DEF WorkFits
        <3>5. \A u \in thinkers: u # th => ~AtWork(u)
            BY <1>c, <2>3 DEF Generations, AtWork
        <3>6. \A u \in thinkers': ~AtWork(u)'
            BY <2>1, <3>1, <3>2, <3>5 DEF AtWork
        <3>7. Generations' /\ WorkFits'
            BY <1>c, <2>1, <3>1, <3>2, <3>6 DEF Generations, WorkFits
        <3>8. QueueFits'
            BY <1>c, <2>1, <3>1, <3>3 DEF QueueFits
        <3>9. AnswerFits'
            BY <1>c, <2>1, <3>1, <3>3, <3>4 DEF AnswerFits, AppSeat, Unsettled
        <3> QED
            BY <2>2, <3>7, <3>8, <3>9 DEF AnswerInv
    <2>4. CASE th.gen # gen
        <3>1. thinkers' = thinkers \ {th} /\ UNCHANGED <<thinking, answer>>
            BY <1>10, <2>4 DEF Commit
        <3>2. Generations' /\ WorkFits'
            BY <1>c, <2>1, <3>1 DEF Generations, WorkFits, AtWork, Unsettled
        <3>3. QueueFits' /\ AnswerFits'
            BY <1>c, <2>1, <3>1 DEF QueueFits, AnswerFits, AppSeat, Unsettled
        <3> QED
            BY <2>2, <3>2, <3>3 DEF AnswerInv
    <2> QED
        BY <2>3, <2>4
<1>11. ASSUME NEW th \in thinkers, AfterCommit(th) PROVE AnswerInv'
    <2>1. /\ UNCHANGED <<queued, gen, thinking, answer, at, board, turn, pos, news, fired>>
          /\ thinkers' = thinkers \ {th}
          /\ status' = status \/ (status = "thinking" /\ status' = "ready")
        BY <1>11 DEF AfterCommit, gameVars
    <2>2. Generations' /\ WorkFits'
        BY <1>c, <2>1 DEF Generations, WorkFits, AtWork, Unsettled
    <2>3. ClaimsFit' /\ QueueFits' /\ AnswerFits'
        BY <1>c, <2>1 DEF ClaimsFit, QueueFits, AnswerFits, AppSeat, Unsettled, Claiming
    <2> QED
        BY <2>2, <2>3 DEF AnswerInv
<1>12. CASE Move
    <2>1. /\ at["game"] = "idle" /\ pos' = pos + 1
          /\ \A q \in Threads: at[q] \notin {"claim", "claimed"}
          /\ ~news /\ news' = TRUE /\ (turn = "engine" => answer = pos)
          /\ UNCHANGED <<status, queued, gen, thinking, answer, thinkers, board, fired>>
        BY <1>12 DEF Move, NextPosition, Apart, Idle
    <2>2. at'["game"] = "ask" /\ \A q \in Threads: q # "game" => at'[q] = at[q]
        BY <1>12, <1>a, Goes DEF Move
    <2>3. pos # 0
        BY <1>b
    <2>4. \A th \in thinkers: AtWork(th) => th.step = "claimed"
        BY <1>c, <2>1, <2>3 DEF Generations, WorkFits, AtWork, Unsettled
    <2>5. queued = 0
        BY <1>c, <2>1, <2>3 DEF QueueFits
    <2>6. Generations' /\ WorkFits'
        BY <1>c, <2>1, <2>4 DEF Generations, WorkFits, AtWork
    <2>7. ClaimsFit' /\ QueueFits' /\ AnswerFits'
        BY <1>c, <2>1, <2>2, <2>5 DEF ClaimsFit, QueueFits, AnswerFits, Claiming, AppSeat
    <2> QED
        BY <2>6, <2>7 DEF AnswerInv
<1>13. CASE AnnounceMove
    <2>1. /\ news' = FALSE /\ answer' = IF thinking THEN answer ELSE 0
          /\ UNCHANGED <<status, queued, gen, thinking, thinkers, at, board, fired, pos, turn>>
        BY <1>13 DEF AnnounceMove
    <2>2. answer' = 0
        BY <1>c, <2>1 DEF Generations
    <2>3. Generations' /\ WorkFits'
        BY <1>c, <2>1, <2>2 DEF Generations, WorkFits, AtWork, Unsettled
    <2>4. ClaimsFit' /\ QueueFits' /\ AnswerFits'
        BY <1>c, <2>1, <2>2 DEF ClaimsFit, QueueFits, AnswerFits, AppSeat, Claiming
    <2> QED
        BY <2>3, <2>4 DEF AnswerInv
<1>14. CASE Takeback \/ NewGame
    <2>1. /\ at["game"] = "idle" /\ pos' = pos + 1 /\ queued = 0
          /\ \A q \in Threads: at[q] \notin {"claim", "claimed"}
          /\ UNCHANGED <<status, queued, gen, thinking, answer, thinkers, board, fired, news>>
        BY <1>14 DEF Takeback, NewGame, NextPosition, Apart, Idle
    <2>2. at'["game"] \in {"undo", "reset"} /\ \A q \in Threads: q # "game" => at'[q] = at[q]
        BY <1>14, <1>a, Goes DEF Takeback, NewGame
    <2>3. Generations' /\ WorkFits'
        BY <1>c, <2>1, <2>2 DEF Generations, WorkFits, AtWork, Unsettled
    <2>4. ClaimsFit' /\ QueueFits' /\ AnswerFits'
        BY <1>c, <2>1, <2>2 DEF ClaimsFit, QueueFits, AnswerFits, Claiming, AppSeat, Unsettled
    <2> QED
        BY <2>3, <2>4 DEF AnswerInv
<1>15. CASE OnTakeback \/ OnNewGame
    <2>1. /\ Invalidate /\ UNCHANGED <<queued, thinkers, board, turn, pos, news, fired>>
          /\ \A q \in Threads: at[q] \notin {"claim", "claimed"}
        BY <1>15 DEF OnTakeback, OnNewGame, Apart, gameVars
    <2>2. Generations' /\ WorkFits' /\ answer' = 0 /\ thinking' = FALSE
        BY <2>1, Invalidates
    <2>3. CASE Go("game", "idle") \/ Go("game", "offer")
        <3>1. at'["game"] \in {"idle", "offer"} /\ \A q \in Threads: q # "game" => at'[q] = at[q]
            BY <2>3, <1>a, Goes
        <3>2. ClaimsFit' /\ QueueFits'
            BY <1>c, <2>1, <2>2, <3>1 DEF ClaimsFit, QueueFits, Claiming
        <3>3. AnswerFits'
            BY <1>c, <2>1, <2>2, <3>1 DEF AnswerFits, AppSeat
        <3> QED
            BY <2>2, <3>2, <3>3 DEF AnswerInv
    <2>4. CASE Start("game", "offer")
        <3>1. PICK t \in Loaders:
                /\ at[t] = "idle" /\ at'[t] = "load" /\ at'["game"] = "offer"
                /\ \A q \in Threads: q # "game" /\ q # t => at'[q] = at[q]
            BY <2>4, <1>a, Starts
        <3>2. ClaimsFit' /\ QueueFits'
            BY <1>c, <2>1, <2>2, <3>1 DEF ClaimsFit, QueueFits, Claiming
        <3>3. AnswerFits'
            BY <1>c, <2>1, <2>2, <3>1 DEF AnswerFits, AppSeat
        <3> QED
            BY <2>2, <3>2, <3>3 DEF AnswerInv
    <2> QED
        BY <1>15, <2>3, <2>4 DEF OnTakeback, OnNewGame
<1>16. CASE Elsewhere \/ UNCHANGED vars
    <2>1. UNCHANGED <<queued, gen, thinking, answer, thinkers, board, turn, pos, news, fired, at,
                      status>>
        BY <1>16 DEF Elsewhere, vars, playerVars, gameVars
    <2> QED
        BY <1>c, <2>1, AnswerStays DEF Claiming, AppSeat, QueueFits
<1> QED
    BY <1>1, <1>2, <1>3, <1>4, <1>5, <1>6, <1>7, <1>8, <1>9, <1>10, <1>11, <1>12, <1>13, <1>14,
       <1>15, <1>16 DEF Next

\* The answer shown answers the position on the board, however computations,
\* takebacks, new games, apps and failed loads interleave and even if an answer
\* overtakes the announcement of the move before it; a queued request must not
\* be overtaken by a takeback (on_takeback, stop, _do_request_move).
THEOREM AnswersAreCurrent ==
    ASSUME "overlap" \notin Conditions, "early" \notin Conditions, "requeue" \notin Conditions,
           "race" \notin Conditions, "raise" \notin Conditions
    PROVE  Spec => []NoStaleAnswer
<1>1. Init => AnswerInv /\ LoadInv /\ TypeOK /\ UseInv /\ RegistryInv
    BY AnswerInit, LoadInit, PlayerInit
<1>2. AnswerInv /\ LoadInv /\ TypeOK /\ UseInv /\ RegistryInv /\ [Next]_vars
          => AnswerInv' /\ LoadInv' /\ TypeOK' /\ UseInv' /\ RegistryInv'
    BY AnswerStep, LoadStep, PlayerStep
<1>3. AnswerInv => NoStaleAnswer
    BY DEF AnswerInv, AnswerFits, NoStaleAnswer, Unsettled, Idle
<1> QED
    BY <1>1, <1>2, <1>3, PTL DEF Spec

----------------------------------------------------------------------------
(* The engine is asked when it is its turn                                 *)

EngineGone == seat # NoThread /\ proc[Engine] # "up"

\* Who is at work is the engine of the seat, and who has claimed has a
\* computation to begin.
WorkIsOwn ==
    /\ \A th \in thinkers: AtWork(th) => seat # NoThread /\ th.engine = Engine
    /\ \A p \in Threads: at[p] = "claimed" =>
           \E th \in thinkers: th.by = p /\ th.step = "claimed" /\ th.gen = gen

\* A move that is still to be announced was not made by the answer shown.
NewsFits ==
    /\ news => answer < pos
    /\ news /\ answer # 0 => turn = "human" \/ Unsettled
    /\ at["game"] \in {"undo", "reset"} => origin \notin {"start", "move"}
    /\ at["game"] # "idle" => status # "new"

\* A player that seems to think and does not has just stopped, with a reason.
ThinkingFits ==
    status = "thinking" /\ ~thinking =>
        /\ \E th \in thinkers: th.step = "done"
        /\ answer = pos \/ turn = "human" \/ EngineGone \/ origin \notin {"start", "move"}

\* The thread that will serve the queue.
QueueIsServed ==
    queued # 0 => status \in {"init", "error"} \/ \E t \in Loaders: at[t] \in {"first", "serve"}

\* What answers the position, or will see to it that the engine is asked.
Sought ==
    \/ answer = pos
    \/ thinking
    \/ queued # 0
    \/ at["game"] \in {"ask", "queue"}
    \/ \E p \in Threads: Claiming(p)
    \/ /\ ~fired /\ first = "engine"
       /\ status \in {"new", "init"} \/ (status = "ready" /\ \E t \in Loaders: at[t] = "first")
    \/ status = "error"
    \/ EngineGone
    \/ at["link"] \in {"release", "stop"}

TurnIsSought == turn = "engine" /\ origin \in {"start", "move"} /\ seated => Sought

AskInv == WorkIsOwn /\ NewsFits /\ ThinkingFits /\ QueueIsServed /\ TurnIsSought

LEMMA AskInit == Init => AskInv
<1> SUFFICES ASSUME Init PROVE AskInv
    OBVIOUS
<1>1. /\ thinkers = {} /\ news = FALSE /\ status = "new" /\ queued = 0
      /\ \A p \in Threads: at[p] = "idle"
      /\ fired = FALSE /\ turn = first
    BY DEF Init
<1> QED
    BY <1>1, ThreadNames DEF AskInv, WorkIsOwn, NewsFits, ThinkingFits, QueueIsServed, TurnIsSought,
                             Sought

\* What a user of the registry holds stays its own, and an engine that has
\* ended does not come back.
LEMMA HeldStays ==
    ASSUME RegistryInv, [RegistryNext]_registryVars, NEW s \in Users, pc[s] = "held",
           pc'[s] = "held"
    PROVE  /\ mine[s] \in Loads /\ mine'[s] = mine[s]
           /\ proc[mine[s]] # "up" => proc'[mine[s]] # "up"
<1>a. /\ pc \in [Users -> Places] /\ mine \in [Users -> Loads \union {None}]
      /\ proc \in [Loads -> Processes] /\ loads \in 0..MaxLoads
      /\ \A u \in Users: pc[u] # "idle" => mine[u] \in 1..loads
    BY DEF RegistryInv, RegistryTypeOK
<1>b. mine[s] \in Loads
    BY <1>a, MaxLoadsAssumption DEF Loads
<1>1. ASSUME NEW x \in Users, Acquire(x) \/ Continue(x) \/ Release(x)
      PROVE  /\ mine'[s] = mine[s]
             /\ proc[mine[s]] # "up" => proc'[mine[s]] # "up"
    <2>1. CASE Acquire(x)
        BY <1>a, <2>1 DEF Acquire, Reuse, AwaitOther, Register, TakeReference
    <2>2. CASE LaunchDone(x)
        <3>1. mine[x] # mine[s]
            BY <2>2 DEF LaunchDone, RegistryInv, OneLoad, NotYetHeld, Unpublished
        <3> QED
            BY <1>a, <1>b, <2>2, <3>1 DEF LaunchDone
    <2>3. CASE Publish(x) \/ FinishLoad(x)
        BY <1>a, <2>3 DEF Publish, FinishLoad
    <2>4. CASE Woken(x) \/ WaitTimeout(x)
        BY <1>a, <2>4 DEF Woken, WaitTimeout, LookAgain, TakeReference
    <2>5. CASE Release(x)
        BY <1>a, <2>5 DEF Release
    <2> QED
        BY <1>1, <2>1, <2>2, <2>3, <2>4, <2>5 DEF Continue
<1>2. CASE EngineStep
    <2>1. CASE EvictUnused
        BY <1>b, <2>1 DEF EvictUnused
    <2>2. ASSUME NEW n \in Loads, QuitEngine(n) \/ EngineDies(n)
          PROVE  /\ mine'[s] = mine[s]
                 /\ proc[mine[s]] # "up" => proc'[mine[s]] # "up"
        BY <1>a, <1>b, <2>2 DEF QuitEngine, EngineDies
    <2> QED
        BY <1>b, <1>2, <2>1, <2>2 DEF EngineStep
<1>3. CASE UNCHANGED registryVars
    BY <1>b, <1>3 DEF registryVars
<1> QED
    BY <1>b, <1>1, <1>2, <1>3 DEF RegistryNext

LEMMA SeatStays ==
    ASSUME UseInv, RegistryInv, [Next]_vars, seat' = seat, "raise" \notin Conditions
    PROVE  /\ seat # NoThread => Engine' = Engine
           /\ EngineGone => EngineGone'
<1> SUFFICES ASSUME seat # NoThread
             PROVE  Engine' = Engine /\ (EngineGone => EngineGone')
    BY DEF EngineGone
<1>1. UseInv' /\ [RegistryNext]_registryVars
    BY StepUses
<1>2. seat \in Users /\ pc[seat] = "held" /\ pc'[seat] = "held"
    BY <1>1, LoadersAssumption DEF UseInv, PlaceInv, SeatInv
<1>3. mine'[seat] = mine[seat] /\ (proc[mine[seat]] # "up" => proc'[mine[seat]] # "up")
    BY <1>1, <1>2, HeldStays
<1> QED
    BY <1>3 DEF Engine, EngineGone

LEMMA AskStep ==
    ASSUME TypeOK, UseInv, RegistryInv, LoadInv, AnswerInv, AskInv, [Next]_vars,
           Conditions = {}
    PROVE  AskInv'
<1> USE ThreadNames
<1>a. at \in [Threads -> Steps] /\ board \in [Threads -> 0..MaxPos]
    BY DEF TypeOK
<1>b. /\ gen \in Nat /\ pos \in 1..MaxPos /\ queued \in 0..MaxPos /\ answer \in 0..MaxPos
      /\ thinking \in BOOLEAN /\ news \in BOOLEAN /\ fired \in BOOLEAN
      /\ seated \in BOOLEAN /\ turn \in {"human", "engine"} /\ thinkers \subseteq Computations
    BY TypesAre DEF StateTypes, GameTypes
<1>c. WorkIsOwn /\ NewsFits /\ ThinkingFits /\ QueueIsServed /\ TurnIsSought
    BY DEF AskInv
<1>d. StepsApart /\ LoadsEnd /\ LoadsOnce /\ StatusFits /\ AppAlone
    BY DEF LoadInv
<1>e. Generations /\ WorkFits /\ ClaimsFit /\ QueueFits /\ AnswerFits
    BY DEF AnswerInv
<1>s. seat' = seat => (seat # NoThread => Engine' = Engine) /\ (EngineGone => EngineGone')
    BY SeatStays
<1>1. CASE FirstStart
    <2>1. PICK t \in Loaders:
            /\ at[t] = "idle" /\ at'[t] = "load" /\ at'["game"] = "idle" /\ status' = "init"
            /\ \A q \in Threads: q # "game" /\ q # t => at'[q] = at[q]
        BY <1>1, <1>a, Starts DEF FirstStart
    <2>2. /\ UNCHANGED <<seat, queued, gen, thinking, answer, thinkers, fired>>
          /\ UNCHANGED <<turn, pos, news, origin, first, seated>>
          /\ at["game"] = "idle" /\ status = "new"
        BY <1>1 DEF FirstStart, gameVars, Idle
    <2>3. WorkIsOwn'
        BY <1>c, <1>s, <2>1, <2>2 DEF WorkIsOwn, AtWork
    <2>4. NewsFits' /\ ThinkingFits' /\ QueueIsServed'
        BY <1>c, <2>1, <2>2 DEF NewsFits, ThinkingFits, QueueIsServed, Unsettled
    <2>5. TurnIsSought'
        BY <1>c, <1>s, <2>1, <2>2 DEF TurnIsSought, Sought, Claiming
    <2> QED
        BY <2>3, <2>4, <2>5 DEF AskInv
<1>2. CASE Connect
    <2>1. /\ at'["link"] = "release" /\ \A q \in Threads: q # "link" => at'[q] = at[q]
        BY <1>2, <1>a, Goes DEF Connect
    <2>2. /\ Invalidate /\ queued = 0
          /\ UNCHANGED <<seat, queued, thinkers, fired, turn, pos, news, origin, first, seated>>
          /\ \A p \in Threads: at[p] \notin {"ask", "offer", "queue", "claim", "claimed", "reset"}
          /\ \A t \in Loaders: at[t] = "idle"
          /\ status' = IF status = "thinking" THEN "ready" ELSE status
        BY <1>2 DEF Connect, gameVars, Apart, Idle, AfterInvalidate
    <2>3. answer' = 0 /\ \A th \in thinkers: ~AtWork(th)'
        BY <2>2, <1>e, Invalidates DEF AnswerInv, Generations
    <2>4. WorkIsOwn'
        BY <2>1, <2>2, <2>3 DEF WorkIsOwn
    <2>5. NewsFits' /\ ThinkingFits' /\ QueueIsServed'
        BY <1>b, <1>c, <2>1, <2>2, <2>3 DEF NewsFits, ThinkingFits, QueueIsServed
    <2>6. TurnIsSought'
        BY <2>1 DEF TurnIsSought, Sought
    <2> QED
        BY <2>4, <2>5, <2>6 DEF AskInv
<1>3. CASE DetachAndRelease
    <2>1. /\ at["link"] = "release" /\ at'["link"] = "stop"
          /\ \A q \in Threads: q # "link" => at'[q] = at[q]
          /\ UNCHANGED <<queued, gen, thinking, answer, thinkers, fired, status>>
          /\ UNCHANGED <<turn, pos, news, origin, first, seated>>
        BY <1>3, <1>a, Goes DEF DetachAndRelease, gameVars
    <2>2. ~thinking /\ status # "thinking" /\ \A q \in Threads: ~Claiming(q)
        BY <1>d, <1>e, <2>1 DEF AppSeat, AppAlone, AnswerFits, Claiming, Threads
    <2>3. WorkIsOwn'
        BY <1>c, <1>e, <2>1, <2>2 DEF WorkIsOwn, AtWork, Generations, Claiming
    <2>4. NewsFits' /\ ThinkingFits' /\ QueueIsServed'
        BY <1>c, <2>1, <2>2 DEF NewsFits, ThinkingFits, QueueIsServed, Unsettled
    <2>5. TurnIsSought'
        BY <2>1 DEF TurnIsSought, Sought
    <2> QED
        BY <2>3, <2>4, <2>5 DEF AskInv
<1>4. CASE Stopped
    <2>1. /\ at["link"] = "stop" /\ at'["link"] = "leave" /\ status' = "stopped" /\ seated' = FALSE
          /\ \A q \in Threads: q # "link" => at'[q] = at[q]
          /\ UNCHANGED <<seat, queued, gen, thinking, answer, thinkers, fired>>
          /\ UNCHANGED <<turn, pos, news, origin, first>>
        BY <1>4, <1>a, Goes DEF Stopped
    <2>2. ~thinking /\ queued = 0 /\ \A q \in Threads: ~Claiming(q)
        BY <1>d, <1>e, <2>1 DEF AppSeat, AppAlone, AnswerFits, Claiming, Threads
    <2>3. WorkIsOwn'
        BY <1>e, <2>1, <2>2 DEF WorkIsOwn, AtWork, Generations, Claiming
    <2>4. NewsFits' /\ ThinkingFits' /\ QueueIsServed'
        BY <1>c, <2>1, <2>2 DEF NewsFits, ThinkingFits, QueueIsServed, Unsettled
    <2>5. TurnIsSought'
        BY <2>1 DEF TurnIsSought
    <2> QED
        BY <2>3, <2>4, <2>5 DEF AskInv
<1>5. CASE Disconnect
    <2>1. PICK t \in Loaders:
            /\ at[t] = "idle" /\ at'[t] = "load" /\ at'["link"] = "offer" /\ status' = "init"
            /\ \A q \in Threads: q # "link" /\ q # t => at'[q] = at[q]
        BY <1>5, <1>a, Starts DEF Disconnect
    <2>2. /\ UNCHANGED <<seat, queued, gen, thinking, answer, thinkers, news, fired, first>>
          /\ at["game"] = "idle" /\ at["link"] = "leave" /\ ~news /\ origin' = "app"
        BY <1>5 DEF Disconnect, Idle
    <2>3. queued = 0 /\ ~thinking /\ \A q \in Threads: ~Claiming(q)
        BY <1>d, <1>e, <2>2 DEF AnswerFits, AppAlone, AppSeat, Claiming, Threads
    <2>4. WorkIsOwn'
        BY <1>e, <2>1, <2>2, <2>3 DEF WorkIsOwn, AtWork, Generations, Claiming
    <2>5. NewsFits' /\ ThinkingFits' /\ QueueIsServed' /\ TurnIsSought'
        BY <2>1, <2>2, <2>3 DEF NewsFits, ThinkingFits, QueueIsServed, TurnIsSought
    <2> QED
        BY <2>4, <2>5 DEF AskInv
<1>6. ASSUME NEW t \in Loaders, LoaderStep(t) \/ ConfigureFails(t)
      PROVE  AskInv'
    <2>1. CASE BeginLoad(t) \/ LoadGoesOn(t)
        <3>1. /\ at' = at \/ (at[t] = "load" /\ Go(t, "loading"))
              /\ UNCHANGED <<seat, queued, gen, thinking, answer, thinkers, fired, status>>
              /\ UNCHANGED <<turn, pos, news, origin, first, seated>>
            BY <2>1 DEF BeginLoad, LoadGoesOn, playerVars, gameVars
        <3>2. /\ at'[t] = at[t] \/ (at[t] = "load" /\ at'[t] = "loading")
              /\ \A q \in Threads: q # t => at'[q] = at[q]
            BY <3>1, <1>a, Goes
        <3>3. WorkIsOwn'
            BY <1>c, <1>s, <3>1, <3>2 DEF WorkIsOwn, AtWork
        <3>4. NewsFits' /\ ThinkingFits' /\ QueueIsServed'
            BY <1>c, <1>s, <3>1, <3>2 DEF NewsFits, ThinkingFits, QueueIsServed, Unsettled
        <3>5. TurnIsSought'
            BY <1>c, <1>s, <3>1, <3>2 DEF TurnIsSought, Sought, Claiming
        <3> QED
            BY <3>3, <3>4, <3>5 DEF AskInv
    <2>2. CASE (EngineReady(t) /\ NoneQueueing) \/ LoadFails(t) \/ ConfigureFails(t)
        <3>1. /\ at[t] = "loading"
              /\ at'[t] \in {"first", "idle"} /\ \A q \in Threads: q # t => at'[q] = at[q]
            BY <2>2, <1>a, Goes DEF EngineReady, LoadFails, ConfigureFails
        <3>2. /\ UNCHANGED <<queued, gen, thinking, answer, thinkers, fired>>
              /\ UNCHANGED <<turn, pos, news, origin, first, seated>>
            BY <2>2 DEF EngineReady, LoadFails, ConfigureFails, gameVars
        <3>3. status = "init" /\ seat = NoThread /\ ~thinking
            BY <1>d, <1>e, <3>1 DEF LoadsOnce, Busy, AnswerFits
        <3>4. /\ status' = "error" \/ (status' = "ready" /\ at'[t] = "first")
            BY <2>2, <3>3, <1>a, Goes DEF EngineReady, LoadFails, ConfigureFails
        <3>5. WorkIsOwn'
            <4>1. \A q \in Threads: at'[q] # "claimed"
                BY <1>d, <3>1, <3>3 DEF StatusFits, Claiming
            <4> QED
                BY <1>e, <3>2, <3>3, <4>1 DEF WorkIsOwn, AtWork, Generations
        <3>6. NewsFits' /\ ThinkingFits' /\ QueueIsServed'
            BY <1>c, <3>1, <3>2, <3>3, <3>4 DEF NewsFits, ThinkingFits, QueueIsServed, Unsettled
        <3>7. TurnIsSought'
            BY <1>c, <3>1, <3>2, <3>3, <3>4 DEF TurnIsSought, Sought, Claiming, EngineGone
        <3> QED
            BY <3>5, <3>6, <3>7 DEF AskInv
    <2>3. CASE FirstReady(t)
        <3>1. /\ at[t] = "first"
              /\ UNCHANGED <<seat, gen, thinking, answer, thinkers, status>>
              /\ UNCHANGED <<turn, pos, news, origin, first, seated>>
            BY <2>3 DEF FirstReady, gameVars
        <3>2. /\ at'[t] \in {"serve", "claim"} /\ \A q \in Threads: q # t => at'[q] = at[q]
              /\ at'[t] = "claim" => queued' = 0
              /\ at'[t] = "serve" => queued' = queued
              /\ at'[t] = "serve" =>
                     ~(~fired /\ first = "engine" /\ turn = "engine" /\ seated /\ status = "ready")
            BY <2>3, <1>a, Goes DEF FirstReady
        <3>3. status \in {"ready", "thinking"}
            BY <1>d, <3>1 DEF StatusFits
        <3>4. WorkIsOwn'
            BY <1>c, <1>s, <3>1, <3>2 DEF WorkIsOwn, AtWork
        <3>5. NewsFits' /\ ThinkingFits' /\ QueueIsServed'
            BY <1>c, <1>s, <3>1, <3>2 DEF NewsFits, ThinkingFits, QueueIsServed, Unsettled
        <3>6. TurnIsSought'
            <4>1. CASE at'[t] = "claim"
                BY <4>1 DEF TurnIsSought, Sought, Claiming
            <4>2. CASE at'[t] = "serve"
                <5>1. ~(~fired /\ first = "engine" /\ turn = "engine" /\ seated /\ status = "ready")
                    BY <3>2, <4>2
                <5> QED
                    BY <1>c, <1>s, <3>1, <3>2, <3>3, <4>2, <5>1 DEF TurnIsSought, Sought, Claiming
            <4> QED
                BY <3>2, <4>1, <4>2
        <3> QED
            BY <3>4, <3>5, <3>6 DEF AskInv
    <2>4. CASE ServeQueued(t)
        <3>1. /\ at[t] = "serve" /\ queued' = 0
              /\ UNCHANGED <<seat, gen, thinking, answer, thinkers, status, fired>>
              /\ UNCHANGED <<turn, pos, news, origin, first, seated>>
            BY <2>4 DEF ServeQueued, gameVars
        <3>2. /\ at'[t] \in {"idle", "claim"} /\ \A q \in Threads: q # t => at'[q] = at[q]
              /\ queued # 0 => at'[t] = "claim"
            BY <2>4, <1>a, Goes DEF ServeQueued
        <3>3. WorkIsOwn'
            BY <1>c, <1>s, <3>1, <3>2 DEF WorkIsOwn, AtWork
        <3>4. NewsFits' /\ ThinkingFits' /\ QueueIsServed'
            BY <1>c, <1>s, <3>1, <3>2 DEF NewsFits, ThinkingFits, QueueIsServed, Unsettled
        <3>5. TurnIsSought'
            <4>1. CASE queued # 0
                BY <3>2, <4>1 DEF TurnIsSought, Sought, Claiming
            <4>2. CASE queued = 0
                BY <1>c, <1>s, <3>1, <3>2, <4>2 DEF TurnIsSought, Sought, Claiming
            <4> QED
                BY <4>1, <4>2
        <3> QED
            BY <3>3, <3>4, <3>5 DEF AskInv
    <2> QED
        BY <1>6, <2>1, <2>2, <2>3, <2>4 DEF LoaderStep
<1>7. ASSUME NEW p \in Threads, Ask(p) \/ Offer(p) PROVE AskInv'
    <2>1. /\ at[p] \in {"ask", "offer"} /\ p \in {"game", "link"}
          /\ at[p] = "ask" => p = "game"
          /\ UNCHANGED <<seat, gen, thinking, answer, thinkers, fired>>
          /\ UNCHANGED <<turn, pos, news, origin, first, seated>>
        BY <1>7, <1>d DEF Ask, Offer, gameVars, StepsApart, Threads
    <2>2. CASE queued' = 0 /\ Go(p, "claim") /\ UNCHANGED status
        <3>1. at'[p] = "claim" /\ \A q \in Threads: q # p => at'[q] = at[q]
            BY <2>2, <1>a, Goes
        <3>2. WorkIsOwn'
            BY <1>c, <1>s, <2>1, <3>1 DEF WorkIsOwn, AtWork
        <3>3. NewsFits' /\ ThinkingFits' /\ QueueIsServed'
            BY <1>c, <1>s, <2>1, <2>2, <3>1 DEF NewsFits, ThinkingFits, QueueIsServed, Unsettled
        <3>4. TurnIsSought'
            BY <3>1 DEF TurnIsSought, Sought, Claiming
        <3> QED
            BY <3>2, <3>3, <3>4 DEF AskInv
    <2>3. CASE p = "game" /\ Go(p, "queue") /\ UNCHANGED <<queued, status>>
        <3>1. at'[p] = "queue" /\ \A q \in Threads: q # p => at'[q] = at[q]
            BY <2>3, <1>a, Goes
        <3>2. WorkIsOwn'
            BY <1>c, <1>s, <2>1, <3>1 DEF WorkIsOwn, AtWork
        <3>3. NewsFits' /\ ThinkingFits' /\ QueueIsServed'
            BY <1>c, <1>s, <2>1, <2>3, <3>1 DEF NewsFits, ThinkingFits, QueueIsServed, Unsettled
        <3>4. TurnIsSought'
            BY <2>3, <3>1 DEF TurnIsSought, Sought
        <3> QED
            BY <3>2, <3>3, <3>4 DEF AskInv
    <2>4. CASE queued' = pos /\ Start(p, "idle") /\ p = "game"
        <3>1. PICK t \in Loaders:
                /\ at[t] = "idle" /\ at'[t] = "load" /\ at'[p] = "idle" /\ status' = "init"
                /\ \A q \in Threads: q # p /\ q # t => at'[q] = at[q]
            BY <2>4, <1>a, Starts
        <3>2. WorkIsOwn'
            BY <1>c, <1>s, <2>1, <3>1 DEF WorkIsOwn, AtWork
        <3>3. NewsFits' /\ ThinkingFits' /\ QueueIsServed'
            BY <1>c, <2>1, <2>4, <3>1 DEF NewsFits, ThinkingFits, QueueIsServed, Unsettled
        <3>4. TurnIsSought'
            <4>1. queued' # 0
                BY <1>b, <2>4
            <4> QED
                BY <4>1 DEF TurnIsSought, Sought
        <3> QED
            BY <3>2, <3>3, <3>4 DEF AskInv
    <2>5. CASE status = "error" /\ queued' = 0 /\ Go(p, "idle") /\ UNCHANGED status
        <3>1. at'[p] = "idle" /\ \A q \in Threads: q # p => at'[q] = at[q]
            BY <2>5, <1>a, Goes
        <3>2. WorkIsOwn'
            BY <1>c, <1>s, <2>1, <3>1 DEF WorkIsOwn, AtWork
        <3>3. NewsFits' /\ ThinkingFits' /\ QueueIsServed' /\ TurnIsSought'
            BY <1>c, <2>1, <2>5, <3>1
               DEF NewsFits, ThinkingFits, QueueIsServed, TurnIsSought, Sought, Unsettled
        <3> QED
            BY <3>2, <3>3 DEF AskInv
    <2>6. CASE /\ \/ turn = "human" \/ ~seated
                  \/ status \in {"new", "thinking", "stopped"}
                  \/ at[p] = "offer"
               /\ Go(p, "idle") /\ UNCHANGED <<queued, status>>
        <3>1. at'[p] = "idle" /\ \A q \in Threads: q # p => at'[q] = at[q]
            BY <2>6, <1>a, Goes
        <3>2. WorkIsOwn'
            BY <1>c, <1>s, <2>1, <3>1 DEF WorkIsOwn, AtWork
        <3>3. NewsFits' /\ ThinkingFits' /\ QueueIsServed'
            BY <1>c, <1>s, <2>1, <2>6, <3>1 DEF NewsFits, ThinkingFits, QueueIsServed, Unsettled
        <3>4. TurnIsSought'
            <4>1. CASE turn = "human" \/ ~seated
                BY <2>1, <4>1 DEF TurnIsSought
            <4>2. CASE at[p] = "offer"
                BY <1>c, <1>s, <2>1, <2>6, <3>1, <4>2 DEF TurnIsSought, Sought, Claiming
            <4>3. CASE at[p] = "ask" /\ status = "new"
                BY <1>c, <2>1, <4>3 DEF NewsFits
            <4>4. CASE at[p] = "ask" /\ status = "stopped"
                BY <1>d, <2>1, <4>4 DEF AppAlone, TurnIsSought
            <4>5. CASE at[p] = "ask" /\ status = "thinking"
                BY <1>c, <1>s, <2>1, <4>5 DEF TurnIsSought, Sought, ThinkingFits, Unsettled
            <4> QED
                BY <2>1, <2>6, <4>1, <4>2, <4>3, <4>4, <4>5
        <3> QED
            BY <3>2, <3>3, <3>4 DEF AskInv
    <2>7. CASE Ask(p)
        <3>1. at[p] = "ask"
            BY <2>7 DEF Ask
        <3> QED
            BY <2>7, <2>1, <3>1, <2>2, <2>3, <2>4, <2>5, <2>6 DEF Ask, Recover
    <2>8. CASE Offer(p)
        <3>1. at[p] = "offer"
            BY <2>8 DEF Offer
        <3> QED
            BY <2>8, <3>1, <2>2, <2>6 DEF Offer
    <2> QED
        BY <1>7, <2>7, <2>8
<1>8. ASSUME NEW p \in Threads, Queue(p) PROVE AskInv'
    <2>1. /\ at[p] = "queue" /\ queued' = pos
          /\ UNCHANGED <<seat, gen, thinking, answer, thinkers, fired, status>>
          /\ UNCHANGED <<turn, pos, news, origin, first, seated>>
          /\ at'[p] = "idle" /\ \A q \in Threads: q # p => at'[q] = at[q]
        BY <1>8, <1>a, Goes DEF Queue, gameVars
    <2>2. p = "game" /\ status \in {"init", "error"}
        BY <2>1, <1>d, <1>e DEF StepsApart, Threads, QueueFits
    <2>3. WorkIsOwn'
        BY <1>c, <1>s, <2>1 DEF WorkIsOwn, AtWork
    <2>4. NewsFits' /\ ThinkingFits' /\ QueueIsServed'
        BY <1>c, <2>1, <2>2 DEF NewsFits, ThinkingFits, QueueIsServed, Unsettled
    <2>5. TurnIsSought'
        <3>1. queued' # 0
            BY <1>b, <2>1
        <3> QED
            BY <3>1 DEF TurnIsSought, Sought
    <2> QED
        BY <2>3, <2>4, <2>5 DEF AskInv
<1>9. ASSUME NEW p \in Threads, Claim(p) PROVE AskInv'
    <2>1. /\ at[p] = "claim"
          /\ UNCHANGED <<seat, queued, answer, fired, status>>
          /\ UNCHANGED <<turn, pos, news, origin, first, seated>>
        BY <1>9 DEF Claim, gameVars
    <2>2. status \in {"ready", "thinking"} /\ turn = "engine" /\ queued = 0 /\ ~AppSeat
        BY <1>d, <1>e, <2>1 DEF Claiming, StatusFits, ClaimsFit, AppSeat, AppAlone, Threads
    <2>3. CASE ~thinking /\ answer = 0 /\ seat # NoThread
        <3> DEFINE r == [gen |-> gen + 1, pos |-> 0, engine |-> Engine, step |-> "claimed",
                         by |-> p]
        <3>1. /\ thinkers' = thinkers \union {r} /\ gen' = gen + 1 /\ thinking' = TRUE
              /\ at'[p] = "claimed" /\ \A q \in Threads: q # p => at'[q] = at[q]
            BY <1>9, <2>3, <1>a, Goes DEF Claim
        <3>2. r.gen = gen' /\ r.step = "claimed" /\ r.by = p /\ r.engine = Engine
            BY <3>1
        <3>3. \A th \in thinkers: th.gen # gen'
            <4>1. \A a, b \in Nat: a <= b => a # b + 1
                OBVIOUS
            <4>2. \A th \in thinkers: th.gen \in Nat /\ th.gen <= gen
                BY <1>b, <1>e, ComputedFields DEF Generations
            <4> QED
                BY <1>b, <3>1, <4>1, <4>2, Zenon
        <3> HIDE DEF r
        <3>4. \A q \in Threads: at[q] # "claimed"
            BY <1>c, <1>e, <2>3 DEF WorkIsOwn, Generations, AtWork
        <3>5. WorkIsOwn'
            BY <1>s, <2>1, <2>3, <3>1, <3>2, <3>3, <3>4 DEF WorkIsOwn, AtWork
        <3>6. NewsFits' /\ ThinkingFits' /\ QueueIsServed'
            BY <1>c, <1>s, <2>1, <2>2, <3>1 DEF NewsFits, ThinkingFits, QueueIsServed, Unsettled
        <3>7. TurnIsSought'
            BY <3>1 DEF TurnIsSought, Sought
        <3> QED
            BY <3>5, <3>6, <3>7 DEF AskInv
    <2>4. CASE ~(~thinking /\ answer = 0 /\ seat # NoThread)
        <3>1. UNCHANGED <<gen, thinking, thinkers>> /\ Go(p, After(p))
            BY <1>9, <2>4 DEF Claim
        <3>2. /\ at'[p] \in {"idle", "serve"} /\ \A q \in Threads: q # p => at'[q] = at[q]
            BY <3>1, <1>a, Goes DEF After
        <3>3. WorkIsOwn'
            BY <1>c, <1>s, <2>1, <3>1, <3>2 DEF WorkIsOwn, AtWork
        <3>4. NewsFits' /\ ThinkingFits' /\ QueueIsServed'
            BY <1>c, <1>s, <2>1, <2>2, <3>1, <3>2 DEF NewsFits, ThinkingFits, QueueIsServed, Unsettled
        <3>5. TurnIsSought'
            <4>1. thinking \/ answer # 0
                BY <1>d, <2>2, <2>4 DEF StatusFits, AppSeat
            <4>2. thinking \/ answer = pos \/ Unsettled
                BY <1>c, <1>e, <2>2, <4>1 DEF AnswerFits, NewsFits
            <4>3. thinking \/ answer = pos \/ origin \notin {"start", "move"}
                BY <1>c, <4>2 DEF NewsFits, Unsettled
            <4> QED
                BY <2>1, <3>1, <4>3 DEF TurnIsSought, Sought
        <3> QED
            BY <3>3, <3>4, <3>5 DEF AskInv
    <2> QED
        BY <2>3, <2>4
<1>10. ASSUME NEW p \in Threads, Spawn(p) PROVE AskInv'
    <2> DEFINE n == IF board[p] = 0 THEN pos ELSE board[p]
    <2>1. PICK th \in thinkers:
            /\ th.by = p /\ th.step = "claimed"
            /\ thinkers' = (thinkers \ {th}) \union
                   {[gen |-> th.gen, pos |-> n, engine |-> th.engine, step |-> "compute",
                     by |-> NoThread]}
        BY <1>10 DEF Spawn
    <2>2. /\ at[p] = "claimed" /\ status' = "thinking" /\ Go(p, After(p))
          /\ UNCHANGED <<seat, queued, gen, thinking, answer, fired>>
          /\ UNCHANGED <<turn, pos, news, origin, first, seated>>
        BY <1>10 DEF Spawn, gameVars
    <2>3. thinking /\ status \in {"ready", "thinking"}
        BY <1>c, <1>d, <1>e, <2>2 DEF WorkIsOwn, Generations, AtWork, StatusFits, Claiming
    <2>4. /\ at'[p] \in {"idle", "serve"} /\ \A q \in Threads: q # p => at'[q] = at[q]
        BY <2>2, <1>a, Goes DEF After
    <2> DEFINE r == [gen |-> th.gen, pos |-> n, engine |-> th.engine, step |-> "compute",
                     by |-> NoThread]
    <2>5. /\ r.gen = th.gen /\ r.step = "compute" /\ r.engine = th.engine
          /\ thinkers' = (thinkers \ {th}) \union {r}
        BY <2>1
    <2> HIDE DEF r, n
    <2>6. WorkIsOwn'
        <3>1. \A u \in thinkers': AtWork(u)' => seat' # NoThread /\ u.engine = Engine'
            BY <1>c, <1>s, <2>1, <2>2, <2>5 DEF WorkIsOwn, AtWork
        <3>2. ASSUME NEW q \in Threads, at'[q] = "claimed"
              PROVE  \E u \in thinkers': u.by = q /\ u.step = "claimed" /\ u.gen = gen'
            <4>1. q # p /\ at[q] = "claimed"
                BY <2>4, <3>2
            <4>2. PICK u \in thinkers: u.by = q /\ u.step = "claimed" /\ u.gen = gen
                BY <1>c, <4>1 DEF WorkIsOwn
            <4>3. u # th
                BY <2>1, <4>1, <4>2
            <4> QED
                BY <2>2, <2>5, <4>2, <4>3
        <3> QED
            BY <3>1, <3>2 DEF WorkIsOwn
    <2>7. NewsFits' /\ ThinkingFits' /\ QueueIsServed'
        BY <1>c, <2>2, <2>3, <2>4 DEF NewsFits, ThinkingFits, QueueIsServed, Unsettled
    <2>8. TurnIsSought'
        BY <2>2, <2>3 DEF TurnIsSought, Sought
    <2> QED
        BY <2>6, <2>7, <2>8 DEF AskInv
<1>11. ASSUME NEW th \in thinkers, Commit(th) PROVE AskInv'
    <2>1. /\ UNCHANGED <<seat, proc, mine, queued, gen, at, fired, status>>
          /\ UNCHANGED <<turn, pos, news, origin, first, seated>>
          /\ th.step = "compute" /\ ~news
        BY <1>11 DEF Commit, gameVars, registryVars
    <2>2. EngineGone' <=> EngineGone
        BY <2>1 DEF EngineGone, Engine
    <2>3. CASE th.gen = gen
        <3>1. /\ thinking' = FALSE /\ thinkers' = (thinkers \ {th}) \union {Ended(th)}
              /\ answer' = IF proc[th.engine] = "up" THEN th.pos ELSE answer
            BY <1>11, <2>3 DEF Commit
        <3>2. Ended(th).gen = th.gen /\ Ended(th).step = "done"
            BY DEF Ended
        <3>3. AtWork(th) /\ seat # NoThread /\ th.engine = Engine
            BY <1>c, <2>1, <2>3 DEF AtWork, WorkIsOwn
        <3>4. Unsettled \/ th.pos = pos
            BY <1>e, <2>1, <3>3 DEF WorkFits
        <3>5. \A u \in thinkers: u # th => ~AtWork(u)
            BY <1>e, <2>3 DEF Generations, AtWork
        <3>6. \A q \in Threads: at[q] # "claimed"
            BY <1>c, <2>1, <3>5 DEF WorkIsOwn, AtWork
        <3>7. \A u \in thinkers': ~AtWork(u)'
            BY <2>1, <3>1, <3>2, <3>5 DEF AtWork
        <3>8. WorkIsOwn'
            BY <2>1, <3>6, <3>7 DEF WorkIsOwn
        <3>9. origin \notin {"start", "move"} \/ answer' = pos \/ EngineGone
            BY <1>c, <3>1, <3>3, <3>4 DEF EngineGone, NewsFits, Unsettled
        <3>10. NewsFits' /\ QueueIsServed'
            BY <1>c, <2>1 DEF NewsFits, QueueIsServed
        <3>11. ThinkingFits'
            BY <2>1, <2>2, <3>1, <3>2, <3>9 DEF ThinkingFits, Unsettled
        <3>12. TurnIsSought'
            BY <2>1, <2>2, <3>9 DEF TurnIsSought, Sought
        <3> QED
            BY <3>8, <3>10, <3>11, <3>12 DEF AskInv
    <2>4. CASE th.gen # gen
        <3>1. thinkers' = thinkers \ {th} /\ UNCHANGED <<thinking, answer>>
            BY <1>11, <2>4 DEF Commit
        <3>2. WorkIsOwn'
            BY <1>c, <1>s, <2>1, <3>1 DEF WorkIsOwn, AtWork
        <3>3. NewsFits' /\ QueueIsServed'
            BY <1>c, <2>1, <3>1 DEF NewsFits, QueueIsServed, Unsettled
        <3>4. ThinkingFits'
            BY <1>c, <2>1, <2>2, <3>1 DEF ThinkingFits, Unsettled
        <3>5. TurnIsSought'
            BY <1>c, <2>1, <2>2, <3>1 DEF TurnIsSought, Sought, Claiming
        <3> QED
            BY <3>2, <3>3, <3>4, <3>5 DEF AskInv
    <2> QED
        BY <2>3, <2>4
<1>12. ASSUME NEW th \in thinkers, AfterCommit(th) PROVE AskInv'
    <2>1. /\ UNCHANGED <<seat, queued, gen, thinking, answer, at, fired>>
          /\ UNCHANGED <<turn, pos, news, origin, first, seated>>
          /\ thinkers' = thinkers \ {th} /\ th.step = "done"
          /\ status' = IF status = "thinking" THEN "ready" ELSE status
        BY <1>12 DEF AfterCommit, gameVars
    <2>2. WorkIsOwn'
        BY <1>c, <1>s, <2>1 DEF WorkIsOwn, AtWork
    <2>3. NewsFits' /\ ThinkingFits' /\ QueueIsServed'
        BY <1>c, <2>1 DEF NewsFits, ThinkingFits, QueueIsServed, Unsettled
    <2>4. TurnIsSought'
        BY <1>c, <1>s, <2>1 DEF TurnIsSought, Sought, Claiming
    <2> QED
        BY <2>2, <2>3, <2>4 DEF AskInv
<1>13. CASE Move \/ Takeback \/ NewGame
    <2>1. /\ at["game"] = "idle" /\ pos' = pos + 1 /\ status # "new" /\ seated
          /\ \A q \in Threads: at[q] \notin {"claim", "claimed"}
          /\ \A th \in thinkers: th.step # "done"
          /\ UNCHANGED <<seat, queued, gen, thinking, answer, thinkers, fired, status>>
          /\ UNCHANGED <<first, seated>>
        BY <1>13 DEF Move, Takeback, NewGame, NextPosition, Apart, Idle
    <2>2. at'["game"] \in {"ask", "undo", "reset"} /\ \A q \in Threads: q # "game" => at'[q] = at[q]
        BY <1>13, <1>a, Goes DEF Move, Takeback, NewGame
    <2>3. WorkIsOwn'
        BY <1>c, <1>s, <2>1, <2>2 DEF WorkIsOwn, AtWork
    <2>4. answer = 0 \/ answer = pos \/ news
        BY <1>e, <2>1 DEF AnswerFits, Unsettled
    <2>5. answer < pos + 1
        <3>1. answer <= pos
            BY <1>b, <1>c, <2>4 DEF NewsFits
        <3> QED
            BY <1>b, <3>1
    <2>6. ThinkingFits' /\ QueueIsServed'
        BY <1>c, <2>1, <2>2 DEF ThinkingFits, QueueIsServed
    <2>7. CASE Move
        <3>1. /\ at'["game"] = "ask" /\ ~news /\ (turn = "engine" => answer = pos)
              /\ turn' = IF turn = "human" THEN "engine" ELSE "human"
            BY <2>7, <1>a, Goes DEF Move
        <3>2. answer # 0 => turn = "engine"
            BY <1>e, <2>1, <3>1 DEF AnswerFits, Unsettled
        <3>3. NewsFits'
            BY <2>1, <2>5, <3>1, <3>2 DEF NewsFits
        <3>4. TurnIsSought'
            BY <3>1 DEF TurnIsSought, Sought
        <3> QED
            BY <2>3, <2>6, <3>3, <3>4 DEF AskInv
    <2>8. CASE Takeback
        <3>1. at'["game"] = "undo" /\ origin' = "takeback" /\ news' = news
            BY <2>8, <1>a, Goes DEF Takeback
        <3>2. NewsFits'
            BY <2>1, <2>5, <3>1 DEF NewsFits, Unsettled
        <3>3. TurnIsSought'
            BY <3>1 DEF TurnIsSought
        <3> QED
            BY <2>3, <2>6, <3>2, <3>3 DEF AskInv
    <2>9. CASE NewGame
        <3>1. at'["game"] = "reset" /\ origin' = "new" /\ news' = news
            BY <2>9, <1>a, Goes DEF NewGame
        <3>2. NewsFits'
            BY <2>1, <2>5, <3>1 DEF NewsFits, Unsettled
        <3>3. TurnIsSought'
            BY <3>1 DEF TurnIsSought, Sought
        <3> QED
            BY <2>3, <2>6, <3>2, <3>3 DEF AskInv
    <2> QED
        BY <1>13, <2>7, <2>8, <2>9
<1>14. CASE AnnounceMove
    <2>1. /\ news /\ news' = FALSE /\ answer' \in {answer, 0}
          /\ UNCHANGED <<seat, status, queued, gen, thinking, thinkers, at, fired>>
          /\ UNCHANGED <<seated, pos, turn, first, origin>>
        BY <1>14 DEF AnnounceMove
    <2>2. answer # pos
        BY <1>b, <1>c, <2>1 DEF NewsFits
    <2>3. WorkIsOwn'
        BY <1>c, <1>s, <2>1 DEF WorkIsOwn, AtWork
    <2>4. NewsFits' /\ ThinkingFits' /\ QueueIsServed'
        BY <1>c, <1>s, <2>1, <2>2 DEF NewsFits, ThinkingFits, QueueIsServed, Unsettled
    <2>5. TurnIsSought'
        BY <1>c, <1>s, <2>1, <2>2 DEF TurnIsSought, Sought, Claiming
    <2> QED
        BY <2>3, <2>4, <2>5 DEF AskInv
<1>15. CASE OnTakeback \/ OnNewGame
    <2>1. /\ Invalidate /\ at["game"] \in {"undo", "reset"}
          /\ UNCHANGED <<seat, queued, thinkers, turn, pos, news, fired, origin, first, seated>>
          /\ \A q \in Threads: at[q] \notin {"claim", "claimed"}
        BY <1>15 DEF OnTakeback, OnNewGame, Apart, gameVars
    <2>2. answer' = 0 /\ \A th \in thinkers: ~AtWork(th)'
        BY <2>1, <1>e, Invalidates DEF AnswerInv, Generations
    <2>3. status # "new"
        BY <1>c, <2>1 DEF NewsFits
    <2>4. CASE /\ status' = AfterInvalidate
               /\ Go("game", "offer") \/ (at["game"] = "undo" /\ Go("game", "idle"))
        <3>1. /\ at'["game"] = "offer" \/ (at["game"] = "undo" /\ at'["game"] = "idle")
              /\ \A q \in Threads: q # "game" => at'[q] = at[q]
            BY <2>4, <1>a, Goes
        <3>2. status' = IF status = "thinking" THEN "ready" ELSE status
            BY <2>4 DEF AfterInvalidate
        <3>3. WorkIsOwn'
            BY <2>1, <2>2, <3>1 DEF WorkIsOwn
        <3>4. NewsFits' /\ ThinkingFits' /\ QueueIsServed'
            BY <1>b, <1>c, <2>1, <2>2, <2>3, <3>1, <3>2 DEF NewsFits, ThinkingFits, QueueIsServed
        <3>5. TurnIsSought'
            BY <1>c, <2>1 DEF TurnIsSought, NewsFits
        <3> QED
            BY <3>3, <3>4, <3>5 DEF AskInv
    <2>5. CASE Start("game", "offer")
        <3>1. PICK t \in Loaders:
                /\ at[t] = "idle" /\ at'[t] = "load" /\ at'["game"] = "offer" /\ status' = "init"
                /\ \A q \in Threads: q # "game" /\ q # t => at'[q] = at[q]
            BY <2>5, <1>a, Starts
        <3>2. WorkIsOwn'
            BY <2>1, <2>2, <3>1 DEF WorkIsOwn
        <3>3. NewsFits' /\ ThinkingFits' /\ QueueIsServed'
            BY <1>b, <1>c, <2>1, <2>2, <3>1 DEF NewsFits, ThinkingFits, QueueIsServed
        <3>4. TurnIsSought'
            BY <1>c, <2>1 DEF TurnIsSought, NewsFits
        <3> QED
            BY <3>2, <3>3, <3>4 DEF AskInv
    <2> QED
        BY <1>15, <2>4, <2>5 DEF OnTakeback, OnNewGame
<1>16. CASE Elsewhere \/ UNCHANGED vars
    <2>1. /\ UNCHANGED <<seat, queued, gen, thinking, answer, thinkers, fired, at, status>>
          /\ UNCHANGED <<turn, pos, news, origin, first, seated>>
        BY <1>16 DEF Elsewhere, vars, playerVars, gameVars
    <2>2. WorkIsOwn'
        BY <1>c, <1>s, <2>1 DEF WorkIsOwn, AtWork
    <2>3. NewsFits' /\ ThinkingFits' /\ QueueIsServed'
        BY <1>c, <1>s, <2>1 DEF NewsFits, ThinkingFits, QueueIsServed, Unsettled
    <2>4. TurnIsSought'
        BY <1>c, <1>s, <2>1 DEF TurnIsSought, Sought, Claiming
    <2> QED
        BY <2>2, <2>3, <2>4 DEF AskInv
<1> QED
    BY <1>1, <1>2, <1>3, <1>4, <1>5, <1>6, <1>7, <1>8, <1>9, <1>10, <1>11, <1>12, <1>13, <1>14,
       <1>15, <1>16 DEF Next

\* The request that follows a move is never lost: when it is the engine's turn and
\* nothing is under way, the engine has answered, unless it died, through loads
\* that fail and are tried again, apps, takebacks, new games and computations that
\* are cancelled (request_move, _do_request_move).  Requests, loads and the
\* announcements of moves must not interrupt each other, as the conditions let them.
THEOREM EngineIsAskedAfterMoves ==
    ASSUME Conditions = {}
    PROVE  Spec => []AskedAfterMove
<1> DEFINE Inv == /\ TypeOK /\ UseInv /\ RegistryInv
                  /\ LoadInv /\ AnswerInv /\ AskInv /\ FlagHasThinker
<1>1. Init => Inv
    <2>1. Init => FlagHasThinker
        BY DEF Init, FlagHasThinker
    <2> QED
        BY <2>1, AskInit, AnswerInit, LoadInit, PlayerInit
<1>2. Inv /\ [Next]_vars => Inv'
    <2> SUFFICES ASSUME Inv, [Next]_vars PROVE Inv'
        OBVIOUS
    <2>1. TypeOK' /\ UseInv' /\ RegistryInv'
        BY PlayerStep
    <2>2. LoadInv' /\ AnswerInv' /\ AskInv'
        BY LoadStep, AnswerStep, AskStep
    <2>3. FlagHasThinker'
        BY FlagStep
    <2> QED
        BY <2>1, <2>2, <2>3
<1>3. Inv => AskedAfterMove
    <2> SUFFICES ASSUME Inv, Quiet, turn = "engine", proc[Engine] = "up",
                        origin \in {"start", "move"}
                 PROVE  answer = pos
        BY DEF AskedAfterMove, Answered
    <2>1. /\ \A p \in Threads: at[p] = "idle"
          /\ status = "ready" /\ seated /\ thinkers = {}
        BY DEF Quiet, Idle
    <2>2. ~thinking
        BY <2>1 DEF FlagHasThinker
    <2>3. queued = 0
        BY <2>1, ThreadNames DEF AskInv, QueueIsServed
    <2>4. Sought
        BY <2>1 DEF AskInv, TurnIsSought
    <2> QED
        BY <2>1, <2>2, <2>3, <2>4, ThreadNames DEF Sought, Claiming, EngineGone
<1> HIDE DEF Inv
<1> QED
    BY <1>1, <1>2, <1>3, PTL DEF Spec

=============================================================================
