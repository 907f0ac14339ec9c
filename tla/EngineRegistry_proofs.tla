------------------------- MODULE EngineRegistry_proofs -------------------------
(***************************************************************************)
(* Proofs about the registry of engines, for any number of users and of    *)
(* loads.                                                                  *)
(*                                                                         *)
(* A reference count is right because a load has the pool to itself until  *)
(* its handle is published: there is one load at a time (OneLoader), the   *)
(* pool is empty until it publishes (PoolWaits), and nobody can hold its   *)
(* engine before that (NotYetHeld).                                        *)
(***************************************************************************)
EXTENDS EngineRegistry, FiniteSetTheorems, TLAPS

\* A thread that loads is about the load that is registered, and the other way
\* round.
LoadIsRegistered == \A u \in Users: pc[u] \in Loading => loading # None /\ mine[u] = loading
LoadHasThread == loading # None => \E u \in Users: pc[u] \in Loading
OneLoader == \A u, v \in Users: pc[u] \in Loading /\ pc[v] \in Loading => u = v

Unpublished == {"launch", "publish", "failed"}
PoolWaits == \A u \in Users: pc[u] \in Unpublished => pool = None
NotYetHeld ==
    \A u, v \in Users:
        pc[u] \in Unpublished /\ pc[v] \in {"pooled", "held"} => mine[u] # mine[v]

\* A load that waits to be launched has no process yet, and later ones neither.
Unlaunched ==
    /\ \A n \in Loads: n > loads => proc[n] = "none" /\ n \notin reaping
    /\ \A u \in Users: pc[u] \in {"launch", "failed"} =>
           proc[mine[u]] = "none" /\ mine[u] \notin reaping

PoolIsLive == pool # None => pool \notin reaping /\ proc[pool] \in {"up", "dead"}

WaitIsForLoad == \A u \in Users: pc[u] = "wait" => mine[u] \in done \/ mine[u] = loading

\* An engine that runs and is not to be quit is in the pool or about to be.
RunningIsPooled ==
    \A n \in Loads:
        proc[n] = "up" /\ n \notin reaping =>
            n = pool \/ \E u \in Users: pc[u] = "publish" /\ mine[u] = n

OneLoad ==
    /\ LoadIsRegistered /\ LoadHasThread /\ OneLoader
    /\ PoolWaits /\ NotYetHeld /\ WaitIsForLoad

EnginesInUse == Unlaunched /\ PoolIsLive /\ RunningIsPooled /\ HeldIsNotQuit

RegistryInv == RegistryTypeOK /\ OneLoad /\ EnginesInUse /\ RefsAreHolders

----------------------------------------------------------------------------

\* The holders of an engine are a finite set.
LEMMA HoldersFinite ==
    ASSUME NEW n
    PROVE  IsFiniteSet(Holders(n))
<1>1. Holders(n) \subseteq Users
    BY DEF Holders
<1> QED
    BY <1>1, UsersAssumption, FS_Subset

\* What the registry starts in satisfies the invariant.
LEMMA InitInv == RegistryInit => RegistryInv
<1> SUFFICES ASSUME RegistryInit PROVE RegistryInv
    OBVIOUS
<1> USE DEF RegistryInit, None
<1>1. RegistryTypeOK
    BY MaxLoadsAssumption DEF RegistryTypeOK, Loads, Processes, Places
<1>2. OneLoad
    BY DEF OneLoad, LoadIsRegistered, LoadHasThread, OneLoader, PoolWaits, NotYetHeld,
           WaitIsForLoad, Loading, Unpublished
<1>3. EnginesInUse
    BY DEF EnginesInUse, Unlaunched, PoolIsLive, RunningIsPooled, HeldIsNotQuit, Loads
<1>4. RefsAreHolders
    BY DEF RefsAreHolders
<1> QED
    BY <1>1, <1>2, <1>3, <1>4 DEF RegistryInv

\* The pooled engine and the registered load are among the loads begun.
LEMMA Numbered ==
    ASSUME RegistryInv
    PROVE  /\ Alive => pool \in 1..loads
           /\ loading # None => loading \in 1..loads
<1> USE MaxLoadsAssumption DEF RegistryInv, RegistryTypeOK, None, Loads
<1>1. Alive => pool \in 1..loads
    BY DEF Alive, EnginesInUse, Unlaunched
<1>2. ASSUME loading # None PROVE loading \in 1..loads
    <2>1. PICK u \in Users: pc[u] \in Loading
        BY <1>2 DEF OneLoad, LoadHasThread
    <2> QED
        BY <2>1 DEF OneLoad, LoadIsRegistered, Loading
<1> QED
    BY <1>1, <1>2

\* A thread that finds the pooled engine alive takes a reference to it.
LEMMA TakeReferenceStep ==
    ASSUME RegistryInv, NEW x \in Users, pc[x] \in {"idle", "wait"}, Alive, TakeReference(x)
    PROVE  RegistryTypeOK' /\ OneLoad' /\ EnginesInUse'
<1> USE MaxLoadsAssumption DEF RegistryInv, RegistryTypeOK, None, Loads
<1>1. RegistryTypeOK'
    <2>1. pool \in 1..loads
        BY Numbered
    <2>2. refs' \in [Loads -> Nat] /\ pc' \in [Users -> Places]
        BY <2>1 DEF TakeReference, Places
    <2>3. mine' \in [Users -> Loads \union {None}]
        BY <2>1 DEF TakeReference
    <2>4. \A u \in Users: pc'[u] # "idle" => mine'[u] \in 1..loads'
        BY <2>1 DEF TakeReference
    <2> QED
        BY <2>2, <2>3, <2>4 DEF TakeReference
<1>2. OneLoad'
    BY DEF TakeReference, Alive, OneLoad, LoadIsRegistered, LoadHasThread,
           OneLoader, PoolWaits, NotYetHeld, WaitIsForLoad, Loading, Unpublished
<1>3. EnginesInUse'
    BY DEF TakeReference, Alive, EnginesInUse, Unlaunched, PoolIsLive,
           RunningIsPooled, HeldIsNotQuit
<1> QED
    BY <1>1, <1>2, <1>3

\* A waiter that finds no engine gives up.
LEMMA NoEngineStep ==
    ASSUME RegistryInv, NEW x \in Users, pc[x] = "wait", ~Alive, LookAgain(x)
    PROVE  RegistryTypeOK' /\ OneLoad' /\ EnginesInUse'
<1> USE MaxLoadsAssumption DEF RegistryInv, RegistryTypeOK, None, Loads
<1>1. /\ pc' = [pc EXCEPT ![x] = "idle"]
      /\ mine' = [mine EXCEPT ![x] = None]
      /\ UNCHANGED <<pool, loading, done, refs, proc, reaping, loads>>
    BY DEF LookAgain
<1>2. RegistryTypeOK'
    BY <1>1 DEF Places
<1>3. OneLoad'
    BY <1>1 DEF OneLoad, LoadIsRegistered, LoadHasThread,
           OneLoader, PoolWaits, NotYetHeld, WaitIsForLoad, Loading, Unpublished
<1>4. EnginesInUse'
    BY <1>1 DEF EnginesInUse, Unlaunched, PoolIsLive, RunningIsPooled, HeldIsNotQuit
<1> QED
    BY <1>2, <1>3, <1>4

LEMMA AwaitOtherStep ==
    ASSUME RegistryInv, NEW x \in Users, AwaitOther(x)
    PROVE  RegistryTypeOK' /\ OneLoad' /\ EnginesInUse'
<1> USE MaxLoadsAssumption DEF RegistryInv, RegistryTypeOK, None, Loads
<1>1. RegistryTypeOK'
    BY Numbered DEF AwaitOther, EvictDead, Alive, Places, Processes
<1>2. OneLoad'
    BY DEF AwaitOther, EvictDead, Alive, Places, OneLoad, LoadIsRegistered, LoadHasThread,
           OneLoader, PoolWaits, NotYetHeld, WaitIsForLoad, Loading, Unpublished
<1>3. EnginesInUse'
    BY DEF AwaitOther, EvictDead, Alive, Places, Processes, OneLoad, LoadIsRegistered,
           OneLoader, PoolWaits, Loading, Unpublished, NotYetHeld,
           EnginesInUse, Unlaunched, PoolIsLive, RunningIsPooled, HeldIsNotQuit
<1> QED
    BY <1>1, <1>2, <1>3

LEMMA RegisterStep ==
    ASSUME RegistryInv, NEW x \in Users, Register(x)
    PROVE  RegistryTypeOK' /\ OneLoad' /\ EnginesInUse'
<1> USE MaxLoadsAssumption DEF RegistryInv, RegistryTypeOK, None, Loads
<1>1. RegistryTypeOK'
    BY DEF Register, EvictDead, Alive, Places, Processes
<1>2. OneLoad'
    BY DEF Register, EvictDead, Alive, Places, OneLoad, LoadIsRegistered, LoadHasThread,
           OneLoader, PoolWaits, NotYetHeld, WaitIsForLoad, Loading, Unpublished
<1>3. EnginesInUse'
    BY DEF Register, EvictDead, Alive, Places, Processes, OneLoad, LoadIsRegistered,
           OneLoader, PoolWaits, Loading, Unpublished, NotYetHeld,
           EnginesInUse, Unlaunched, PoolIsLive, RunningIsPooled, HeldIsNotQuit
<1> QED
    BY <1>1, <1>2, <1>3

LEMMA LaunchDoneStep ==
    ASSUME RegistryInv, NEW x \in Users, LaunchDone(x)
    PROVE  RegistryTypeOK' /\ OneLoad' /\ EnginesInUse'
<1> USE MaxLoadsAssumption DEF RegistryInv, RegistryTypeOK, None, Loads
<1>1. RegistryTypeOK'
    BY DEF LaunchDone, Places, Processes
<1>2. OneLoad'
    BY DEF LaunchDone, Places, OneLoad, LoadIsRegistered, LoadHasThread,
           OneLoader, PoolWaits, NotYetHeld, WaitIsForLoad, Loading, Unpublished
<1>3. EnginesInUse'
  <2>1. Unlaunched'
    BY DEF LaunchDone, Places, Processes, EnginesInUse, Unlaunched, OneLoad, OneLoader,
           LoadIsRegistered, Loading, Unpublished
  <2>2. PoolIsLive'
    BY DEF LaunchDone, Places, Processes, EnginesInUse, PoolIsLive, OneLoad, PoolWaits,
           Unpublished
  <2>3. RunningIsPooled'
    BY DEF LaunchDone, Places, Processes, EnginesInUse, RunningIsPooled, OneLoad, OneLoader,
           Loading, Unlaunched
  <2>4. HeldIsNotQuit'
    BY DEF LaunchDone, Places, Processes, EnginesInUse, HeldIsNotQuit, Unlaunched
  <2> QED
    BY <2>1, <2>2, <2>3, <2>4 DEF EnginesInUse
<1> QED
    BY <1>1, <1>2, <1>3

LEMMA PublishStep ==
    ASSUME RegistryInv, NEW x \in Users, Publish(x)
    PROVE  RegistryTypeOK' /\ OneLoad' /\ EnginesInUse'
<1> USE MaxLoadsAssumption DEF RegistryInv, RegistryTypeOK, None, Loads
<1>1. RegistryTypeOK'
    BY DEF Publish, Places, Processes
<1>2. OneLoad'
    BY DEF Publish, Places, OneLoad, LoadIsRegistered, LoadHasThread,
           OneLoader, PoolWaits, NotYetHeld, WaitIsForLoad, Loading, Unpublished
<1>3. EnginesInUse'
    BY DEF Publish, Places, Processes, OneLoad, LoadIsRegistered,
           OneLoader, PoolWaits, Loading, Unpublished, NotYetHeld,
           EnginesInUse, Unlaunched, PoolIsLive, RunningIsPooled, HeldIsNotQuit
<1> QED
    BY <1>1, <1>2, <1>3

LEMMA FinishLoadStep ==
    ASSUME RegistryInv, NEW x \in Users, FinishLoad(x)
    PROVE  RegistryTypeOK' /\ OneLoad' /\ EnginesInUse'
<1> USE MaxLoadsAssumption DEF RegistryInv, RegistryTypeOK, None, Loads
<1>1. RegistryTypeOK'
    BY DEF FinishLoad, WakeWaiters, Places, Processes
<1>2. OneLoad'
  <2>1. LoadIsRegistered' /\ LoadHasThread'
    <3>1. loading' = None
      BY DEF FinishLoad, WakeWaiters
    <3>2. \A u \in Users: pc'[u] \notin Loading
      BY DEF FinishLoad, OneLoad, OneLoader, Loading
    <3> QED
      BY <3>1, <3>2 DEF LoadIsRegistered, LoadHasThread
  <2>2. OneLoader' /\ PoolWaits'
    BY DEF FinishLoad, WakeWaiters, Places, OneLoad, OneLoader, PoolWaits, Loading, Unpublished
  <2>3. NotYetHeld'
    BY DEF FinishLoad, WakeWaiters, Places, OneLoad, OneLoader, NotYetHeld, Loading, Unpublished
  <2>4. WaitIsForLoad'
    BY DEF FinishLoad, WakeWaiters, Places, OneLoad, LoadIsRegistered, WaitIsForLoad, Loading
  <2> QED
    BY <2>1, <2>2, <2>3, <2>4 DEF OneLoad
<1>3. EnginesInUse'
  <2>1. Unlaunched'
    BY DEF FinishLoad, WakeWaiters, Places, Processes, EnginesInUse, Unlaunched, OneLoad, OneLoader,
           LoadIsRegistered, Loading, Unpublished
  <2>2. PoolIsLive'
    BY DEF FinishLoad, WakeWaiters, Places, Processes, EnginesInUse, PoolIsLive, OneLoad, PoolWaits,
           Unpublished
  <2>3. RunningIsPooled'
    BY DEF FinishLoad, WakeWaiters, Places, Processes, EnginesInUse, RunningIsPooled, OneLoad, OneLoader,
           Loading, Unlaunched
  <2>4. HeldIsNotQuit'
    BY DEF FinishLoad, WakeWaiters, Places, Processes, EnginesInUse, HeldIsNotQuit, OneLoad, NotYetHeld,
           Unpublished
  <2> QED
    BY <2>1, <2>2, <2>3, <2>4 DEF EnginesInUse
<1> QED
    BY <1>1, <1>2, <1>3

LEMMA ReleaseStep ==
    ASSUME RegistryInv, NEW x \in Users, Release(x)
    PROVE  RegistryTypeOK' /\ OneLoad' /\ EnginesInUse'
<1> USE MaxLoadsAssumption DEF RegistryInv, RegistryTypeOK, None, Loads
<1>1. RegistryTypeOK'
    BY DEF Release, Places, Processes
<1>2. OneLoad'
    BY DEF Release, Places, OneLoad, LoadIsRegistered, LoadHasThread,
           OneLoader, PoolWaits, NotYetHeld, WaitIsForLoad, Loading, Unpublished
<1>3. EnginesInUse'
    BY DEF Release, Places, Processes, OneLoad, LoadIsRegistered,
           OneLoader, PoolWaits, Loading, Unpublished, NotYetHeld,
           EnginesInUse, Unlaunched, PoolIsLive, RunningIsPooled, HeldIsNotQuit
<1> QED
    BY <1>1, <1>2, <1>3

\* Without references nobody holds the engine, so it may be quit.
LEMMA EvictUnusedStep ==
    ASSUME RegistryInv, EvictUnused
    PROVE  RegistryTypeOK' /\ OneLoad' /\ EnginesInUse'
<1> USE MaxLoadsAssumption DEF RegistryInv, RegistryTypeOK, None, Loads
<1>1. RegistryTypeOK'
    BY DEF EvictUnused
<1>2. OneLoad'
    BY DEF EvictUnused, OneLoad, LoadIsRegistered, LoadHasThread,
           OneLoader, PoolWaits, NotYetHeld, WaitIsForLoad, Loading, Unpublished
<1>3. Holders(pool) = {}
    <2>1. Cardinality(Holders(pool)) = 0
        BY DEF EvictUnused, RefsAreHolders
    <2> QED
        BY <2>1, HoldersFinite, FS_EmptySet
<1>4. \A u \in Users: pc[u] \in {"publish", "pooled", "held"} => mine[u] # pool
    <2>1. \A u \in Users: pc[u] \in {"pooled", "held"} => mine[u] # pool
        BY <1>3 DEF Holders
    <2>2. \A u \in Users: pc[u] # "publish"
        BY DEF EvictUnused, OneLoad, PoolWaits, Unpublished
    <2> QED
        BY <2>1, <2>2
<1>5. Unlaunched'
    BY DEF EvictUnused, EnginesInUse, Unlaunched, PoolIsLive, OneLoad, PoolWaits, Unpublished
<1>6. PoolIsLive' /\ RunningIsPooled'
    BY DEF EvictUnused, EnginesInUse, PoolIsLive, RunningIsPooled
<1>7. HeldIsNotQuit'
    BY <1>4 DEF EvictUnused, EnginesInUse, HeldIsNotQuit
<1> QED
    BY <1>1, <1>2, <1>5, <1>6, <1>7 DEF EnginesInUse

LEMMA QuitEngineStep ==
    ASSUME RegistryInv, NEW n \in Loads, QuitEngine(n)
    PROVE  RegistryTypeOK' /\ OneLoad' /\ EnginesInUse'
<1> USE MaxLoadsAssumption DEF RegistryInv, RegistryTypeOK, None, Loads
<1>1. RegistryTypeOK'
    BY DEF QuitEngine, Places, Processes
<1>2. OneLoad'
    BY DEF QuitEngine, Places, OneLoad, LoadIsRegistered, LoadHasThread,
           OneLoader, PoolWaits, NotYetHeld, WaitIsForLoad, Loading, Unpublished
<1>3. EnginesInUse'
    BY DEF QuitEngine, Places, Processes, OneLoad, PoolWaits, Unpublished,
           EnginesInUse, Unlaunched, PoolIsLive, RunningIsPooled, HeldIsNotQuit
<1> QED
    BY <1>1, <1>2, <1>3

LEMMA EngineDiesStep ==
    ASSUME RegistryInv, NEW n \in Loads, EngineDies(n)
    PROVE  RegistryTypeOK' /\ OneLoad' /\ EnginesInUse'
<1> USE MaxLoadsAssumption DEF RegistryInv, RegistryTypeOK, None, Loads
<1>1. RegistryTypeOK'
    BY DEF EngineDies, Places, Processes
<1>2. OneLoad'
    BY DEF EngineDies, Places, OneLoad, LoadIsRegistered, LoadHasThread,
           OneLoader, PoolWaits, NotYetHeld, WaitIsForLoad, Loading, Unpublished
<1>3. EnginesInUse'
    BY DEF EngineDies, Places, Processes, OneLoad, PoolWaits, Unpublished,
           EnginesInUse, Unlaunched, PoolIsLive, RunningIsPooled, HeldIsNotQuit
<1> QED
    BY <1>1, <1>2, <1>3

----------------------------------------------------------------------------
(* The reference count                                                     *)

\* The count stays right when neither it nor the holders change.
LEMMA SameHolders ==
    ASSUME RegistryInv,
           pool' = pool \/ pool' = None,
           pool' # None => refs'[pool] = refs[pool],
           pool' # None => Holders(pool)' = Holders(pool)
    PROVE  RefsAreHolders'
<1> SUFFICES ASSUME pool' # None PROVE refs'[pool'] = Cardinality(Holders(pool)')
    BY DEF RefsAreHolders, Holders
<1>1. pool' = pool
    OBVIOUS
<1>2. refs[pool] = Cardinality(Holders(pool))
    BY <1>1 DEF RegistryInv, RefsAreHolders
<1> QED
    BY <1>1, <1>2

LEMMA TakeReferenceCounts ==
    ASSUME RegistryInv, NEW x \in Users, pc[x] \in {"idle", "wait"}, Alive, TakeReference(x)
    PROVE  RefsAreHolders'
<1> USE DEF RegistryInv, RegistryTypeOK, None, Loads
<1>1. pool \in Loads /\ pool' = pool
    BY DEF Alive, TakeReference
<1>2. Holders(pool)' = Holders(pool) \union {x}
    BY <1>1 DEF Holders, TakeReference
<1>3. x \notin Holders(pool)
    BY DEF Holders
<1>4. Cardinality(Holders(pool)') = Cardinality(Holders(pool)) + 1
    BY <1>2, <1>3, HoldersFinite, FS_AddElement
<1>5. refs'[pool] = refs[pool] + 1
    BY <1>1 DEF TakeReference
<1>6. refs[pool] = Cardinality(Holders(pool))
    BY <1>1 DEF RefsAreHolders
<1> QED
    BY <1>1, <1>4, <1>5, <1>6 DEF RefsAreHolders

LEMMA PublishCounts ==
    ASSUME RegistryInv, NEW x \in Users, Publish(x)
    PROVE  RefsAreHolders'
<1> USE DEF RegistryInv, RegistryTypeOK, None, Loads
<1>1. mine[x] \in Loads /\ pool' = mine[x] /\ refs'[mine[x]] = 1
    BY MaxLoadsAssumption DEF Publish
<1>2. \A v \in Users: pc[v] \in {"pooled", "held"} => mine[v] # mine[x]
    BY DEF Publish, OneLoad, NotYetHeld, Unpublished
<1>3. Holders(pool)' = {x}
    BY <1>1, <1>2 DEF Holders, Publish
<1>4. Cardinality({x}) = 1
    BY FS_Singleton
<1> QED
    BY <1>1, <1>3, <1>4 DEF RefsAreHolders

LEMMA ReleaseCounts ==
    ASSUME RegistryInv, NEW x \in Users, Release(x)
    PROVE  RefsAreHolders'
<1> USE DEF RegistryInv, RegistryTypeOK, None, Loads
<1>1. CASE mine[x] # pool \/ pool = None
    <2>1. pool' = pool /\ (pool # None => refs'[pool] = refs[pool])
        BY <1>1, MaxLoadsAssumption DEF Release
    <2>2. pool # None => Holders(pool)' = Holders(pool)
        BY <1>1 DEF Holders, Release
    <2> QED
        BY <2>1, <2>2, SameHolders
<1>2. CASE mine[x] = pool /\ pool # None
    <2>1. x \in Holders(pool)
        BY <1>2 DEF Holders, Release
    <2>2. Holders(pool)' = Holders(pool) \ {x}
        BY <1>2 DEF Holders, Release
    <2>3. Cardinality(Holders(pool)') = Cardinality(Holders(pool)) - 1
        BY <2>1, <2>2, HoldersFinite, FS_RemoveElement
    <2>4. Cardinality(Holders(pool)) # 0
        BY <2>1, HoldersFinite, FS_EmptySet
    <2>5. refs[pool] = Cardinality(Holders(pool)) /\ refs[pool] \in Nat
        BY <1>2 DEF RefsAreHolders
    <2>6. refs[mine[x]] > 0
        BY <2>4, <2>5, <1>2
    <2>7. pool' = pool /\ refs'[pool] = refs[pool] - 1
        BY <1>2, <2>6 DEF Release
    <2> QED
        BY <2>3, <2>5, <2>7 DEF RefsAreHolders
<1> QED
    BY <1>1, <1>2

LEMMA FinishLoadCounts ==
    ASSUME RegistryInv, NEW x \in Users, FinishLoad(x)
    PROVE  RefsAreHolders'
<1> USE DEF RegistryInv, RegistryTypeOK, None, Loads
<1>1. pool' = pool /\ refs' = refs
    BY DEF FinishLoad
<1>2. CASE pc[x] = "pooled"
    <2>1. pc' = [pc EXCEPT ![x] = "held"] /\ mine' = mine
        BY <1>2 DEF FinishLoad
    <2>2. Holders(pool)' = Holders(pool)
        BY <1>1, <1>2, <2>1 DEF Holders
    <2> QED
        BY <1>1, <2>2, SameHolders
<1>3. CASE pc[x] = "failed"
    <2>1. pc' = [pc EXCEPT ![x] = "idle"] /\ mine' = [mine EXCEPT ![x] = None]
        BY <1>3 DEF FinishLoad
    <2>2. Holders(pool)' = Holders(pool)
        BY <1>1, <1>3, <2>1 DEF Holders
    <2> QED
        BY <1>1, <2>2, SameHolders
<1> QED
    BY <1>2, <1>3 DEF FinishLoad

\* Steps of threads that hold no reference and change no count.
LEMMA OtherCounts ==
    ASSUME RegistryInv, NEW x \in Users,
           AwaitOther(x) \/ Register(x) \/ LaunchDone(x) \/ (pc[x] = "wait" /\ ~Alive /\ LookAgain(x))
    PROVE  RefsAreHolders'
<1> USE DEF RegistryInv, RegistryTypeOK, None, Loads
<1>1. CASE AwaitOther(x) \/ Register(x)
    BY <1>1 DEF AwaitOther, Register, EvictDead, RefsAreHolders
<1>2. CASE LaunchDone(x)
    BY <1>2 DEF LaunchDone, OneLoad, PoolWaits, Unpublished, RefsAreHolders
<1>3. CASE pc[x] = "wait" /\ ~Alive /\ LookAgain(x)
    <2>1. /\ pc' = [pc EXCEPT ![x] = "idle"]
          /\ mine' = [mine EXCEPT ![x] = None]
          /\ pool' = pool /\ refs' = refs
        BY <1>3 DEF LookAgain
    <2>2. Holders(pool)' = Holders(pool)
        BY <1>3, <2>1 DEF Holders
    <2> QED
        BY <2>1, <2>2, SameHolders
<1> QED
    BY <1>1, <1>2, <1>3

----------------------------------------------------------------------------
(* The invariant                                                           *)

LEMMA LookAgainInv ==
    ASSUME RegistryInv, NEW x \in Users, pc[x] = "wait", LookAgain(x)
    PROVE  RegistryInv'
<1>1. CASE Alive
    <2>1. TakeReference(x)
        BY <1>1 DEF LookAgain
    <2> QED
        BY <1>1, <2>1, TakeReferenceStep, TakeReferenceCounts DEF RegistryInv
<1>2. CASE ~Alive
    BY <1>2, NoEngineStep, OtherCounts DEF RegistryInv
<1> QED
    BY <1>1, <1>2

LEMMA UserInv ==
    ASSUME RegistryInv, NEW x \in Users, Acquire(x) \/ Continue(x) \/ Release(x)
    PROVE  RegistryInv'
<1>1. CASE Reuse(x)
    <2>1. pc[x] = "idle" /\ Alive /\ TakeReference(x)
        BY <1>1 DEF Reuse
    <2> QED
        BY <2>1, TakeReferenceStep, TakeReferenceCounts DEF RegistryInv
<1>2. CASE AwaitOther(x)
    BY <1>2, AwaitOtherStep, OtherCounts DEF RegistryInv
<1>3. CASE Register(x)
    BY <1>3, RegisterStep, OtherCounts DEF RegistryInv
<1>4. CASE LaunchDone(x)
    BY <1>4, LaunchDoneStep, OtherCounts DEF RegistryInv
<1>5. CASE Publish(x)
    BY <1>5, PublishStep, PublishCounts DEF RegistryInv
<1>6. CASE FinishLoad(x)
    BY <1>6, FinishLoadStep, FinishLoadCounts DEF RegistryInv
<1>7. CASE Woken(x) \/ WaitTimeout(x)
    BY <1>7, LookAgainInv DEF Woken, WaitTimeout
<1>8. CASE Release(x)
    BY <1>8, ReleaseStep, ReleaseCounts DEF RegistryInv
<1> QED
    BY <1>1, <1>2, <1>3, <1>4, <1>5, <1>6, <1>7, <1>8 DEF Acquire, Continue

LEMMA EngineInv ==
    ASSUME RegistryInv, EngineStep
    PROVE  RegistryInv'
<1>1. CASE EvictUnused
    <2>1. RefsAreHolders'
        BY <1>1 DEF EvictUnused, RefsAreHolders
    <2> QED
        BY <1>1, <2>1, EvictUnusedStep DEF RegistryInv
<1>2. CASE \E n \in Loads: QuitEngine(n) \/ EngineDies(n)
    <2>1. PICK n \in Loads: QuitEngine(n) \/ EngineDies(n)
        BY <1>2
    <2>2. RefsAreHolders'
        BY <2>1 DEF RegistryInv, QuitEngine, EngineDies, RefsAreHolders, Holders
    <2> QED
        BY <2>1, <2>2, QuitEngineStep, EngineDiesStep DEF RegistryInv
<1> QED
    BY <1>1, <1>2 DEF EngineStep

LEMMA NextInv ==
    ASSUME RegistryInv, [RegistryNext]_registryVars
    PROVE  RegistryInv'
<1>1. CASE RegistryNext
    BY <1>1, UserInv, EngineInv DEF RegistryNext
<1>2. CASE UNCHANGED registryVars
    BY <1>2 DEF registryVars, RegistryInv, RegistryTypeOK, OneLoad, LoadIsRegistered,
       LoadHasThread, OneLoader, PoolWaits, NotYetHeld, WaitIsForLoad, EnginesInUse, Unlaunched,
       PoolIsLive, RunningIsPooled, HeldIsNotQuit, RefsAreHolders, Holders
<1> QED
    BY <1>1, <1>2

\* The registry's state satisfies the invariant for ever.
THEOREM RegistrySafe == RegistrySpec => []RegistryInv
<1>1. RegistryInv /\ [RegistryNext]_registryVars => RegistryInv'
    BY NextInv
<1> QED
    BY InitInv, <1>1, PTL DEF RegistrySpec

----------------------------------------------------------------------------
(* What follows from it                                                    *)

LEMMA WaitersAreServed == RegistryInv => NoLostWaiter
<1> SUFFICES ASSUME RegistryInv, NEW u \in Users, pc[u] = "wait", mine[u] \notin done
             PROVE  \E v \in Users: pc[v] \in Loading /\ mine[v] = mine[u]
    BY DEF NoLostWaiter
<1>1. mine[u] = loading
    BY DEF RegistryInv, OneLoad, WaitIsForLoad
<1>2. mine[u] \in 1..loads
    BY DEF RegistryInv, RegistryTypeOK
<1>3. loading # None
    BY <1>1, <1>2 DEF RegistryInv, RegistryTypeOK, None
<1>4. PICK v \in Users: pc[v] \in Loading
    BY <1>3 DEF RegistryInv, OneLoad, LoadHasThread
<1> QED
    BY <1>1, <1>4 DEF RegistryInv, OneLoad, LoadIsRegistered

LEMMA EnginesAreOne == RegistryInv => OneEngine
<1> SUFFICES ASSUME RegistryInv, NEW m \in Loads, NEW n \in Loads,
                    proc[m] = "up", m \notin reaping, proc[n] = "up", n \notin reaping
             PROVE  m = n
    BY DEF OneEngine
<1>1. /\ m = pool \/ \E u \in Users: pc[u] = "publish" /\ mine[u] = m
      /\ n = pool \/ \E u \in Users: pc[u] = "publish" /\ mine[u] = n
    BY DEF RegistryInv, EnginesInUse, RunningIsPooled
<1>2. \A u \in Users: pc[u] = "publish" => pool = None
    BY DEF RegistryInv, OneLoad, PoolWaits, Unpublished
<1>3. m # None /\ n # None
    BY DEF Loads, None
<1>4. \A u, v \in Users: pc[u] = "publish" /\ pc[v] = "publish" => u = v
    BY DEF RegistryInv, OneLoad, OneLoader, Loading
<1> QED
    BY <1>1, <1>2, <1>3, <1>4

\* The count of the pooled engine is the number of its holders (acquire_or_raise,
\* release, evict_unused), for any number of users and loads.
THEOREM ReferencesCounted == RegistrySpec => []RefsAreHolders
<1>1. RegistryInv => RefsAreHolders
    BY DEF RegistryInv
<1> QED
    BY <1>1, RegistrySafe, PTL

\* No engine is quit while somebody has a reference to it (evict_unused).
THEOREM UsedEnginesRun == RegistrySpec => []HeldIsNotQuit
<1>1. RegistryInv => HeldIsNotQuit
    BY DEF RegistryInv, EnginesInUse
<1> QED
    BY <1>1, RegistrySafe, PTL

\* Nobody waits for a load that nobody carries out (acquire_or_raise).
THEOREM WaitersHaveLoader == RegistrySpec => []NoLostWaiter
    BY WaitersAreServed, RegistrySafe, PTL

\* There is one process per engine (acquire_or_raise).
THEOREM OneProcess == RegistrySpec => []OneEngine
    BY EnginesAreOne, RegistrySafe, PTL

=============================================================================
