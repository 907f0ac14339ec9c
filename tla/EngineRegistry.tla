---------------------------- MODULE EngineRegistry ----------------------------
(***************************************************************************)
(* The registry of engine processes: the players, the coach, the analysis  *)
(* and the option probe share one process per engine.                      *)
(*                                                                         *)
(* One path is modelled; the entries of different paths do not meet.  A    *)
(* load is numbered when its thread registers it, and its number names its *)
(* event, its handle and its process.  A step is a section under the       *)
(* registry's lock, or what is done between two of them: a launch may take *)
(* minutes, so it holds no lock.                                           *)
(***************************************************************************)
EXTENDS Integers, FiniteSets

CONSTANTS
    Users,          \* the threads that acquire the engine
    MaxLoads        \* bound: number of loads

ASSUME UsersAssumption == IsFiniteSet(Users)
ASSUME MaxLoadsAssumption == MaxLoads \in Nat

None == 0
Loads == 1..MaxLoads

VARIABLES
    pool,           \* _engines[path]: the load whose handle is pooled, or None
    loading,        \* _loading[path]: the load that is registered, or None
    done,           \* the loads whose event is set
    refs,           \* ref_count of the handle of each load
    proc,           \* the process of each load
    reaping,        \* engines taken out of the pool that are still to be quit
    loads,          \* number of loads registered so far
    pc,             \* where each user is in acquire_or_raise, or "held"
    mine            \* the load it awaits, runs or holds a reference to

registryVars == <<pool, loading, done, refs, proc, reaping, loads, pc, mine>>

\* A "dead" process ended by itself, a "quit" one was quit by the registry.
Processes == {"none", "up", "dead", "quit"}

\* "pooled" has published its handle and "failed" has none to publish; both are
\* on their way through the finally that wakes the waiters.
Places == {"idle", "wait", "launch", "publish", "pooled", "failed", "held"}
Loading == {"launch", "publish", "pooled", "failed"}

RegistryInit ==
    /\ pool = None
    /\ loading = None
    /\ done = {}
    /\ refs = [n \in Loads |-> 0]
    /\ proc = [n \in Loads |-> "none"]
    /\ reaping = {}
    /\ loads = 0
    /\ pc = [u \in Users |-> "idle"]
    /\ mine = [u \in Users |-> None]

\* _is_engine_alive of the pooled engine
Alive == pool # None /\ proc[pool] = "up"

----------------------------------------------------------------------------
(* acquire_or_raise                                                        *)

\* One more reference to the pooled engine.
TakeReference(u) ==
    /\ refs' = [refs EXCEPT ![pool] = @ + 1]
    /\ pc' = [pc EXCEPT ![u] = "held"]
    /\ mine' = [mine EXCEPT ![u] = pool]
    /\ UNCHANGED <<pool, loading, done, proc, reaping, loads>>

Reuse(u) ==
    /\ pc[u] = "idle"
    /\ Alive
    /\ TakeReference(u)

\* A pooled engine that died leaves the pool, whoever holds it.
EvictDead ==
    /\ pool' = None
    /\ refs' = IF pool = None THEN refs ELSE [refs EXCEPT ![pool] = 0]

AwaitOther(u) ==
    /\ pc[u] = "idle"
    /\ ~Alive
    /\ loading # None
    /\ EvictDead
    /\ pc' = [pc EXCEPT ![u] = "wait"]
    /\ mine' = [mine EXCEPT ![u] = loading]
    /\ UNCHANGED <<loading, done, proc, reaping, loads>>

Register_Duplicate(u) ==
    /\ pc[u] = "idle"
    /\ ~Alive
    /\ loads < MaxLoads
    /\ EvictDead
    /\ loads' = loads + 1
    /\ loading' = loads'
    /\ pc' = [pc EXCEPT ![u] = "launch"]
    /\ mine' = [mine EXCEPT ![u] = loads']
    /\ UNCHANGED <<done, proc, reaping>>

Register(u) ==
    /\ pc[u] = "idle"
    /\ ~Alive
    /\ loading = None
    /\ loads < MaxLoads
    /\ EvictDead
    /\ loads' = loads + 1
    /\ loading' = loads'
    /\ pc' = [pc EXCEPT ![u] = "launch"]
    /\ mine' = [mine EXCEPT ![u] = loads']
    /\ UNCHANGED <<done, proc, reaping>>

Acquire(u) == Reuse(u) \/ AwaitOther(u) \/ Register(u)

\* popen_uci returns, or raises
LaunchDone(u) ==
    /\ pc[u] = "launch"
    /\ \/ /\ proc' = [proc EXCEPT ![mine[u]] = "up"]
          /\ pc' = [pc EXCEPT ![u] = "publish"]
       \/ /\ pc' = [pc EXCEPT ![u] = "failed"]
          /\ UNCHANGED proc
    /\ UNCHANGED <<pool, loading, done, refs, reaping, loads, mine>>

Publish(u) ==
    /\ pc[u] = "publish"
    /\ pool' = mine[u]
    /\ refs' = [refs EXCEPT ![mine[u]] = 1]
    /\ pc' = [pc EXCEPT ![u] = "pooled"]
    /\ UNCHANGED <<loading, done, proc, reaping, loads, mine>>

WakeWaiters_OnSuccess(u) ==
    /\ done' = IF pc[u] = "pooled" THEN done \union ({loading} \ {None}) ELSE done
    /\ loading' = None

\* The finally: the waiters are woken whether there is an engine or not.
WakeWaiters(u) ==
    /\ done' = done \union ({loading} \ {None})
    /\ loading' = None

FinishLoad(u) ==
    /\ pc[u] \in {"pooled", "failed"}
    /\ WakeWaiters(u)
    /\ \/ /\ pc[u] = "pooled"
          /\ pc' = [pc EXCEPT ![u] = "held"]
          /\ UNCHANGED mine
       \/ /\ pc[u] = "failed"
          /\ pc' = [pc EXCEPT ![u] = "idle"]
          /\ mine' = [mine EXCEPT ![u] = None]
    /\ UNCHANGED <<pool, refs, proc, reaping, loads>>

\* A waiter looks into the pool once the event is set, or when it is tired of
\* waiting for it (ENGINE_LOAD_WAIT_SECONDS).
LookAgain(u) ==
    \/ Alive /\ TakeReference(u)
    \/ /\ ~Alive
       /\ pc' = [pc EXCEPT ![u] = "idle"]
       /\ mine' = [mine EXCEPT ![u] = None]
       /\ UNCHANGED <<pool, loading, done, refs, proc, reaping, loads>>

Woken(u) ==
    /\ pc[u] = "wait"
    /\ mine[u] \in done
    /\ LookAgain(u)

WaitTimeout(u) ==
    /\ pc[u] = "wait"
    /\ mine[u] \notin done
    /\ LookAgain(u)

----------------------------------------------------------------------------
(* release, eviction, the processes                                        *)

Release_Unclamped(u) ==
    /\ pc[u] = "held"
    /\ refs' = IF pool # None THEN [refs EXCEPT ![mine[u]] = @ - 1] ELSE refs
    /\ pc' = [pc EXCEPT ![u] = "idle"]
    /\ mine' = [mine EXCEPT ![u] = None]
    /\ UNCHANGED <<pool, loading, done, proc, reaping, loads>>

Release(u) ==
    /\ pc[u] = "held"
    /\ refs' = IF pool # None /\ refs[mine[u]] > 0
               THEN [refs EXCEPT ![mine[u]] = @ - 1] ELSE refs
    /\ pc' = [pc EXCEPT ![u] = "idle"]
    /\ mine' = [mine EXCEPT ![u] = None]
    /\ UNCHANGED <<pool, loading, done, proc, reaping, loads>>

EvictUnused_InUse ==
    /\ pool # None
    /\ pool' = None
    /\ reaping' = reaping \union {pool}
    /\ UNCHANGED <<loading, done, refs, proc, loads, pc, mine>>

\* evict_unused at a teardown, evict_if_unused after a probe: the engine leaves
\* the pool under the lock and is quit after it.
EvictUnused ==
    /\ pool # None
    /\ refs[pool] <= 0
    /\ pool' = None
    /\ reaping' = reaping \union {pool}
    /\ UNCHANGED <<loading, done, refs, proc, loads, pc, mine>>

QuitEngine(n) ==
    /\ n \in reaping
    /\ reaping' = reaping \ {n}
    /\ proc' = [proc EXCEPT ![n] = IF @ = "up" THEN "quit" ELSE @]
    /\ UNCHANGED <<pool, loading, done, refs, loads, pc, mine>>

\* The process is killed, as by a system that has run out of memory.
EngineDies(n) ==
    /\ proc[n] = "up"
    /\ proc' = [proc EXCEPT ![n] = "dead"]
    /\ UNCHANGED <<pool, loading, done, refs, reaping, loads, pc, mine>>

\* What a user's thread does once it has called acquire, and what happens to
\* the engines whoever calls.
Continue(u) == LaunchDone(u) \/ Publish(u) \/ FinishLoad(u) \/ Woken(u) \/ WaitTimeout(u)

EngineStep == EvictUnused \/ \E n \in Loads: QuitEngine(n) \/ EngineDies(n)

RegistryNext ==
    \/ \E u \in Users: Acquire(u) \/ Continue(u) \/ Release(u)
    \/ EngineStep

RegistrySpec == RegistryInit /\ [][RegistryNext]_registryVars

----------------------------------------------------------------------------
(* Properties                                                              *)

\* The users that hold a reference to engine n.
Holders(n) == {u \in Users: pc[u] \in {"pooled", "held"} /\ mine[u] = n}

\* Types of the registry's state, and which loads a user can be about.
RegistryTypeOK ==
    /\ pool \in Loads \union {None}
    /\ loading \in Loads \union {None}
    /\ done \subseteq Loads
    /\ refs \in [Loads -> Nat]
    /\ proc \in [Loads -> Processes]
    /\ reaping \subseteq Loads
    /\ loads \in 0..MaxLoads
    /\ pc \in [Users -> Places]
    /\ mine \in [Users -> Loads \union {None}]
    /\ \A u \in Users: pc[u] # "idle" => mine[u] \in 1..loads

\* The count of the pooled engine is the number of users that hold it, through
\* every interleaving of loads, waits, releases, deaths and evictions: a lower
\* count lets a teardown quit an engine in use, a higher one keeps an idle
\* process for good (acquire_or_raise, release, evict_unused).
RefsAreHolders == pool # None => refs[pool] = Cardinality(Holders(pool))

\* No engine is quit, or about to be, while somebody holds a reference to it:
\* the reaping outside the lock comes after the last use (evict_unused,
\* evict_if_unused).
HeldIsNotQuit ==
    \A u \in Users:
        pc[u] \in {"publish", "pooled", "held"} =>
            /\ mine[u] \notin reaping
            /\ proc[mine[u]] \in {"up", "dead"}

\* Who waits for a load waits for one that is under way, with a thread that will
\* set its event, or for one whose event is set: nobody waits for an event that
\* is never set (acquire_or_raise, its finally).
NoLostWaiter ==
    \A u \in Users:
        pc[u] = "wait" =>
            \/ mine[u] \in done
            \/ \E v \in Users: pc[v] \in Loading /\ mine[v] = mine[u]

\* At most one process is in use or in the pool for a path: a load begins only
\* when there is none, so an engine in the pool is never overwritten and its
\* process forgotten (acquire_or_raise: "this thread will wait for that load to
\* complete rather than starting a duplicate").
OneEngine ==
    \A m, n \in Loads:
        /\ proc[m] = "up" /\ m \notin reaping
        /\ proc[n] = "up" /\ n \notin reaping
        => m = n

=============================================================================
