----------------------------- MODULE EngineCache -----------------------------
(***************************************************************************)
(* The process-wide engine cache of mountaineer.database.dependencies.core *)
(* (GLOBAL_ENGINE), used by request tasks through get_db / get_db_session  *)
(* and emptied by unregister_global_engine, all on one asyncio loop: a     *)
(* task runs alone between two awaits, so a step below is the code between *)
(* two awaits.                                                             *)
(*                                                                         *)
(* An engine's pool opens connections lazily and keeps them after a        *)
(* session closes; dispose() closes them and gives the engine a fresh,     *)
(* empty pool that later sessions fill again.  `pooled` is the set of      *)
(* engines whose current pool holds a connection.                          *)
(***************************************************************************)
EXTENDS Naturals, Sequences, FiniteSets

CONSTANTS URIs,          \* SQLALCHEMY_DATABASE_URI values of the configs
          Requests,      \* request tasks resolving get_db_session
          MaxEngines,    \* engines create_async_engine may return
          MaxShutdowns,  \* calls of unregister_global_engine
          ForceNew,      \* whether some caller passes force_new=True
          Graceful,      \* shutdown waits for requests, and stops new ones
          NoEngine

ASSUME EngineCacheAssumptions ==
    /\ URIs # {} /\ Requests # {}
    /\ MaxEngines \in Nat /\ MaxShutdowns \in Nat
    /\ ForceNew \in BOOLEAN /\ Graceful \in BOOLEAN
    /\ NoEngine \notin Nat

Engines == 1..MaxEngines

VARIABLES order,     \* GLOBAL_ENGINE's keys, in insertion order
          cache,     \* GLOBAL_ENGINE: uri -> engine
          created,   \* engines created so far
          pooled,    \* engines whose current pool holds connections
          req,       \* per request task: pc and the engine it was given
          unreg,     \* unregister_global_engine: pc, iterator state, target
          shutdowns, \* calls of unregister_global_engine so far
          disposed   \* engines disposed by the current call (history)

vars == <<order, cache, created, pooled, req, unreg, shutdowns, disposed>>

ReqPCs == {"idle", "open", "busy"}
UnregPCs == {"idle", "disposing", "raised"}

TypeOK ==
    /\ order \in Seq(URIs)
    /\ cache \in [URIs -> Engines \cup {NoEngine}]
    /\ created \in 0..MaxEngines
    /\ pooled \subseteq 1..created
    /\ req \in [Requests -> [pc : ReqPCs, engine : Engines \cup {NoEngine}]]
    /\ unreg \in [pc : UnregPCs, pos : Nat, size : Nat,
                  target : Engines \cup {NoEngine}]
    /\ shutdowns \in 0..MaxShutdowns
    /\ disposed \subseteq Engines

Init ==
    /\ order = <<>>
    /\ cache = [u \in URIs |-> NoEngine]
    /\ created = 0
    /\ pooled = {}
    /\ req = [r \in Requests |-> [pc |-> "idle", engine |-> NoEngine]]
    /\ unreg = [pc |-> "idle", pos |-> 0, size |-> 0, target |-> NoEngine]
    /\ shutdowns = 0
    /\ disposed = {}

ShutdownRunning == unreg.pc = "disposing"

-----------------------------------------------------------------------------
(* Request tasks.                                                          *)

\* get_db_session: get_db resolves engine_from_config(config) (no await in
\* between, so atomically): a new engine is created, and stored under the
\* uri, when force_new is passed or the uri is not cached; a new key goes
\* to the end of the dict, a replaced one keeps its place.  Then
\* async_sessionmaker(engine) and `async with session_maker()` open a
\* session, which holds no connection yet.
OpenSession(r) ==
    /\ req[r].pc = "idle"
    /\ Graceful => ~ShutdownRunning
    /\ \E u \in URIs, forceNew \in IF ForceNew THEN BOOLEAN ELSE {FALSE} :
          IF forceNew \/ cache[u] = NoEngine
          THEN /\ created < MaxEngines
               /\ created' = created + 1
               /\ cache' = [cache EXCEPT ![u] = created + 1]
               /\ order' = IF cache[u] = NoEngine THEN Append(order, u)
                                                 ELSE order
               /\ req' = [req EXCEPT ![r] = [pc |-> "open",
                                             engine |-> created + 1]]
          ELSE /\ req' = [req EXCEPT ![r] = [pc |-> "open",
                                             engine |-> cache[u]]]
               /\ UNCHANGED <<cache, order, created>>
    /\ UNCHANGED <<pooled, unreg, shutdowns, disposed>>

\* The handler's first query checks a connection out of the engine's
\* current pool, opening one if the pool is empty.
Execute(r) ==
    /\ req[r].pc = "open"
    /\ pooled' = pooled \cup {req[r].engine}
    /\ req' = [req EXCEPT ![r].pc = "busy"]
    /\ UNCHANGED <<disposed, order, cache, created, unreg, shutdowns>>

\* The handler returns or raises (LOGGER.exception, then re-raise); either
\* way `async with` closes the session, and its connection goes back to the
\* pool it came from (a pool disposed meanwhile discards it).
CloseSession(r) ==
    /\ req[r].pc \in {"open", "busy"}
    /\ req' = [req EXCEPT ![r] = [pc |-> "idle", engine |-> NoEngine]]
    /\ UNCHANGED <<disposed, order, cache, created, pooled, unreg, shutdowns>>

-----------------------------------------------------------------------------
(* unregister_global_engine.  The loop `for engine in                     *)
(* GLOBAL_ENGINE.values(): await engine.dispose()` only yields at the      *)
(* await, so iter() and the first next(), and each completed dispose and   *)
(* the next() after it, run in one step.                                   *)

\* Mutant: the loop stops one engine early (an off-by-one end test).
IterNextSkipLast(p, size) ==
    \/ /\ Len(order) # size
       /\ unreg' = [pc |-> "raised", pos |-> p, size |-> size, target |-> NoEngine]
       /\ UNCHANGED <<order, cache>>
    \/ /\ Len(order) = size
       /\ p >= Len(order)
       /\ order' = <<>>
       /\ cache' = [u \in URIs |-> NoEngine]
       /\ unreg' = [pc |-> "idle", pos |-> p, size |-> size, target |-> NoEngine]
    \/ /\ Len(order) = size
       /\ p < Len(order)
       /\ unreg' = [pc |-> "disposing", pos |-> p, size |-> size,
                    target |-> cache[order[p]]]
       /\ UNCHANGED <<order, cache>>

\* The iterator's next() at position p of an iteration begun over a dict of
\* `size` entries: RuntimeError if the dict has changed size since; past
\* the end, the loop exits, GLOBAL_ENGINE = {} and the call returns;
\* otherwise the p-th engine's dispose() starts and the call awaits it.
IterNext(p, size) ==
    \/ /\ Len(order) # size
       /\ unreg' = [pc |-> "raised", pos |-> p, size |-> size, target |-> NoEngine]
       /\ UNCHANGED <<order, cache>>
    \/ /\ Len(order) = size
       /\ p > Len(order)
       /\ order' = <<>>
       /\ cache' = [u \in URIs |-> NoEngine]
       /\ unreg' = [pc |-> "idle", pos |-> p, size |-> size, target |-> NoEngine]
    \/ /\ Len(order) = size
       /\ p <= Len(order)
       /\ unreg' = [pc |-> "disposing", pos |-> p, size |-> size,
                    target |-> cache[order[p]]]
       /\ UNCHANGED <<order, cache>>

\* Mutant: the iteration starts past the first engine (an off-by-one start).
StartUnregisterSkipFirst ==
    /\ unreg.pc \in {"idle", "raised"}
    /\ shutdowns < MaxShutdowns
    /\ Graceful => \A r \in Requests : req[r].pc = "idle"
    /\ IterNext(2, Len(order))
    /\ shutdowns' = shutdowns + 1
    /\ disposed' = {}
    /\ UNCHANGED <<created, pooled, req>>

\* A call of unregister_global_engine (GLOBAL_ENGINE is never None: it is
\* initialised to {}): iter(GLOBAL_ENGINE.values()) remembers the dict's
\* size, and the first next() follows at once.
StartUnregister ==
    /\ unreg.pc \in {"idle", "raised"}
    /\ shutdowns < MaxShutdowns
    /\ Graceful => \A r \in Requests : req[r].pc = "idle"
    /\ IterNext(1, Len(order))
    /\ shutdowns' = shutdowns + 1
    /\ disposed' = {}
    /\ UNCHANGED <<created, pooled, req>>

\* Mutant: `engine.dispose()` called without await: the coroutine never
\* runs and the pool keeps its connections.
UnregDisposeNotAwaited ==
    /\ unreg.pc = "disposing"
    /\ disposed' = disposed \cup {unreg.target}
    /\ IterNext(unreg.pos + 1, unreg.size)
    /\ UNCHANGED <<created, pooled, req, shutdowns>>

\* `await engine.dispose()` completes: the engine's pool is closed and
\* replaced by an empty one; the loop's next() runs in the same step.
UnregDispose ==
    /\ unreg.pc = "disposing"
    /\ pooled' = pooled \ {unreg.target}
    /\ disposed' = disposed \cup {unreg.target}
    /\ IterNext(unreg.pos + 1, unreg.size)
    /\ UNCHANGED <<created, req, shutdowns>>

Next ==
    \/ \E r \in Requests : OpenSession(r) \/ Execute(r) \/ CloseSession(r)
    \/ StartUnregister \/ UnregDispose

Spec == Init /\ [][Next]_vars

-----------------------------------------------------------------------------
(* Properties.                                                             *)

\* Engines that someone can still dispose: the cached ones, and those a
\* running request holds.
Reachable ==
    {cache[u] : u \in URIs} \cup
    {req[r].engine : r \in {s \in Requests : req[s].pc # "idle"}}

\* No connection pool is orphaned: every engine whose pool holds connections
\* is still in GLOBAL_ENGINE or in use by a request, so that the next
\* unregister_global_engine (or the request) can reach it.
NoOrphanPool == pooled \subseteq Reachable

\* unregister_global_engine never fails: a call either is still running or
\* has disposed the engines and emptied GLOBAL_ENGINE.
UnregisterCompletes == unreg.pc # "raised"

\* Whenever unregister_global_engine empties GLOBAL_ENGINE, every engine the
\* dict held was disposed by that same call, whatever requests did during
\* its awaits: an engine stored under a new uri mid-loop makes the iteration
\* raise instead of being dropped undisposed.
ClearedEnginesDisposed ==
    [][order' = <<>> =>
         {cache[u] : u \in URIs} \ {NoEngine} \subseteq disposed']_vars

-----------------------------------------------------------------------------
(* Inductive invariants.                                                   *)

\* Uri u is a key of GLOBAL_ENGINE.
InOrder(u) == \E i \in 1..Len(order) : order[i] = u

\* The engines GLOBAL_ENGINE holds.
Cached == {cache[u] : u \in URIs} \ {NoEngine}

\* The dict's keys, in order, are exactly the uris with an engine.
CacheConsistent ==
    /\ \A i \in 1..Len(order) : cache[order[i]] # NoEngine
    /\ \A u \in URIs : cache[u] # NoEngine => InOrder(u)

\* Every engine the dict holds, a request holds or the loop disposes has
\* been created.
EnginesCreated ==
    /\ \A u \in URIs : cache[u] # NoEngine => cache[u] \in 1..created
    /\ \A r \in Requests : req[r].pc # "idle" => req[r].engine \in 1..created
    /\ unreg.pc = "disposing" => unreg.target \in 1..created

(* The inductive strengthening of TypeOK, with or without force_new: the  *)
(* engines in use have been created, the dict's keys are the uris with an *)
(* engine, and a running loop's position is a valid index or past the end. *)
TypeInv ==
    /\ TypeOK
    /\ EnginesCreated
    /\ CacheConsistent
    /\ ShutdownRunning => unreg.pos >= 1

\* The engines the remaining iterations of unregister_global_engine reach.
Remaining == {cache[order[i]] : i \in unreg.pos..Len(order)}

(* The inductive invariant behind NoOrphanPool under graceful shutdown:   *)
(* a request only holds a cached engine; a running shutdown sees no        *)
(* request and a dict of the size it started with, and every pool holding *)
(* connections belongs to an engine the loop has still to dispose.         *)
PoolInv ==
    /\ TypeInv
    /\ \A r \in Requests : req[r].pc # "idle" => req[r].engine \in Cached
    /\ ShutdownRunning =>
          /\ \A r \in Requests : req[r].pc = "idle"
          /\ unreg.size = Len(order)
          /\ pooled \subseteq Remaining
    /\ unreg.pc = "disposing" =>
          unreg.pos <= Len(order) /\ unreg.target = cache[order[unreg.pos]]
    /\ ~ShutdownRunning => pooled \subseteq Cached

(* The inductive invariant behind ClearedEnginesDisposed: as long as the  *)
(* dict keeps the size the iteration started with, it holds the same      *)
(* engines, and every engine before the loop's position was disposed by   *)
(* this call.                                                              *)
DisposedInv ==
    /\ TypeInv
    /\ ShutdownRunning =>
          /\ unreg.size <= Len(order)
          /\ unreg.size = Len(order) =>
                \A i \in 1..Len(order) : i < unreg.pos => cache[order[i]] \in disposed
    /\ unreg.pc = "disposing" /\ unreg.size = Len(order) =>
          unreg.pos <= Len(order) /\ unreg.target = cache[order[unreg.pos]]
=============================================================================
