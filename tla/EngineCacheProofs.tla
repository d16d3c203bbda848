--------------------------- MODULE EngineCacheProofs ---------------------------
(***************************************************************************)
(* Proofs about the engine cache of mountaineer.database.dependencies.core *)
(* for any sets of uris and requests and any bounds: the state is well     *)
(* typed; when no caller passes force_new, a completed                     *)
(* unregister_global_engine has disposed every engine it drops, and under  *)
(* graceful shutdown no pool is orphaned.                                  *)
(***************************************************************************)
EXTENDS EngineCache, SequenceTheorems, TLAPS

USE EngineCacheAssumptions

-----------------------------------------------------------------------------
(* Lemmas about the dict.                                                  *)

\* Appending a uri that has no engine keeps the earlier keys in place.
LEMMA AppendKey ==
    ASSUME NEW s \in Seq(URIs), NEW u \in URIs
    PROVE  /\ Append(s, u) \in Seq(URIs)
           /\ Len(Append(s, u)) = Len(s) + 1
           /\ \A i \in 1..Len(s) : Append(s, u)[i] = s[i]
           /\ Append(s, u)[Len(s) + 1] = u
BY AppendProperties

\* The values the unregister loop's record ranges over.
UnregRecords == [pc : UnregPCs, pos : Nat, size : Nat,
                 target : Engines \cup {NoEngine}]

\* A dict with no keys holds no engine.
LEMMA EmptyCached ==
    ASSUME TypeOK, CacheConsistent, Len(order) = 0
    PROVE  Cached = {}
BY DEF Cached, CacheConsistent, InOrder, TypeOK

\* The iterator's next() at position p, field by field: it raises when the
\* dict changed size, empties the dict past the end, and otherwise starts
\* disposing the engine at position p.
LEMMA IterNextCases ==
    ASSUME NEW p \in Nat, NEW size \in Nat, IterNext(p, size)
    PROVE  /\ unreg'.pos = p /\ unreg'.size = size
           /\ \/ /\ Len(order) # size /\ unreg'.pc = "raised"
                 /\ unreg'.target = NoEngine /\ UNCHANGED <<order, cache>>
              \/ /\ Len(order) = size /\ p > Len(order)
                 /\ order' = <<>> /\ cache' = [u \in URIs |-> NoEngine]
                 /\ unreg'.pc = "idle" /\ unreg'.target = NoEngine
              \/ /\ Len(order) = size /\ p <= Len(order)
                 /\ unreg'.pc = "disposing" /\ unreg'.target = cache[order[p]]
                 /\ UNCHANGED <<order, cache>>
<1>1. CASE Len(order) # size
  BY <1>1 DEF IterNext
<1>2. CASE Len(order) = size /\ p > Len(order)
  <2>1. ~(p <= Len(order))
    BY <1>2
  <2>2. QED
    BY <1>2, <2>1 DEF IterNext
<1>3. CASE Len(order) = size /\ p <= Len(order)
  <2>1. ~(p > Len(order))
    BY <1>3
  <2>2. QED
    BY <1>3, <2>1 DEF IterNext
<1>4. \/ Len(order) # size
      \/ Len(order) = size /\ p > Len(order)
      \/ Len(order) = size /\ p <= Len(order)
  OBVIOUS
<1>5. QED
  BY <1>1, <1>2, <1>3, <1>4

\* next() keeps the dict and the loop well typed: the dict's keys stay the
\* uris with a created engine, and the engine it starts disposing was
\* created.
LEMMA IterNextType ==
    ASSUME TypeInv, NEW p \in Nat \ {0}, NEW size \in Nat, IterNext(p, size)
    PROVE  /\ order' \in Seq(URIs)
           /\ cache' \in [URIs -> Engines \cup {NoEngine}]
           /\ unreg' \in UnregRecords
           /\ CacheConsistent'
           /\ \A u \in URIs : cache'[u] # NoEngine => cache'[u] \in 1..created
           /\ unreg'.pc = "disposing" => unreg'.target \in 1..created
           /\ unreg'.pos >= 1
<1>1. unreg' = [pc |-> unreg'.pc, pos |-> p, size |-> size,
                target |-> unreg'.target]
  BY DEF IterNext
<1>2. CASE Len(order) # size /\ unreg'.pc = "raised"
           /\ unreg'.target = NoEngine /\ UNCHANGED <<order, cache>>
  BY <1>1, <1>2 DEF TypeInv, TypeOK, UnregRecords, UnregPCs, EnginesCreated,
                    CacheConsistent, InOrder
<1>3. CASE /\ order' = <<>> /\ cache' = [u \in URIs |-> NoEngine]
           /\ unreg'.pc = "idle" /\ unreg'.target = NoEngine
  <2>1. order' \in Seq(URIs) /\ Len(order') = 0
    BY <1>3, EmptySeq, Zenon
  <2>2. QED
    BY <1>1, <1>3, <2>1 DEF TypeInv, TypeOK, UnregRecords, UnregPCs,
                            CacheConsistent, InOrder
<1>4. CASE /\ p <= Len(order)
           /\ unreg'.pc = "disposing" /\ unreg'.target = cache[order[p]]
           /\ UNCHANGED <<order, cache>>
  <2>1. cache[order[p]] \in 1..created
    BY <1>4 DEF TypeInv, TypeOK, CacheConsistent, EnginesCreated
  <2>2. QED
    BY <1>1, <1>4, <2>1 DEF TypeInv, TypeOK, UnregRecords, UnregPCs,
                            Engines, EnginesCreated, CacheConsistent, InOrder
<1>5. QED
  BY <1>2, <1>3, <1>4, IterNextCases

\* get_db inserting an engine for a uri with none keeps the dict's keys the
\* uris with an engine, and its engines created.
LEMMA InsertKeeps ==
    ASSUME TypeOK, EnginesCreated, CacheConsistent, NEW u \in URIs,
           cache[u] = NoEngine,
           cache' = [cache EXCEPT ![u] = created + 1],
           order' = Append(order, u), created' = created + 1
    PROVE  CacheConsistent' /\ \A v \in URIs : cache'[v] # NoEngine =>
                                                  cache'[v] \in 1..created'
<1>1. /\ order' \in Seq(URIs) /\ Len(order') = Len(order) + 1
      /\ \A i \in 1..Len(order) : order'[i] = order[i]
      /\ order'[Len(order) + 1] = u
  <2>1. order \in Seq(URIs)
    BY DEF TypeOK
  <2>2. QED
    BY <2>1, AppendKey, Zenon
<1>2. \A i \in 1..Len(order) : order[i] # u
  BY DEF CacheConsistent, TypeOK
<1>3. created + 1 # NoEngine /\ created \in Nat
  BY DEF TypeOK
<1>4. \A v \in URIs : cache'[v] = IF v = u THEN created + 1 ELSE cache[v]
  BY DEF TypeOK
<1>5. \A i \in 1..Len(order') : cache'[order'[i]] # NoEngine
  <2> SUFFICES ASSUME NEW i \in 1..Len(order') PROVE cache'[order'[i]] # NoEngine
    OBVIOUS
  <2>1. CASE i <= Len(order)
    BY <1>1, <1>2, <1>3, <1>4, <2>1 DEF CacheConsistent, TypeOK
  <2>2. CASE i = Len(order) + 1
    BY <1>1, <1>3, <1>4, <2>2
  <2>3. QED
    BY <1>1, <2>1, <2>2 DEF TypeOK
<1>6. \A v \in URIs : cache'[v] # NoEngine => InOrder(v)'
  <2> SUFFICES ASSUME NEW v \in URIs, cache'[v] # NoEngine PROVE InOrder(v)'
    OBVIOUS
  <2>1. CASE v = u
    BY <1>1, <2>1 DEF InOrder, TypeOK
  <2>2. CASE v # u
    <3>1. PICK i \in 1..Len(order) : order[i] = v
      BY <1>4, <2>2 DEF CacheConsistent, InOrder
    <3>2. QED
      BY <1>1, <3>1 DEF InOrder, TypeOK
  <2>3. QED
    BY <2>1, <2>2
<1>7. \A v \in URIs : cache'[v] # NoEngine => cache'[v] \in 1..created'
  BY <1>3, <1>4 DEF EnginesCreated
<1>8. QED
  BY <1>5, <1>6, <1>7 DEF CacheConsistent

\* Without force_new, get_db either stores a new engine under a uri that has
\* none, appending the uri to the dict, or hands out the cached engine.
LEMMA OpenSessionCases ==
    ASSUME ~ForceNew, NEW r \in Requests, OpenSession(r)
    PROVE  /\ req[r].pc = "idle" /\ (Graceful => ~ShutdownRunning)
           /\ UNCHANGED <<pooled, unreg, shutdowns, disposed>>
           /\ \E u \in URIs :
                 \/ /\ cache[u] = NoEngine /\ created < MaxEngines
                    /\ created' = created + 1
                    /\ cache' = [cache EXCEPT ![u] = created + 1]
                    /\ order' = Append(order, u)
                    /\ req' = [req EXCEPT ![r] = [pc |-> "open",
                                                  engine |-> created + 1]]
                 \/ /\ cache[u] # NoEngine
                    /\ req' = [req EXCEPT ![r] = [pc |-> "open",
                                                  engine |-> cache[u]]]
                    /\ UNCHANGED <<cache, order, created>>
BY DEF OpenSession

-----------------------------------------------------------------------------
(* Typing, with or without force_new.                                      *)

\* get_db keeps the strengthened typing invariant.
LEMMA OpenSessionType ==
    ASSUME TypeInv, NEW r \in Requests, OpenSession(r) PROVE TypeInv'
<1> USE DEF TypeInv
<1>1. PICK u \in URIs, fn \in IF ForceNew THEN BOOLEAN ELSE {FALSE} :
          IF fn \/ cache[u] = NoEngine
          THEN /\ created < MaxEngines
               /\ created' = created + 1
               /\ cache' = [cache EXCEPT ![u] = created + 1]
               /\ order' = IF cache[u] = NoEngine THEN Append(order, u)
                                                 ELSE order
               /\ req' = [req EXCEPT ![r] = [pc |-> "open",
                                             engine |-> created + 1]]
          ELSE /\ req' = [req EXCEPT ![r] = [pc |-> "open",
                                             engine |-> cache[u]]]
               /\ UNCHANGED <<cache, order, created>>
  BY DEF OpenSession
<1>2. /\ UNCHANGED <<pooled, unreg, shutdowns, disposed>>
      /\ req[r].pc = "idle"
  BY DEF OpenSession
<1>3. CASE cache[u] = NoEngine
  <2>1. /\ created < MaxEngines /\ created' = created + 1
        /\ cache' = [cache EXCEPT ![u] = created + 1]
        /\ order' = Append(order, u)
        /\ req' = [req EXCEPT ![r] = [pc |-> "open", engine |-> created + 1]]
    BY <1>1, <1>3
  <2>2. CacheConsistent' /\ \A v \in URIs : cache'[v] # NoEngine =>
                                               cache'[v] \in 1..created'
    BY <1>3, <2>1, InsertKeeps
  <2>3. order' \in Seq(URIs)
    BY <2>1, AppendKey DEF TypeOK
  <2>4. TypeOK'
    BY <1>2, <2>1, <2>3 DEF TypeOK, Engines, ReqPCs
  <2>5. EnginesCreated'
    BY <1>2, <2>1, <2>2 DEF EnginesCreated, TypeOK
  <2>6. QED
    BY <1>2, <2>2, <2>4, <2>5 DEF ShutdownRunning
<1>4. CASE cache[u] # NoEngine /\ fn
  <2>1. /\ created < MaxEngines /\ created' = created + 1
        /\ cache' = [cache EXCEPT ![u] = created + 1]
        /\ order' = order
        /\ req' = [req EXCEPT ![r] = [pc |-> "open", engine |-> created + 1]]
    BY <1>1, <1>4
  <2>2. TypeOK'
    BY <1>2, <2>1 DEF TypeOK, Engines, ReqPCs
  <2>3. EnginesCreated'
    BY <1>2, <2>1 DEF EnginesCreated, TypeOK
  <2>4. CacheConsistent'
    BY <1>4, <2>1 DEF CacheConsistent, InOrder, TypeOK
  <2>5. QED
    BY <1>2, <2>2, <2>3, <2>4 DEF ShutdownRunning
<1>5. CASE cache[u] # NoEngine /\ ~fn
  <2>1. /\ req' = [req EXCEPT ![r] = [pc |-> "open", engine |-> cache[u]]]
        /\ UNCHANGED <<cache, order, created>>
    BY <1>1, <1>5
  <2>2. cache[u] \in 1..created
    BY <1>5 DEF EnginesCreated
  <2>3. TypeOK'
    BY <1>2, <2>1, <2>2 DEF TypeOK, Engines, ReqPCs
  <2>4. EnginesCreated'
    BY <1>2, <2>1, <2>2 DEF EnginesCreated, TypeOK
  <2>5. QED
    BY <1>2, <2>1, <2>3, <2>4 DEF CacheConsistent, InOrder, ShutdownRunning
<1>6. QED
  BY <1>3, <1>4, <1>5

\* unregister_global_engine's steps keep the strengthened typing invariant.
LEMMA UnregType ==
    ASSUME TypeInv, StartUnregister \/ UnregDispose PROVE TypeInv'
<1>1. CASE StartUnregister
  <2>1. /\ IterNext(1, Len(order))
        /\ shutdowns' = shutdowns + 1 /\ shutdowns < MaxShutdowns
        /\ disposed' = {}
        /\ UNCHANGED <<created, pooled, req>>
    BY <1>1 DEF StartUnregister
  <2>2. Len(order) \in Nat
    BY DEF TypeInv, TypeOK
  <2>3. /\ order' \in Seq(URIs)
        /\ cache' \in [URIs -> Engines \cup {NoEngine}]
        /\ unreg' \in UnregRecords
        /\ CacheConsistent'
        /\ \A u \in URIs : cache'[u] # NoEngine => cache'[u] \in 1..created
        /\ unreg'.pc = "disposing" => unreg'.target \in 1..created
        /\ unreg'.pos >= 1
    BY <2>1, <2>2, IterNextType
  <2>4. QED
    BY <2>1, <2>3 DEF TypeInv, TypeOK, UnregRecords, EnginesCreated,
                      ShutdownRunning
<1>2. CASE UnregDispose
  <2>1. /\ unreg.pc = "disposing"
        /\ pooled' = pooled \ {unreg.target}
        /\ disposed' = disposed \cup {unreg.target}
        /\ IterNext(unreg.pos + 1, unreg.size)
        /\ UNCHANGED <<created, req, shutdowns>>
    BY <1>2 DEF UnregDispose
  <2>2. /\ unreg.target \in 1..created /\ created <= MaxEngines
        /\ unreg.pos + 1 \in Nat \ {0} /\ unreg.size \in Nat
    BY <2>1 DEF TypeInv, EnginesCreated, TypeOK
  <2>3. /\ order' \in Seq(URIs)
        /\ cache' \in [URIs -> Engines \cup {NoEngine}]
        /\ unreg' \in UnregRecords
        /\ CacheConsistent'
        /\ \A u \in URIs : cache'[u] # NoEngine => cache'[u] \in 1..created
        /\ unreg'.pc = "disposing" => unreg'.target \in 1..created
        /\ unreg'.pos >= 1
    BY <2>1, <2>2, IterNextType
  <2>4. pooled' \subseteq 1..created' /\ disposed' \subseteq Engines
    <3>1. /\ pooled' = pooled \ {unreg.target}
          /\ disposed' = disposed \cup {unreg.target}
          /\ created' = created
      BY <2>1
    <3>2. unreg.target \in Engines /\ disposed \subseteq Engines
      BY <2>2 DEF TypeInv, TypeOK, Engines
    <3>3. pooled \subseteq 1..created
      BY DEF TypeInv, TypeOK
    <3>4. QED
      BY <3>1, <3>2, <3>3
  <2>5. QED
    BY <2>1, <2>3, <2>4 DEF TypeInv, TypeOK, UnregRecords, EnginesCreated,
                            ShutdownRunning
<1>3. QED
  BY <1>1, <1>2

\* Every step keeps the strengthened typing invariant.
LEMMA TypeInvNext == TypeInv /\ [Next]_vars => TypeInv'
<1> SUFFICES ASSUME TypeInv, [Next]_vars PROVE TypeInv'
  OBVIOUS
<1>1. ASSUME NEW r \in Requests, OpenSession(r) PROVE TypeInv'
  BY <1>1, OpenSessionType
<1>2. ASSUME NEW r \in Requests, Execute(r) PROVE TypeInv'
  <2>1. req[r].engine \in 1..created
    BY <1>2 DEF Execute, TypeInv, EnginesCreated
  <2>2. /\ pooled' = pooled \cup {req[r].engine}
        /\ req' = [req EXCEPT ![r].pc = "busy"]
        /\ UNCHANGED <<disposed, order, cache, created, unreg, shutdowns>>
    BY <1>2 DEF Execute
  <2>3. TypeOK'
    BY <2>1, <2>2 DEF TypeInv, TypeOK, ReqPCs
  <2>4. EnginesCreated'
    BY <2>1, <2>2 DEF TypeInv, TypeOK, EnginesCreated
  <2>5. QED
    BY <2>2, <2>3, <2>4 DEF TypeInv, CacheConsistent, InOrder, ShutdownRunning
<1>3. ASSUME NEW r \in Requests, CloseSession(r) PROVE TypeInv'
  BY <1>3 DEF CloseSession, TypeInv, TypeOK, ReqPCs, EnginesCreated,
              CacheConsistent, InOrder, ShutdownRunning
<1>4. CASE StartUnregister \/ UnregDispose
  BY <1>4, UnregType
<1>5. CASE UNCHANGED vars
  BY <1>5 DEF vars, TypeInv, TypeOK, EnginesCreated, CacheConsistent,
              InOrder, ShutdownRunning
<1>6. QED
  BY <1>1, <1>2, <1>3, <1>4, <1>5 DEF Next

\* The initial state satisfies the strengthened typing invariant.
LEMMA TypeInvInit == Init => TypeInv
BY EmptySeq DEF Init, TypeInv, TypeOK, ReqPCs, UnregPCs, EnginesCreated,
                CacheConsistent, InOrder, ShutdownRunning

(* Whatever the interleaving of requests and shutdowns, and whether or not *)
(* callers pass force_new, GLOBAL_ENGINE, the requests' engines, the pools *)
(* and the unregister loop always hold values of their types.             *)
THEOREM TypeCorrect == Spec => []TypeOK
<1>1. TypeInv => TypeOK
  BY DEF TypeInv
<1>2. QED
  BY TypeInvInit, TypeInvNext, <1>1, PTL DEF Spec

-----------------------------------------------------------------------------
(* No orphaned pool, under graceful shutdown and without force_new.        *)

\* Storing a new engine under a uri that had none keeps every cached engine
\* cached and caches the new one.
LEMMA CachedGrows ==
    ASSUME TypeOK, NEW u \in URIs, cache[u] = NoEngine,
           cache' = [cache EXCEPT ![u] = created + 1]
    PROVE  Cached \subseteq Cached' /\ created + 1 \in Cached'
BY DEF Cached, TypeOK

\* get_db keeps PoolInv: it runs only while no shutdown does, and hands
\* out, or stores and hands out, an engine of the dict.
LEMMA OpenSessionPool ==
    ASSUME Graceful, ~ForceNew, PoolInv, NEW r \in Requests, OpenSession(r),
           TypeInv'
    PROVE  PoolInv'
<1>1. /\ req[r].pc = "idle" /\ ~ShutdownRunning /\ ~ShutdownRunning'
      /\ unreg'.pc = unreg.pc /\ pooled' = pooled
  BY OpenSessionCases DEF ShutdownRunning
<1>2. PICK u \in URIs :
         \/ /\ cache[u] = NoEngine
            /\ cache' = [cache EXCEPT ![u] = created + 1]
            /\ req' = [req EXCEPT ![r] = [pc |-> "open", engine |-> created + 1]]
         \/ /\ cache[u] # NoEngine
            /\ req' = [req EXCEPT ![r] = [pc |-> "open", engine |-> cache[u]]]
            /\ cache' = cache
  BY OpenSessionCases
<1>3. Cached \subseteq Cached' /\ req'[r].engine \in Cached'
  <2>1. CASE cache[u] = NoEngine
    BY <1>2, <2>1, CachedGrows DEF PoolInv, TypeInv, TypeOK
  <2>2. CASE cache[u] # NoEngine
    BY <1>2, <2>2 DEF Cached, PoolInv, TypeInv, TypeOK
  <2>3. QED
    BY <2>1, <2>2
<1>4. req' = [req EXCEPT ![r] = [pc |-> "open", engine |-> req'[r].engine]]
  BY <1>2 DEF PoolInv, TypeInv, TypeOK
<1>5. \A s \in Requests : req'[s].pc # "idle" => req'[s].engine \in Cached'
  BY <1>3, <1>4 DEF PoolInv, TypeInv, TypeOK
<1>6. QED
  BY <1>1, <1>3, <1>5 DEF PoolInv, ShutdownRunning

\* A query checks out a connection only from a request's engine, which is
\* cached; no request runs during a graceful shutdown.
LEMMA ExecutePool ==
    ASSUME Graceful, PoolInv, NEW r \in Requests, Execute(r), TypeInv'
    PROVE  PoolInv'
<1>1. /\ req[r].pc = "open" /\ req[r].engine \in Cached /\ ~ShutdownRunning
  BY DEF Execute, PoolInv
<1>2. /\ pooled' = pooled \cup {req[r].engine}
      /\ req' = [req EXCEPT ![r].pc = "busy"]
      /\ UNCHANGED <<order, cache, unreg>>
  BY DEF Execute
<1>3. \A s \in Requests : req'[s].pc # "idle" => req'[s].engine \in Cached'
  BY <1>1, <1>2 DEF PoolInv, TypeInv, TypeOK, Cached
<1>4. pooled' \subseteq Cached'
  BY <1>1, <1>2 DEF PoolInv, Cached
<1>5. QED
  BY <1>1, <1>2, <1>3, <1>4 DEF PoolInv, ShutdownRunning

\* Closing a session leaves the pools and the dict as they are.
LEMMA ClosePool ==
    ASSUME PoolInv, NEW r \in Requests, CloseSession(r), TypeInv'
    PROVE  PoolInv'
<1>1. /\ req' = [req EXCEPT ![r] = [pc |-> "idle", engine |-> NoEngine]]
      /\ UNCHANGED <<order, cache, unreg, pooled>>
  BY DEF CloseSession
<1>2. \A s \in Requests : req'[s].pc # "idle" => req'[s].engine \in Cached'
  BY <1>1 DEF PoolInv, TypeInv, TypeOK, Cached
<1>3. ShutdownRunning => \A s \in Requests : req'[s].pc = "idle"
  BY <1>1 DEF PoolInv, TypeInv, TypeOK
<1>4. QED
  BY <1>1, <1>2, <1>3 DEF PoolInv, ShutdownRunning, Remaining, Cached

\* The end of `await engine.dispose()`, before the next() that follows it.
LEMMA UnregDisposeFields ==
    ASSUME TypeOK, UnregDispose
    PROVE  /\ unreg.pc = "disposing"
           /\ pooled' = pooled \ {unreg.target}
           /\ disposed' = disposed \cup {unreg.target}
           /\ UNCHANGED <<created, req, shutdowns>>
           /\ unreg.pos + 1 \in Nat /\ unreg.size \in Nat
           /\ IterNext(unreg.pos + 1, unreg.size)
BY DEF UnregDispose, TypeOK

\* The dict's keys reach every cached engine.
LEMMA CachedInOrder ==
    ASSUME TypeOK, CacheConsistent
    PROVE  Cached = {cache[order[i]] : i \in 1..Len(order)}
BY DEF Cached, CacheConsistent, InOrder, TypeOK

\* A graceful unregister_global_engine starts only when no request runs;
\* its iteration cannot raise, and reaches every engine with a pool.
LEMMA StartUnregisterPool ==
    ASSUME Graceful, PoolInv, StartUnregister, TypeInv'
    PROVE  PoolInv'
<1>1. /\ \A r \in Requests : req[r].pc = "idle"
      /\ ~ShutdownRunning
      /\ IterNext(1, Len(order))
      /\ UNCHANGED <<pooled, req>>
  BY DEF StartUnregister, ShutdownRunning
<1>2. pooled \subseteq {cache[order[i]] : i \in 1..Len(order)}
  BY <1>1, CachedInOrder DEF PoolInv, TypeInv
<1>3. Len(order) \in Nat
  BY DEF PoolInv, TypeInv, TypeOK
<1>4. /\ unreg'.pos = 1 /\ unreg'.size = Len(order)
      /\ \/ /\ 1 > Len(order) /\ unreg'.pc = "idle"
         \/ /\ 1 <= Len(order)
            /\ unreg'.pc = "disposing" /\ unreg'.target = cache[order[1]]
            /\ UNCHANGED <<order, cache>>
  BY <1>1, <1>3, IterNextCases
<1>5. CASE 1 > Len(order) /\ unreg'.pc = "idle"
  <2>1. pooled = {}
    BY <1>2, <1>3, <1>5
  <2>2. QED
    BY <1>1, <1>5, <2>1 DEF PoolInv, ShutdownRunning
<1>6. CASE 1 <= Len(order) /\ unreg'.pc = "disposing"
  <2>1. /\ unreg'.target = cache[order[1]]
        /\ UNCHANGED <<order, cache>>
    BY <1>4, <1>6
  <2>2. Remaining' = {cache[order[i]] : i \in 1..Len(order)}
    BY <1>4, <2>1 DEF Remaining
  <2>3. QED
    BY <1>1, <1>2, <1>4, <1>6, <2>1, <2>2 DEF PoolInv, ShutdownRunning
<1>7. QED
  BY <1>4, <1>5, <1>6

\* Once `await engine.dispose()` has closed the engine's pool, the pools
\* holding connections belong to engines later in the iteration; past the
\* last engine none is left, and the dict is emptied.
LEMMA UnregDisposePool ==
    ASSUME PoolInv, UnregDispose, TypeInv'
    PROVE  PoolInv'
<1>1. /\ unreg.pc = "disposing"
      /\ pooled' = pooled \ {unreg.target}
      /\ UNCHANGED <<created, req, shutdowns>>
      /\ unreg.pos + 1 \in Nat /\ unreg.size \in Nat
      /\ IterNext(unreg.pos + 1, unreg.size)
  BY UnregDisposeFields DEF PoolInv, TypeInv
<1>2. /\ \A r \in Requests : req[r].pc = "idle"
      /\ unreg.size = Len(order) /\ pooled \subseteq Remaining
      /\ unreg.pos <= Len(order) /\ unreg.target = cache[order[unreg.pos]]
      /\ unreg.pos >= 1
  BY <1>1 DEF PoolInv, ShutdownRunning, TypeInv
<1>3. /\ unreg'.pos = unreg.pos + 1 /\ unreg'.size = unreg.size
      /\ \/ /\ unreg.pos + 1 > Len(order) /\ unreg'.pc = "idle"
         \/ /\ unreg.pos + 1 <= Len(order)
            /\ unreg'.pc = "disposing"
            /\ unreg'.target = cache[order[unreg.pos + 1]]
            /\ UNCHANGED <<order, cache>>
  BY <1>1, <1>2, IterNextCases
<1>4. CASE unreg.pos + 1 > Len(order) /\ unreg'.pc = "idle"
  <2>1. pooled' = {}
    BY <1>1, <1>2, <1>4 DEF Remaining, PoolInv, TypeInv, TypeOK
  <2>2. QED
    BY <1>1, <1>2, <1>4, <2>1 DEF PoolInv, ShutdownRunning
<1>5. CASE unreg.pos + 1 <= Len(order) /\ unreg'.pc = "disposing"
  <2>1. /\ unreg'.target = cache[order[unreg.pos + 1]]
        /\ UNCHANGED <<order, cache>>
    BY <1>3, <1>5
  <2>2. pooled' \subseteq Remaining'
    BY <1>1, <1>2, <1>3, <2>1 DEF Remaining, PoolInv, TypeInv, TypeOK
  <2>3. QED
    BY <1>1, <1>2, <1>3, <1>5, <2>1, <2>2 DEF PoolInv, ShutdownRunning
<1>6. QED
  BY <1>3, <1>4, <1>5

\* Under graceful shutdown and without force_new, every step keeps PoolInv.
LEMMA PoolNext ==
    ASSUME Graceful, ~ForceNew
    PROVE  PoolInv /\ [Next]_vars => PoolInv'
<1> SUFFICES ASSUME PoolInv, [Next]_vars PROVE PoolInv'
  OBVIOUS
<1>1. TypeInv'
  BY TypeInvNext DEF PoolInv
<1>2. ASSUME NEW r \in Requests, OpenSession(r) PROVE PoolInv'
  BY <1>1, <1>2, OpenSessionPool
<1>3. ASSUME NEW r \in Requests, Execute(r) PROVE PoolInv'
  BY <1>1, <1>3, ExecutePool
<1>4. ASSUME NEW r \in Requests, CloseSession(r) PROVE PoolInv'
  BY <1>1, <1>4, ClosePool
<1>5. CASE StartUnregister
  BY <1>1, <1>5, StartUnregisterPool
<1>6. CASE UnregDispose
  BY <1>1, <1>6, UnregDisposePool
<1>7. CASE UNCHANGED vars
  BY <1>1, <1>7 DEF vars, PoolInv, ShutdownRunning, Remaining, Cached
<1>8. QED
  BY <1>2, <1>3, <1>4, <1>5, <1>6, <1>7 DEF Next

\* PoolInv holds initially.
LEMMA PoolInit == Init => PoolInv
BY TypeInvInit, EmptySeq DEF Init, PoolInv, ShutdownRunning, Cached

(* With graceful shutdown (the app stops serving before its shutdown hook *)
(* calls unregister_global_engine) and no caller passing force_new, no     *)
(* connection pool is ever orphaned: every engine whose pool holds        *)
(* connections is in GLOBAL_ENGINE or held by a running request. Both      *)
(* assumptions are needed: with Graceful = FALSE or ForceNew = TRUE, TLC  *)
(* finds an orphaned pool on the instance of MCEngineCache.               *)
THEOREM NoOrphanPoolCorrect ==
    ASSUME Graceful, ~ForceNew PROVE Spec => []NoOrphanPool
<1>1. PoolInv => NoOrphanPool
  <2> SUFFICES ASSUME PoolInv PROVE NoOrphanPool
    OBVIOUS
  <2>1. ShutdownRunning => Remaining \subseteq Cached
    BY DEF Remaining, Cached, PoolInv, TypeInv, CacheConsistent, TypeOK
  <2>2. pooled \subseteq Cached
    BY <2>1 DEF PoolInv
  <2>3. QED
    BY <2>2 DEF NoOrphanPool, Reachable, Cached
<1>2. PoolInv /\ [Next]_vars => PoolInv'
  BY PoolNext
<1>3. QED
  BY PoolInit, <1>1, <1>2, PTL DEF Spec

(* Under graceful shutdown and without force_new: a request holds only an *)
(* engine of GLOBAL_ENGINE, a running unregister_global_engine sees no    *)
(* request and a dict of the size it started with, and every pool holding *)
(* connections belongs to an engine the loop has still to dispose.        *)
THEOREM PoolInvCorrect ==
    ASSUME Graceful, ~ForceNew PROVE Spec => []PoolInv
BY PoolInit, PoolNext, PTL DEF Spec

-----------------------------------------------------------------------------
(* Every engine dropped was disposed, without force_new.                   *)

\* get_db storing a new engine grows the dict, which the running iteration
\* then finds changed; handing out a cached engine changes nothing it reads.
LEMMA OpenSessionDisposed ==
    ASSUME ~ForceNew, DisposedInv, NEW r \in Requests, OpenSession(r), TypeInv'
    PROVE  DisposedInv'
<1>1. UNCHANGED <<unreg, disposed>>
  BY OpenSessionCases
<1>2. PICK u \in URIs :
         \/ /\ cache[u] = NoEngine
            /\ order' = Append(order, u)
         \/ UNCHANGED <<cache, order>>
  BY OpenSessionCases
<1>3. CASE UNCHANGED <<cache, order>>
  BY <1>1, <1>3 DEF DisposedInv, ShutdownRunning
<1>4. CASE cache[u] = NoEngine /\ order' = Append(order, u)
  <2>1. Len(order') = Len(order) + 1
    <3>1. Len(Append(order, u)) = Len(order) + 1
      BY AppendKey DEF DisposedInv, TypeInv, TypeOK
    <3>2. QED
      BY <1>4, <3>1, Zenon
  <2>2. ShutdownRunning => unreg.size <= Len(order)
    BY DEF DisposedInv
  <2>3. ShutdownRunning' => /\ unreg'.size <= Len(order')
                            /\ unreg'.size # Len(order')
    BY <1>1, <2>1, <2>2 DEF ShutdownRunning, DisposedInv, TypeInv, TypeOK
  <2>4. QED
    BY <2>3 DEF DisposedInv, ShutdownRunning
<1>5. QED
  BY <1>2, <1>3, <1>4

\* A request's query or close leaves the dict and the loop as they are.
LEMMA RequestDisposed ==
    ASSUME DisposedInv, NEW r \in Requests, Execute(r) \/ CloseSession(r),
           TypeInv'
    PROVE  DisposedInv'
<1>1. UNCHANGED <<order, cache, unreg, disposed>>
  BY DEF Execute, CloseSession
<1>2. QED
  BY <1>1 DEF DisposedInv, ShutdownRunning

\* The iteration starts at the first key of the dict, nothing disposed yet:
\* next() either returns at once, over an empty dict, or starts disposing
\* the first engine.
LEMMA StartUnregisterDisposed ==
    ASSUME DisposedInv, StartUnregister, TypeInv'
    PROVE  DisposedInv'
<1>1. /\ IterNext(1, Len(order)) /\ disposed' = {}
      /\ Len(order) \in Nat
  BY DEF StartUnregister, DisposedInv, TypeInv, TypeOK
<1>2. /\ unreg'.pos = 1 /\ unreg'.size = Len(order)
      /\ \/ unreg'.pc = "idle"
         \/ /\ 1 <= Len(order)
            /\ unreg'.pc = "disposing" /\ unreg'.target = cache[order[1]]
            /\ UNCHANGED <<order, cache>>
  BY <1>1, IterNextCases
<1>3. QED
  BY <1>2 DEF DisposedInv, ShutdownRunning

\* Disposing the engine at the loop's position adds it to the engines this
\* call disposed; the next() after it raises, returns, or moves to the next
\* engine of a dict that kept its size.
LEMMA UnregDisposeDisposed ==
    ASSUME DisposedInv, UnregDispose, TypeInv'
    PROVE  DisposedInv'
<1>1. /\ unreg.pc = "disposing"
      /\ disposed' = disposed \cup {unreg.target}
      /\ unreg.pos + 1 \in Nat /\ unreg.size \in Nat
      /\ IterNext(unreg.pos + 1, unreg.size)
  BY UnregDisposeFields DEF DisposedInv, TypeInv
<1>2. /\ unreg'.pos = unreg.pos + 1 /\ unreg'.size = unreg.size
      /\ \/ unreg'.pc \in {"raised", "idle"}
         \/ /\ Len(order) = unreg.size /\ unreg.pos + 1 <= Len(order)
            /\ unreg'.pc = "disposing"
            /\ unreg'.target = cache[order[unreg.pos + 1]]
            /\ UNCHANGED <<order, cache>>
  BY <1>1, IterNextCases
<1>3. CASE unreg'.pc \in {"raised", "idle"}
  BY <1>3 DEF DisposedInv, ShutdownRunning
<1>4. CASE /\ Len(order) = unreg.size /\ unreg.pos + 1 <= Len(order)
           /\ unreg'.pc = "disposing"
           /\ unreg'.target = cache[order[unreg.pos + 1]]
           /\ UNCHANGED <<order, cache>>
  <2>1. /\ \A i \in 1..Len(order) : i < unreg.pos => cache[order[i]] \in disposed
        /\ unreg.target = cache[order[unreg.pos]]
    BY <1>1, <1>4 DEF DisposedInv, ShutdownRunning
  <2>2. \A i \in 1..Len(order) : i < unreg.pos + 1 => cache[order[i]] \in disposed'
    BY <1>1, <2>1 DEF DisposedInv, TypeInv, TypeOK
  <2>3. QED
    BY <1>2, <1>4, <2>2 DEF DisposedInv, ShutdownRunning
<1>5. QED
  BY <1>2, <1>3, <1>4

\* Without force_new, every step keeps DisposedInv.
LEMMA DisposedNext ==
    ASSUME ~ForceNew PROVE DisposedInv /\ [Next]_vars => DisposedInv'
<1> SUFFICES ASSUME DisposedInv, [Next]_vars PROVE DisposedInv'
  OBVIOUS
<1>1. TypeInv'
  BY TypeInvNext DEF DisposedInv
<1>2. ASSUME NEW r \in Requests, OpenSession(r) PROVE DisposedInv'
  BY <1>1, <1>2, OpenSessionDisposed
<1>3. ASSUME NEW r \in Requests, Execute(r) \/ CloseSession(r)
      PROVE DisposedInv'
  BY <1>1, <1>3, RequestDisposed
<1>4. CASE StartUnregister
  BY <1>1, <1>4, StartUnregisterDisposed
<1>5. CASE UnregDispose
  BY <1>1, <1>5, UnregDisposeDisposed
<1>6. CASE UNCHANGED vars
  BY <1>1, <1>6 DEF vars, DisposedInv, ShutdownRunning
<1>7. QED
  BY <1>2, <1>3, <1>4, <1>5, <1>6 DEF Next

\* DisposedInv holds initially.
LEMMA DisposedInit == Init => DisposedInv
BY TypeInvInit DEF Init, DisposedInv, ShutdownRunning

\* A step that leaves the dict as it was empties nothing: an empty dict
\* holds no engine.
LEMMA ClearKeep ==
    ASSUME TypeInv, order' = order, order' = <<>>
    PROVE  Cached = {}
<1>1. Len(order) = 0
  BY EmptySeq, Zenon
<1>2. QED
  BY <1>1, EmptyCached DEF TypeInv

\* The only step that empties a non-empty dict is the next() after the
\* last dispose of an iteration over a dict of unchanged size: all of its
\* engines were disposed by this call, the last one in this very step.
LEMMA ClearStep ==
    ASSUME ~ForceNew
    PROVE  DisposedInv /\ [Next]_vars =>
              [order' = <<>> =>
                  {cache[u] : u \in URIs} \ {NoEngine} \subseteq disposed']_vars
<1> SUFFICES ASSUME DisposedInv, [Next]_vars, order' = <<>>
             PROVE  Cached \subseteq disposed'
  BY DEF Cached
<1>1. CASE order' = order
  BY <1>1, ClearKeep DEF DisposedInv
<1>2. CASE order' # order
  <2>1. ASSUME NEW r \in Requests, OpenSession(r) PROVE FALSE
    <3>1. PICK u \in URIs : order' = Append(order, u) \/ order' = order
      BY <2>1, OpenSessionCases
    <3>2. Len(Append(order, u)) = Len(order) + 1 /\ Len(order) \in Nat
      BY AppendKey DEF DisposedInv, TypeInv, TypeOK
    <3>3. Len(order') = 0
      BY EmptySeq, Zenon
    <3>4. QED
      BY <1>2, <3>1, <3>2, <3>3
  <2>2. ASSUME NEW r \in Requests, Execute(r) \/ CloseSession(r) PROVE FALSE
    BY <1>2, <2>2 DEF Execute, CloseSession
  <2>3. ~UNCHANGED vars
    BY <1>2 DEF vars
  <2>4. ASSUME StartUnregister PROVE FALSE
    <3>1. IterNext(1, Len(order)) /\ Len(order) \in Nat
      BY <2>4 DEF StartUnregister, DisposedInv, TypeInv, TypeOK
    <3>2. \/ order' = order
          \/ 1 > Len(order) /\ order' = <<>>
      BY <3>1, IterNextCases
    <3>3. Len(order) = 0 => order = <<>>
      BY EmptySeq DEF DisposedInv, TypeInv, TypeOK
    <3>4. QED
      BY <1>2, <3>2, <3>3
  <2>5. UnregDispose
    BY <2>1, <2>2, <2>3, <2>4 DEF Next
  <2>6. /\ unreg.pc = "disposing"
        /\ disposed' = disposed \cup {unreg.target}
        /\ unreg.pos + 1 \in Nat /\ unreg.size \in Nat
        /\ IterNext(unreg.pos + 1, unreg.size)
    BY <2>5, UnregDisposeFields DEF DisposedInv, TypeInv
  <2>7. Len(order) = unreg.size /\ unreg.pos + 1 > Len(order)
    BY <1>2, <2>6, IterNextCases
  <2>8. /\ \A i \in 1..Len(order) : i < unreg.pos => cache[order[i]] \in disposed
        /\ unreg.pos <= Len(order) /\ unreg.target = cache[order[unreg.pos]]
    BY <2>6, <2>7 DEF DisposedInv, ShutdownRunning
  <2>9. \A i \in 1..Len(order) : cache[order[i]] \in disposed'
    BY <2>6, <2>7, <2>8 DEF DisposedInv, TypeInv, TypeOK
  <2>10. Cached = {cache[order[i]] : i \in 1..Len(order)}
    BY CachedInOrder DEF DisposedInv, TypeInv
  <2>11. QED
    BY <2>9, <2>10
<1>3. QED
  BY <1>1, <1>2

(* Without force_new, and whether or not requests still run during the   *)
(* shutdown, whenever unregister_global_engine empties GLOBAL_ENGINE the  *)
(* call has disposed every engine the dict held: an engine stored         *)
(* mid-loop makes the iteration raise instead of being dropped.           *)
THEOREM ClearedEnginesDisposedCorrect ==
    ASSUME ~ForceNew PROVE Spec => ClearedEnginesDisposed
<1>1. DisposedInv /\ [Next]_vars => DisposedInv'
  BY DisposedNext
<1>2. DisposedInv /\ [Next]_vars =>
         [order' = <<>> =>
             {cache[u] : u \in URIs} \ {NoEngine} \subseteq disposed']_vars
  BY ClearStep
<1>3. QED
  BY DisposedInit, <1>1, <1>2, PTL DEF Spec, ClearedEnginesDisposed

(* Without force_new, whether or not requests run during the shutdown: a  *)
(* running unregister_global_engine never sees the dict shrink, and while *)
(* the dict keeps the size its iteration started with, every engine       *)
(* before the loop's position, the ones `disposed` records as disposed by *)
(* this call, was disposed, and the engine it awaits is the next one.     *)
THEOREM DisposedInvCorrect ==
    ASSUME ~ForceNew PROVE Spec => []DisposedInv
BY DisposedInit, DisposedNext, PTL DEF Spec
=============================================================================
