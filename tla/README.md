# Verification of the mountaineer / filzl client builder and runtime

This directory holds TLA+ models of the repository's client build pipeline,
the wiring of the client state runtime that pipeline generates, the database
engine cache, dependency resolution and project-template naming. It also holds
the TLC configurations that check them and TLAPS proofs of their main
invariants.
`PROJECT.json` lists every component, run, mutant, source mapping, finding,
hazard and theorem. The prose below explains them.

## 1. The system and its parts

| Part | Source | State it owns | Operations that change state |
|---|---|---|---|
| Validator | `builder.py` `validate_unique_paths` (388-422) | none (reads the controller registry and the file system) | raises on a duplicate parent directory or a missing view |
| Generation stages | `builder.py` 60-325 | the `_server` files: `api.ts`, `models.ts`, `server.tsx` in the view root, and `models.ts`, `actions.ts`, `useServer.ts` per controller | six stages in a fixed order; a schema conversion may raise part-way through |
| Build orchestrator | `builder.py` `build_javascript_chunks` (327-369) | the `_static` directory and each controller's `bundled_scripts` | clears `_static`, starts one thread per controller (bundle, hash, write script, write map, append the name), joins them |
| Global state keys | `builder.py` 424-435 | none | `underscore(class name).upper()` |
| Generated client runtime | TypeScript emitted by `builder.py` 177-325 | the `ServerContext` value the views read; React server state, one slice per controller | `ServerProvider` mounts; each view calls `useServer()`; `setControllerState` would merge a side-effect payload into a slice |
| Schema/action converters | `openapi_from_controller` and the converters (not in this source tree) | none | pure text |
| Database engine cache | `database/dependencies/core.py` | `GLOBAL_ENGINE` dict | `engine_from_config`, `get_db_session`, `unregister_global_engine` |
| Dependency resolution | `dependencies/base.py` | an `AsyncExitStack` per call | `get_function_dependencies` |
| Template formatting | `create_filzl_app/generation.py` | none | `format_template` |
| Daemon models | `filzl_daemons/models.py` | none (data declarations) | none |

Modules: `ClientBuild` (validator, generation stages, orchestrator),
`ServerState` (the generated runtime's context wiring), `EngineCache`,
`FunctionDependencies` and `TemplateName`.
Each has an `MC...` module and `.cfg` files that instantiate it for TLC.
The four `...Proofs` modules (`ClientBuildProofs`, `ClientBuildScriptsProofs`,
`EngineCacheProofs`, `FunctionDependenciesProofs`) hold the theorems.

How they interact: `ClientBuilder.build()` runs the validator, then the
generation stages, then the orchestrator. The registry (controller to
`view_path`) and the file system decide which directories the stages write to.
`get_managed_dir_common` maps a view path to a managed directory: the parent
of a page file, or the path itself if it is a directory. The generation stages
and the threads share two things. One is the file system. The other is the
controller objects, whose `bundled_scripts` list persists across builds. The
threads also run concurrently with each other.

Behaviours that make this code hard to test:
* threads writing into a directory that the main thread clears just before;
* a thread that dies with an exception that `join()` does not report;
* a schema conversion that raises while some `models.ts` are already rewritten;
* two keys that disagree: the validator groups controllers by the lexical
  parent of `view_path`, but the writers use the managed directory;
* repeated builds: `_static` is replaced wholesale while `bundled_scripts`
  only grows.

## 2. Module `ClientBuild` (the build pipeline)

**State** (`VARIABLES`):
* `registry`: controller to view path. A path is a record `[kind, dir]`, where
  `kind` is "file" for a page file in `dir` and "dir" for the directory `dir`
  itself.
* `onDisk`: the view paths that exist.
* `src`: each view's current source version.
* `pc` and `idx`: the main thread's program counter, and the controller its
  current loop is at.
* `builds`: the number of `build()` calls so far.
* `outcome`: how the last `build()` ended (none/ok/error).
* `files`: each generated `_server` file, stamped with its writer (a controller
  or the root generators) and the build that wrote it.
* `staticDir`: the set of `(script name, js|map)` entries in `_static`.
* `th`: each builder thread's program counter.
* `tname`: the script name each thread computed.
* `bundled`: each controller's `bundled_scripts`.
* `named`: a record of which code each name was computed from. It is a history
  variable and is only read by `IdempotentNaming`.

**Data abstraction.** Generated TypeScript is abstracted to "who wrote this
file and in which build". A bundle is a record `[code, ref]`. `code` is the
controller and source version. `ref` is the bundler's non-reproducible
source-map comment. `get_cleaned_js_contents` (spec-modelled: its source is
not under `src/`) clears `ref`. `md5` is injective on what the model tells
apart, so a script name is `<<ScriptBase[c], Cleaned(contents)>>`.

**Actions.** Each action is one step of `builder.py`. `MainThread`:
* `Build`: `build()` is called.
* `ValidateUniquePaths`: raises on `DuplicateViews` or `MissingViews`. Both
  lead to `outcome = "error"` and no write.
* `GenerateStaticFiles` writes the root `api.ts`.
* `GenerateModelDefinitions` writes per controller. Under `ConvertMayFail` it
  may also raise, which aborts the build.
* `GenerateActionDefinitions` writes per controller.
* `GenerateGlobalModelImports` writes the root `models.ts`.
* `GenerateServerProvider` writes the root `server.tsx`.
* `GenerateViewServers` writes per controller.
* `ClearStaticDir` runs `rmtree` and `mkdir`.
* `SpawnBuilder` starts the threads one at a time.
* `JoinBuilder` waits for a thread that finished or died. After the last one,
  the build returns ok.

`BuilderThread(c)`:
* `BundleJavascript` picks the nondeterministic `ref`. Under `BundlerMayFail`
  it may raise instead, and the thread dies.
* `WriteScript`, then `WriteMap`, then `AppendBundledScript`.

`EditSource` is the developer editing a view between builds.

The per-controller loops are kept as loops (`idx` with `LoopNext`). So the
interleaving of the threads with the main thread's spawn/join loops is explored
step by step, and so is a conversion failure at each controller.

## 3. Runs of `ClientBuild`

All runs use `MCClientBuild`, which has these bounds:
* 2 controllers;
* directories `views` (the view root), `home` and `dash` below it, and
  `outside` above it;
* 2 source versions, 2 possible source-map refs and 2 builds.

Two builds are the least that shows rebuild effects (stale names, idempotent
naming, files from an older build). Two controllers are the least that shows
stomping and thread interleavings. Two refs are what make the source-map comment
matter. `CHECK_DEADLOCK FALSE` is set because the builder is idle for good once
the build bound is reached.

| Run | cfg | Expect | Properties | What it shows |
|---|---|---|---|---|
| build_pages | `MCClientBuild.cfg` | pass | ManagedFilesOwned, ScriptsServable, NoOrphanArtifacts, IdempotentNaming, TypeOK, OwnedInv, ArtifactsInv, ServableInv | With page files below the root: (1) after generation, each controller's files are its own and from this build; (2) after a successful build, each controller's current script and map are in `_static`; (3) `_static` only holds artifacts of the latest build; (4) equal code always gets an equal name, whatever the ref. The last three are the inductive invariants of the proofs (section 9) |
| build_failures | `MCClientBuild_failures.cfg` | pass | NoOrphanArtifacts, ArtifactsInv | With conversion and bundler failures, `_static` still holds no orphan, and `ArtifactsInv` holds on failing builds too |
| dir_view_path | `MCClientBuild_mixed.cfg` | violation | ManagedFilesOwned | finding 1 |
| bundler_failure | `MCClientBuild_bundlerfail.cfg` | violation | ScriptsServable | finding 2 |
| rebuild_records | `MCClientBuild_rebuild.cfg` | violation | RecordedScriptsExist | finding 3 |
| conversion_abort | `MCClientBuild_convertfail.cfg` | violation | TypeFilesConsistent | finding 4 |

No fairness is assumed: every property of these runs is a safety property.

**Mutants** (in `ClientBuild`, listed in `PROJECT.json`). Each passing
property is broken by a plausible bug in the mapped code:
* validation without the duplicate check;
* joining without waiting;
* not clearing `_static`;
* hashing the uncleaned contents;
* a loop index that runs past the last controller.

The inductive invariants reuse these mutants: `ArtifactsInv` fails without
the clearing of `_static`, and `ServableInv` with the join that does not wait.
`NamingInv`, the inductive invariant behind `IdempotentNaming`, is used by
its proof only and is not a property of a run.


## 4. `ServerState` (the generated client runtime's context)

`generate_server_provider` emits `server.tsx`:
* `ServerContext = createContext<{serverState, setServerState}>(undefined as any)`;
* a `ServerProvider` whose `useState` starts from `GLOBAL_STATE[KEY]` for
  each controller key, and which renders `<ServerContext.Provider
  serverState={serverState} setServerState={setServerState}>`.

`generate_view_servers` emits each view's `useServer` hook. It begins with
`const { serverState, setServerState } = useContext(ServerContext)` and
returns the controller's slice spread with its action wrappers.

React gives `useContext` the `value` prop of the nearest Provider, or the
context's default when the Provider has no `value`. Other props are not
read. `ServerState` models exactly this wiring:
* `provider`: the `ServerProvider` is unmounted, mounted, or has thrown;
* `context`: what `useContext(ServerContext)` returns under it;
* `hook[v]`: whether view `v`'s `useServer()` call returned or threw.

`MountProvider` has two outcomes. `GLOBAL_STATE` and the bare `KEY`
identifiers are not declared in `server.tsx`, so the initialiser throws a
`ReferenceError` unless the page defines them as globals. Otherwise the
Provider mounts, and the context gets `ProvidedValue(ProviderProps)`: the
default `undefined`, since `ProviderProps` has no `value`. `UseServer(v)`
throws on destructuring `undefined` and returns otherwise.

Run `server_context_value` checks `UseServerReturns` (spec 4.5(c) and 4.6:
the provider exposes the state and its setter, and a view's hook returns
its slice). TLC finds it violated in three states: the Provider mounts, and
the first `useServer()` throws (finding 5).

The slice merge of `setControllerState` and the side-effect responses come
after the hook has obtained the context. The emitted code never gets there,
so they are not modelled.

## 5. `EngineCache` (`database/dependencies/core.py`)

Everything runs on one asyncio loop, so a step is the code between two
awaits:
* `engine_from_config` has no await and is atomic;
* `unregister_global_engine` yields at each `await engine.dispose()`.

State:
* `order` and `cache` model `GLOBAL_ENGINE` with Python's insertion order. A
  replaced value keeps its place;
* `pooled` is the set of engines whose current pool holds a connection;
* `req` holds each request task's phase;
* `unreg` holds the loop: its position, the size the dict iterator
  remembered, and the engine being disposed;
* `disposed` is a history variable: the engines the current call has
  disposed so far. It is reset when a call starts and only grows during it.
  It says nothing about pools: a request may take a disposed engine from the
  dict and refill its pool, and the engine stays in `disposed`.

The operator `IterNext(p, size)` models the iterator's `next()` at position
`p`. It raises `RuntimeError` if the size changed (Python checks this on
every step, including at the end). Otherwise it either resets the dict to
`{}` and returns, or starts the `p`-th dispose and awaits it. There is no
await between `iter()` and the first `next()`, nor between the end of a
dispose and the `next()` after it. So `StartUnregister` runs `IterNext(1,
Len(order))` in its own step, and `UnregDispose` runs `IterNext(pos + 1,
size)` in the step that completes the dispose. Requests can only interleave
while a dispose is awaited. `dispose()` closes the pool's connections and
leaves a fresh, empty pool that later sessions refill.

Bounds: two uris, two requests, four engines, two shutdowns. Four engines
allow a `force_new` replacement and a re-creation after a reset. Two
shutdowns allow a second call after a raised or completed first one.

Two constants choose the environment:
* `ForceNew`: whether any caller passes `force_new=True` (nothing in this
  tree does);
* `Graceful`: whether shutdown starts only after requests have finished and
  no request starts during it. This is what uvicorn's lifespan shutdown does
  after draining connections.

Runs:
* `engine_graceful` (Graceful, no force_new): `NoOrphanPool` holds. Every
  engine holding connections stays reachable through `GLOBAL_ENGINE` or a
  live request. `PoolInv`, the inductive invariant of its proof, holds too.
  Mutant for both: `dispose()` not awaited;
* `engine_ungraceful` (requests racing the shutdown): `ClearedEnginesDisposed`
  holds. Every step that empties `GLOBAL_ENGINE` drops only engines that this
  call disposed, because the size check turns an insertion into a raise.
  Mutant: a `next()` that ends one engine early. `DisposedInv`, the inductive
  invariant of its proof, holds too. While a call awaits a dispose and the
  dict has its starting size, the engines before the position are in
  `disposed`, and the awaited engine is the one at the position. Mutant: an
  iteration that starts past the first engine;
* `engine_unregister_raises` is finding 6;
* `NoOrphanPool` also fails in two variants of these cfgs (section 8,
  further results): with `ForceNew = TRUE`, and under `engine_ungraceful`'s
  constants.

## 6. `FunctionDependencies` (`dependencies/base.py`)

`get_function_dependencies` is modelled as its control flow:
* open the `AsyncExitStack`;
* `solve_dependencies` is a black box. It enters any prefix of the generator
  dependencies onto the stack, then returns `background_tasks` and `errors`
  or raises;
* the two `RuntimeError` checks;
* `yield values` to the caller's body, which may raise;
* the stack unwinds last-in first-out. Each dependency's generator may
  suppress the pending exception, re-raise it, or raise its own.

`ScopedCleanup` (run `dependency_cleanup`, up to six dependencies) says two
things:
* the body only runs while every entered dependency is open;
* at the end, the exit order is the reverse of the entry order.

The same run also checks `CleanupInv`, the inductive invariant that the
proof of `ScopedCleanup` rests on (section 9). Both properties share one
mutant: it yields after the `async with` block.

`DependenciesBaseMeta` is not
modelled: it is a class-creation check that changes no state.

## 7. `TemplateName` (a pure algorithm)

`TemplateName` models `format_template`'s output path. A missing template
raises `FileNotFoundError`. Otherwise the path is computed by `str.replace`
over the whole name, key after key in `model_dump` order. `StrReplace` is
Python's left-to-right, non-overlapping replacement without a rescan.

The reference `Substitute` is the docstring's bracket syntax read as one pass
over the name: each placeholder of the name is replaced, and values are
copied verbatim. Run `template_bracket_values` covers every name of up to
three segments (`x`, `[p]`, `[a]`) and every value of up to three characters
over `[`, `]`, `p`, `a`. TLC finds a value that holds a later key's
placeholder, which is substituted again (finding 7). The module uses
RECURSIVE operators and the community folds, and carries no theorem.

## 8. Findings

1. **Directory view paths defeat validation** (`builder.py:398`, code bug;
   run `dir_view_path`). The validator keys by `Path(view_path).parent`. For
   a directory view, `get_managed_dir_common` writes into the path itself.
   So `views/home` and `views/home/page.tsx` pass validation and write the
   same `models.ts`, `actions.ts` and `useServer.ts`.
2. **Swallowed bundler errors** (`builder.py:364`, spec/code divergence; run
   `bundler_failure`). `Thread` swallows the exception and `join()` returns.
   `build()` then reports success with `_static` cleared and the script
   missing. Spec §4.8 says a failure in any unit is fatal.
3. **Stale `bundled_scripts`** (`builder.py:356`, spec gap; run
   `rebuild_records`). The list keeps names of scripts that the rebuild
   deleted.
4. **Partial type files after a conversion error** (`builder.py:102`,
   spec/code divergence; run `conversion_abort`). `generate_model_definitions`
   writes each controller's `models.ts` inside its loop. A conversion that
   raises for the second controller aborts `build()` after the first
   controller's `models.ts` was rewritten. The other `models.ts` and every
   `actions.ts` are then from an earlier build, or missing. Spec 4.2 and 7 say
   a conversion error aborts the run because partial type files are worse
   than none.
5. **The generated hooks cannot read the server state** (`builder.py:226`,
   code bug; run `server_context_value`). `ServerProvider` passes
   `serverState` and `setServerState` as props of `ServerContext.Provider`,
   not as its `value`. So `useContext(ServerContext)` returns the default
   `undefined`, and the destructuring in every `useServer()` throws a
   `TypeError`. The Provider's initialiser also indexes `GLOBAL_STATE` with
   undeclared bare identifiers (`builder.py:218`). The model gives that step
   both outcomes.
6. **Shutdown raises** (`core.py:62`, code bug; run
   `engine_unregister_raises`). A request stores a new uri while
   `unregister_global_engine` awaits the first `engine.dispose()`. The
   `next()` after that dispose raises "dictionary changed size during
   iteration". The rest are not disposed, and the dict is not reset.
7. **Placeholders in values** (`generation.py:48`, code bug; run
   `template_bracket_values`). A `project_name` of `[author_name]` turns into
   the author's name in every path.

Further results, found while modelling. They have no run of their own, and
the changes that reproduce them are given:
* **A page in the view root** (`builder.py:175`). Its `models.ts` is
  overwritten by the global `models.ts` of a later stage. Reproduce with
  `ViewPaths <- RootPagePaths` and `ConvertMayFail = FALSE` in
  `MCClientBuild.cfg`, checking `ManagedFilesOwned`.
* **`force_new` leaks a pool** (`core.py:23`). The replaced engine is never
  disposed and no later shutdown reaches it. Reproduce with `ForceNew = TRUE`
  in `MCEngineCache.cfg`.
* **Engine reused during shutdown** (`core.py:64`). A request takes an
  engine that was already disposed while later engines are being disposed.
  It refills the pool, and the final `GLOBAL_ENGINE = {}` forgets the engine.
  Reproduce by checking `INVARIANT NoOrphanPool` with the constants of
  `MCEngineCache_ungraceful.cfg`.
* **Global-state key collisions beyond equal class names** (`builder.py:431`).
  `underscore(name).upper()` gives one key for `HomePage` and `Home_Page`, for
  `HTMLPage` and `HtmlPage`, and for names that differ only in case. Spec 3
  says keys are unique, and its open question only covers equal names. This
  is a fact about one pure function, and no model is needed for it.

## 9. Proofs

### `ClientBuildProofs`


Both theorems are checked by `tlapm` for every value of the constants that
satisfies `Assumptions`. `Assumptions` asks for: at least one controller; a
view root among `Dirs`; a nonempty set of view paths; a positive version
bound; a nonempty ref set that does not contain `NoRef`; and a natural build
bound.

* `TypeCorrect: Spec => []TypeOK`. `TypeOK` is inductive on its own. The proof
  has one step per action, resting on lemmas about a single write
  (`WriteType`), the loop step (`LoopNextType`) and script names
  (`ScriptNameType`).
* `ManagedFilesOwnedCorrect`: under `PageLayout` (every view is a page file
  outside the view root, the layout the framework documents),
  `Spec => []ManagedFilesOwned`.

  `ManagedFilesOwned` is not inductive. It speaks only of states after
  generation, and says nothing of the loop that gets there. The strengthening
  `OwnedInv` adds two facts:
  * after validation, the registry has no duplicate parent;
  * in each per-controller loop, controllers before `idx` already own their
    file from this build.

  Lemmas `DistinctManagedDirs`, `NotViewRootDir`, `LoopWrite` and `RootWrite`
  say what one write does to `Owned`. `OwnedNext` proves that each action
  preserves `OwnedInv`. TLC checks `OwnedInv` in run `build_pages`, and
  `OwnedInvCorrect` states `Spec => []OwnedInv` under `PageLayout`.

### `ClientBuildScriptsProofs`

This module proves the properties of `build_javascript_chunks` from the same
`Assumptions`. Its invariants are stated in `ClientBuild` and checked by TLC
in `build_pages` (and `ArtifactsInv` also in `build_failures`).
* `IdempotentNamingCorrect: Spec => []IdempotentNaming`. Its inductive
  invariant `NamingInv` (lemma `NamingNext`) says that every recorded name is
  the cleaned script base of its page with the hash of its code. Equal code
  then gives equal names.
* `NoOrphanArtifactsCorrect: Spec => []NoOrphanArtifacts`, with no assumption
  on the bundler or on the conversions. The strengthening `ArtifactsInv`
  (`ArtifactsInvCorrect`) says:
  * threads not spawned in the running loop have ended or never started
    (`ThreadsInv`);
  * every file in `_static` during the loops was written by a current thread
    for its own script;
  * a finished thread has recorded that script.

  Without the first fact, a thread of an earlier build could still write
  after `rmtree`.
* `ScriptsServableCorrect`: under `~BundlerMayFail`,
  `Spec => []ScriptsServable`. The assumption is needed: run
  `bundler_failure` is the counterexample (finding 2). The strengthening
  `ServableInv` (`ServableInvCorrect`) says that no thread dies and that
  what a current thread wrote stays in `_static` for this build. It also says
  that a successful build has served every controller.

The proof splits the main thread's actions: `GenerationStep` covers the stages
before the loop, which touch no thread. The thread actions are covered by
`ThreadStep`, `ArtifactsThreadStep` and `ServableThreadStep`. Lemma
`StaticWriteKeeps` says that writing one static file keeps the others.
`LastScriptKey` and `ServedKept` say the same for a recorded script.

### `FunctionDependenciesProofs`

`ScopedCleanupCorrect: Spec => []ScopedCleanup` holds for every number of
generator dependencies (`NumDeps \in Nat`). `ScopedCleanup` is not inductive
as it stands, because it says nothing about the stack before the end. The
strengthening `CleanupInv` is:
* the stack is the prefix of the entries that has not been exited;
* the exits so far are the latest entries, latest first;
* their lengths add up to the number of entries;
* nothing is exited before the body has run;
* the stack is empty at the end.

TLC checks `CleanupInv` in run `dependency_cleanup`. The proof has these parts:
* `CleanupInit`: the initial state satisfies `CleanupInv`;
* `EnterPreserves`, `ExitPreserves` and `BodyPreserves`: the actions that
  change the stack preserve it;
* `CleanupNext`: every step preserves it, with one case per action;
* `CleanupImpliesScoped`: `CleanupInv` gives `ScopedCleanup`, because the
  exits then have as many elements as the entries, read backwards.

The key fact for `ExitDependency` is the lemma `PopProperties`: popping the
top of a sequence leaves the rest in place. With it, the exited element is
`entered[Len(stack)]`, the latest entry not yet exited.

`CleanupInvCorrect: Spec => []CleanupInv` states the strengthening itself as
a theorem.

### `EngineCacheProofs`

These theorems hold for every set of uris and requests and every engine and
shutdown bound that satisfies `EngineCacheAssumptions`.
* `TypeCorrect: Spec => []TypeOK`, with or without `force_new` and in both
  shutdown modes. `TypeOK` is not inductive. A request's engine and the
  engine being disposed must be engines that were created, and the loop's
  target is read from the dict by position. The strengthening `TypeInv` adds
  three facts:
  * every engine in use was created (`EnginesCreated`);
  * the dict's keys are exactly the uris with an engine (`CacheConsistent`);
  * a running loop's position is at least 1.
* `NoOrphanPoolCorrect`: under `Graceful` and `~ForceNew`,
  `Spec => []NoOrphanPool`. The strengthening `PoolInv` (`PoolInvCorrect`)
  says:
  * a request holds only a cached engine;
  * during a shutdown, no request runs and the dict keeps the size the
    iteration started with;
  * every pool holding connections belongs to an engine at or after the
    loop's position (`Remaining`).

  The graceful assumption does the work. `StartUnregister` finds no request,
  and no request starts until the call ends, so the iteration never raises,
  and the last dispose leaves no pool. Both assumptions are needed: TLC
  finds an orphaned pool with `Graceful = FALSE` or with `ForceNew = TRUE`
  (section 8).
* `ClearedEnginesDisposedCorrect`: under `~ForceNew`, in both shutdown modes,
  `Spec => ClearedEnginesDisposed`, an action property. It follows from
  `DisposedInvCorrect: Spec => []DisposedInv`:
  * a running loop never sees the dict shrink;
  * while the dict keeps its starting size, every engine before the loop's
    position was disposed by this call.

  `disposed` is a history variable, so `DisposedInv` is a statement about
  what this call has done, not about pools. Lemma `ClearKeep` covers a step
  that leaves an already empty dict empty: an empty dict holds no engine.
  Lemma `ClearStep` shows that the only step that empties a non-empty dict is
  the `next()` after the last dispose, over a dict of unchanged size. That
  step adds the last engine to `disposed`. `CachedInOrder` then turns "every
  position disposed" into "every cached engine disposed". `~ForceNew` is
  needed: with it false, TLC finds a replaced engine that was never disposed.

Lemma `IterNextCases` restates `next()` field by field: raise, return with
an empty dict, or await the dispose at position `p`. `IterNextType` says
that `next()` keeps the dict and the loop well typed. All three invariants'
proofs go through these two lemmas, once for `StartUnregister` and once for
`UnregDispose`.

### What is only model-checked

Every invariant of a passing run now has a theorem. These stay with TLC:
* the properties of the violation runs (`ManagedFilesOwned` on mixed layouts,
  `ScriptsServable` with a failing bundler, `RecordedScriptsExist`,
  `TypeFilesConsistent`, `UseServerReturns`, `UnregisterCompletes`,
  `FormatMatchesReference`).
  They do not hold, and TLC's counterexample is the result;
* `NoOrphanPool` with `Graceful = FALSE` or `ForceNew = TRUE`, and
  `ClearedEnginesDisposed` with `ForceNew = TRUE`. These are violated too
  (section 8). The theorems carry these cases as assumptions.

`TemplateName` declares RECURSIVE operators, which take away tlapm's SMT
backend, so nothing about it is proved. Its reference definition is checked
only by TLC, on bounded inputs.

## 10. Not modelled, and the plan for later work

* **Converters and `openapi_from_controller`** stay unmodelled. Their source is
  not in this tree, and they are pure text transforms.
* **Daemon models** stay unmodelled: they are declarations only, with no
  operation.
* **`DependenciesBaseMeta`** stays unmodelled: it is a guard at class creation
  and changes no state.
* **Jinja rendering** in `format_template` is external.
* **The client slice merge** (`setControllerState`, `applySideEffect`) is
  not modelled. The emitted hooks throw before they obtain a setter (finding
  5), so no behaviour of the generated code reaches it.
* **Planned**:
  * a refinement of `EngineCache` by an abstract cache whose shutdown
    disposes everything at once;
  * lemmas about `Cleaned` and the script names beyond `NamingInv`.
