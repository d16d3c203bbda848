---------------------------- MODULE ClientBuild ----------------------------
(***************************************************************************)
(* ClientBuilder.build() of src/filzl/client_interface/builder.py.         *)
(*                                                                         *)
(* One build runs on the main thread: validate_unique_paths, the six       *)
(* generate_* stages (each a loop over app.controllers in registration     *)
(* order, writing files into managed "_server" directories), then          *)
(* build_javascript_chunks, which clears the "_static" directory, starts   *)
(* one Thread per controller running spawn_builder, and joins them in      *)
(* order.  Builds can be repeated (a dev rebuild) while the developer      *)
(* edits view sources; controller objects, and their bundled_scripts       *)
(* lists, persist across builds.                                           *)
(*                                                                         *)
(* Data abstraction.  Directories are model values arranged by ParentDir.  *)
(* A view path is either a file inside a directory or a directory itself;  *)
(* Path.parent is lexical, is_file() depends on that kind.  The bundled    *)
(* script is a record of its logical code and its embedded, non-           *)
(* reproducible source-map reference; md5 is modelled as injective, so a   *)
(* digest is the cleaned content itself.  A managed file records which     *)
(* generator wrote it (a controller, or 0 for the view-root generators)    *)
(* and in which build; a static file records the build that wrote it.      *)
(***************************************************************************)
EXTENDS Naturals, Sequences, FiniteSets

CONSTANTS
    NumControllers,  \* |app.controllers|; controllers are 1..NumControllers in registration order
    Dirs,            \* directories of the view tree, ViewRoot among them
    ViewRoot,        \* app.view_root
    ParentDir,       \* lexical parent of each directory (may lie outside Dirs)
    ViewPaths,       \* the controller.view_path values a registry may use
    ScriptBase,      \* underscore(controller.__class__.__name__) per controller
    MaxVersion,      \* edits of a view's source are versions 1..MaxVersion
    MapRefs,         \* source-map comments the bundler may embed
    MaxBuilds,       \* bound on the number of build() calls
    ConvertMayFail,  \* whether a schema conversion may raise in generate_model_definitions
    BundlerMayFail   \* whether bundle_javascript may raise in a builder thread

Controllers == 1..NumControllers

\* A view path: a file inside a directory, or the directory itself.
Paths == [kind : {"file", "dir"}, dir : Dirs]

\* A script text that carries no source-map comment.
NoRef == "none"

ASSUME Assumptions ==
    /\ NumControllers \in Nat \ {0}
    /\ ViewRoot \in Dirs
    /\ ViewPaths \subseteq Paths
    /\ ViewPaths # {}
    /\ MaxVersion \in Nat \ {0}
    /\ MapRefs # {}
    /\ NoRef \notin MapRefs
    /\ MaxBuilds \in Nat
    /\ ConvertMayFail \in BOOLEAN
    /\ BundlerMayFail \in BOOLEAN

\* The generators of the view root write as writer 0.
RootWriter == 0
Writers == 0..NumControllers

\* Files written by the generators: api.ts, models.ts, server.tsx at the
\* root; models.ts, actions.ts, useServer.ts per controller.
FileNames == {"api", "models", "server", "actions", "useServer"}
FileKeys == Dirs \X FileNames
Stamp == [by : Writers, build : 0..MaxBuilds]
Unwritten == [by |-> RootWriter, build |-> 0]

\* Script text: the view's code and its embedded source-map comment, if any.
\* md5 is injective on texts, so a script's digest is its text.
Codes == Controllers \X (1..MaxVersion)
Texts == [code : Codes, ref : MapRefs \cup {NoRef}]
Names == {ScriptBase[c] : c \in Controllers} \X Texts
StaticKeys == Names \X {"js", "map"}
NoName == <<>>

VARIABLES
    registry,   \* controller.view_path of each controller
    onDisk,     \* the view paths that exist on disk
    src,        \* current version of each controller's view source
    pc,         \* where the main thread is in build()
    idx,        \* loop index of the main thread's current loop
    builds,     \* number of build() calls so far
    outcome,    \* how the last build() call ended
    files,      \* managed "_server" files
    staticDir,  \* the "_static" directory: build that wrote each file, 0 if absent
    th,         \* state of each controller's builder thread
    tname,      \* script_name computed by each builder thread
    bundled,    \* controller.bundled_scripts
    named       \* history: every <<controller, code, script name>> produced

vars == <<registry, onDisk, src, pc, idx, builds, outcome, files, staticDir,
          th, tname, bundled, named>>

PCs == {"idle", "validate", "gen_static", "gen_models", "gen_actions",
        "gen_global", "gen_provider", "gen_views", "clear", "spawn", "join"}
ThreadStates == {"none", "bundling", "bundled", "wrote_js", "wrote_map",
                 "finished", "dead"}

-----------------------------------------------------------------------------
(* Path helpers of builder.py.                                             *)

\* Path(view_path).parent: lexical.
Parent(p) == IF p.kind = "file" THEN p.dir ELSE ParentDir[p.dir]

\* get_managed_dir_common: the parent of a file, the directory itself otherwise.
ManagedDir(p) == p.dir

\* The per-controller file f of controller c.
CtrlFile(c, f) == <<ManagedDir(registry[c]), f>>
RootFile(f) == <<ViewRoot, f>>

Write(key, w) == [files EXCEPT ![key] = [by |-> w, build |-> builds]]

\* get_cleaned_js_contents strips the embedded source-map comment.
Cleaned(contents) == [contents EXCEPT !.ref = NoRef]

\* script_name = f"{controller_base}-{md5(cleaned).hexdigest()}.js"
ScriptNameUncleaned(c, contents) == <<ScriptBase[c], contents>>
ScriptName(c, contents) == <<ScriptBase[c], Cleaned(contents)>>

-----------------------------------------------------------------------------
Init ==
    /\ registry \in [Controllers -> ViewPaths]
    /\ onDisk \in SUBSET ViewPaths
    /\ src = [c \in Controllers |-> 1]
    /\ pc = "idle"
    /\ idx = 1
    /\ builds = 0
    /\ outcome = "none"
    /\ files = [k \in FileKeys |-> Unwritten]
    /\ staticDir = [k \in StaticKeys |-> 0]
    /\ th = [c \in Controllers |-> "none"]
    /\ tname = [c \in Controllers |-> NoName]
    /\ bundled = [c \in Controllers |-> <<>>]
    /\ named = {}

\* The developer edits a view's source, at any time.
EditSource(c) ==
    /\ src[c] < MaxVersion
    /\ src' = [src EXCEPT ![c] = src[c] + 1]
    /\ UNCHANGED <<registry, onDisk, pc, idx, builds, outcome, files,
                   staticDir, th, tname, bundled, named>>

\* build() is called.
Build ==
    /\ pc = "idle"
    /\ builds < MaxBuilds
    /\ builds' = builds + 1
    /\ pc' = "validate"
    /\ UNCHANGED <<registry, onDisk, src, idx, outcome, files, staticDir,
                   th, tname, bundled, named>>

\* validate_unique_paths: duplicate parents, then existence; either raises.
DuplicateViews ==
    \E c1, c2 \in Controllers :
        c1 # c2 /\ Parent(registry[c1]) = Parent(registry[c2])
MissingViews == \E c \in Controllers : registry[c] \notin onDisk

ValidateUniquePathsNoDupCheck ==
    /\ pc = "validate"
    /\ IF MissingViews
         THEN pc' = "idle" /\ outcome' = "error"
         ELSE pc' = "gen_static" /\ UNCHANGED outcome
    /\ UNCHANGED <<registry, onDisk, src, idx, builds, files, staticDir,
                   th, tname, bundled, named>>

ValidateUniquePaths ==
    /\ pc = "validate"
    /\ IF DuplicateViews \/ MissingViews
         THEN pc' = "idle" /\ outcome' = "error"
         ELSE pc' = "gen_static" /\ UNCHANGED outcome
    /\ UNCHANGED <<registry, onDisk, src, idx, builds, files, staticDir,
                   th, tname, bundled, named>>

\* generate_static_files: the root api.ts.
GenerateStaticFiles ==
    /\ pc = "gen_static"
    /\ files' = Write(RootFile("api"), RootWriter)
    /\ pc' = "gen_models"
    /\ idx' = 1
    /\ UNCHANGED <<registry, onDisk, src, builds, outcome, staticDir, th,
                   tname, bundled, named>>

\* Advance the loop of stage pc over the controllers, to stage next.
LoopNextPastEnd(next) ==
    IF idx = NumControllers + 1 THEN pc' = next /\ idx' = 1
                                ELSE idx' = idx + 1 /\ UNCHANGED pc

LoopNext(next) ==
    IF idx = NumControllers THEN pc' = next /\ idx' = 1
                            ELSE idx' = idx + 1 /\ UNCHANGED pc

\* One iteration of generate_model_definitions: convert the render model and
\* the schema components of controller idx, then write its models.ts.  A
\* conversion that raises aborts build() with the earlier models.ts written.
GenerateModelDefinitions ==
    /\ pc = "gen_models"
    /\ \/ /\ files' = Write(CtrlFile(idx, "models"), idx)
          /\ LoopNext("gen_actions")
          /\ UNCHANGED outcome
       \/ /\ ConvertMayFail
          /\ pc' = "idle"
          /\ outcome' = "error"
          /\ UNCHANGED <<files, idx>>
    /\ UNCHANGED <<registry, onDisk, src, builds, staticDir, th, tname,
                   bundled, named>>

\* One iteration of generate_action_definitions: controller idx's actions.ts.
GenerateActionDefinitions ==
    /\ pc = "gen_actions"
    /\ files' = Write(CtrlFile(idx, "actions"), idx)
    /\ LoopNext("gen_global")
    /\ UNCHANGED <<registry, onDisk, src, builds, outcome, staticDir, th,
                   tname, bundled, named>>

\* generate_global_model_imports: the root models.ts, rewritten wholesale.
GenerateGlobalModelImports ==
    /\ pc = "gen_global"
    /\ files' = Write(RootFile("models"), RootWriter)
    /\ pc' = "gen_provider"
    /\ UNCHANGED <<registry, onDisk, src, idx, builds, outcome, staticDir,
                   th, tname, bundled, named>>

\* generate_server_provider: the root server.tsx.
GenerateServerProvider ==
    /\ pc = "gen_provider"
    /\ files' = Write(RootFile("server"), RootWriter)
    /\ pc' = "gen_views"
    /\ idx' = 1
    /\ UNCHANGED <<registry, onDisk, src, builds, outcome, staticDir, th,
                   tname, bundled, named>>

\* One iteration of generate_view_servers: controller idx's useServer.ts.
GenerateViewServers ==
    /\ pc = "gen_views"
    /\ files' = Write(CtrlFile(idx, "useServer"), idx)
    /\ LoopNext("clear")
    /\ UNCHANGED <<registry, onDisk, src, builds, outcome, staticDir, th,
                   tname, bundled, named>>

\* build_javascript_chunks, first part: rmtree the static directory if it
\* exists and mkdir it again.
ClearStaticDirNoRmtree ==
    /\ pc = "clear"
    /\ pc' = "spawn"
    /\ idx' = 1
    /\ UNCHANGED <<registry, onDisk, src, builds, outcome, files, staticDir,
                   th, tname, bundled, named>>

ClearStaticDir ==
    /\ pc = "clear"
    /\ staticDir' = [k \in StaticKeys |-> 0]
    /\ pc' = "spawn"
    /\ idx' = 1
    /\ UNCHANGED <<registry, onDisk, src, builds, outcome, files, th, tname,
                   bundled, named>>

\* The spawning loop: Thread(target=spawn_builder).start() for controller idx.
SpawnBuilder ==
    /\ pc = "spawn"
    /\ th' = [th EXCEPT ![idx] = "bundling"]
    /\ LoopNext("join")
    /\ UNCHANGED <<registry, onDisk, src, builds, outcome, files, staticDir,
                   tname, bundled, named>>

\* The joining loop: thread.join() for controller idx.  An exception raised
\* in the thread ends it ("dead") and join() returns normally.
JoinNoWait ==
    /\ pc = "join"
    /\ IF idx = NumControllers
         THEN pc' = "idle" /\ idx' = 1 /\ outcome' = "ok"
         ELSE idx' = idx + 1 /\ UNCHANGED <<pc, outcome>>
    /\ UNCHANGED <<registry, onDisk, src, builds, files, staticDir, th,
                   tname, bundled, named>>

JoinBuilder ==
    /\ pc = "join"
    /\ th[idx] \in {"finished", "dead"}
    /\ IF idx = NumControllers
         THEN pc' = "idle" /\ idx' = 1 /\ outcome' = "ok"
         ELSE idx' = idx + 1 /\ UNCHANGED <<pc, outcome>>
    /\ UNCHANGED <<registry, onDisk, src, builds, files, staticDir, th,
                   tname, bundled, named>>

(* spawn_builder(controller), run by controller c's thread.                *)

\* bundle_javascript, then the content hash and script_name; the bundler
\* may raise, which ends the thread.
BundleJavascript(c) ==
    /\ th[c] = "bundling"
    /\ \/ \E r \in MapRefs :
            LET contents == [code |-> <<c, src[c]>>, ref |-> r]
                name == ScriptName(c, contents)
            IN /\ tname' = [tname EXCEPT ![c] = name]
               /\ named' = named \cup {<<c, contents.code, name>>}
               /\ th' = [th EXCEPT ![c] = "bundled"]
       \/ /\ BundlerMayFail
          /\ th' = [th EXCEPT ![c] = "dead"]
          /\ UNCHANGED <<tname, named>>
    /\ UNCHANGED <<registry, onDisk, src, pc, idx, builds, outcome, files,
                   staticDir, bundled>>

\* update_source_map_path, then (static_dir / script_name).write_text.
WriteScript(c) ==
    /\ th[c] = "bundled"
    /\ staticDir' = [staticDir EXCEPT ![<<tname[c], "js">>] = builds]
    /\ th' = [th EXCEPT ![c] = "wrote_js"]
    /\ UNCHANGED <<registry, onDisk, src, pc, idx, builds, outcome, files,
                   tname, bundled, named>>

\* (static_dir / map_name).write_text.
WriteMap(c) ==
    /\ th[c] = "wrote_js"
    /\ staticDir' = [staticDir EXCEPT ![<<tname[c], "map">>] = builds]
    /\ th' = [th EXCEPT ![c] = "wrote_map"]
    /\ UNCHANGED <<registry, onDisk, src, pc, idx, builds, outcome, files,
                   tname, bundled, named>>

\* controller.bundled_scripts.append(script_name); the thread ends.
AppendBundledScript(c) ==
    /\ th[c] = "wrote_map"
    /\ bundled' = [bundled EXCEPT ![c] = Append(bundled[c], tname[c])]
    /\ th' = [th EXCEPT ![c] = "finished"]
    /\ UNCHANGED <<registry, onDisk, src, pc, idx, builds, outcome, files,
                   staticDir, tname, named>>

-----------------------------------------------------------------------------
MainThread ==
    \/ Build
    \/ ValidateUniquePaths
    \/ GenerateStaticFiles
    \/ GenerateModelDefinitions
    \/ GenerateActionDefinitions
    \/ GenerateGlobalModelImports
    \/ GenerateServerProvider
    \/ GenerateViewServers
    \/ ClearStaticDir
    \/ SpawnBuilder
    \/ JoinBuilder

BuilderThread(c) ==
    \/ BundleJavascript(c)
    \/ WriteScript(c)
    \/ WriteMap(c)
    \/ AppendBundledScript(c)

Next ==
    \/ MainThread
    \/ \E c \in Controllers : BuilderThread(c)
    \/ \E c \in Controllers : EditSource(c)

Spec == Init /\ [][Next]_vars

-----------------------------------------------------------------------------
(* Properties.                                                             *)

TypeOK ==
    /\ registry \in [Controllers -> ViewPaths]
    /\ onDisk \subseteq ViewPaths
    /\ src \in [Controllers -> 1..MaxVersion]
    /\ pc \in PCs
    /\ idx \in Controllers
    /\ builds \in 0..MaxBuilds
    /\ outcome \in {"none", "ok", "error"}
    /\ files \in [FileKeys -> Stamp]
    /\ staticDir \in [StaticKeys -> 0..MaxBuilds]
    /\ th \in [Controllers -> ThreadStates]
    /\ tname \in [Controllers -> Names \cup {NoName}]
    /\ \A c \in Controllers :
          th[c] \in {"bundled", "wrote_js", "wrote_map", "finished"} =>
              tname[c] \in Names
    /\ bundled \in [Controllers -> Seq(Names)]
    /\ named \subseteq Controllers \X Codes \X Names

\* The last build() returned without raising.
BuildSucceeded == pc = "idle" /\ outcome = "ok"

\* Generation of the current build got past generate_view_servers.
GenerationDone == pc \in {"clear", "spawn", "join"} \/ BuildSucceeded

(* After a build's generation stages, every controller's models.ts,        *)
(* actions.ts and useServer.ts are the ones written for that controller in *)
(* this build: no other controller, and no view-root generator, overwrote  *)
(* them.  validate_unique_paths is meant to guarantee this ("we risk       *)
(* stomping on other server metadata").                                   *)
ManagedFilesOwned ==
    GenerationDone =>
        \A c \in Controllers, f \in {"models", "actions", "useServer"} :
            files[CtrlFile(c, f)] = [by |-> c, build |-> builds]

(* spec.md 4.2 and 7: a schema conversion error is fatal to the run       *)
(* because partial type files are worse than none (each actions.ts imports *)
(* types from its models.ts): whenever build() is not running, the         *)
(* models.ts and actions.ts of all controllers come from one same build.   *)
TypeFilesConsistent ==
    pc = "idle" =>
        \A c, d \in Controllers, f, g \in {"models", "actions"} :
            files[CtrlFile(c, f)].build = files[CtrlFile(d, g)].build

(* When build() returns normally, every controller's latest entry in       *)
(* bundled_scripts names a script that this build wrote to the static      *)
(* directory, together with its source map: the page can be served.      *)
ScriptsServable ==
    BuildSucceeded =>
        \A c \in Controllers :
            /\ bundled[c] # <<>>
            /\ staticDir[<<bundled[c][Len(bundled[c])], "js">>] = builds
            /\ staticDir[<<bundled[c][Len(bundled[c])], "map">>] = builds

(* When build() returns normally, the static directory holds no orphaned   *)
(* artifact: every file in it belongs to some controller's latest script.  *)
NoOrphanArtifacts ==
    BuildSucceeded =>
        \A k \in StaticKeys :
            staticDir[k] # 0 =>
                \E c \in Controllers :
                    bundled[c] # <<>> /\ k[1] = bundled[c][Len(bundled[c])]

(* Content addressing is reproducible: bundling the same code of the same  *)
(* controller in any two builds yields the same script file name, whatever *)
(* source-map comment the bundler embedded.                                *)
IdempotentNaming ==
    \A e1, e2 \in named :
        (e1[1] = e2[1] /\ e1[2] = e2[2]) => e1[3] = e2[3]

(* Every script name a controller has recorded in bundled_scripts is       *)
(* present in the static directory when build() returns.                   *)
RecordedScriptsExist ==
    BuildSucceeded =>
        \A c \in Controllers :
            \A i \in 1..Len(bundled[c]) : staticDir[<<bundled[c][i], "js">>] # 0


-----------------------------------------------------------------------------
(* The inductive invariant behind ManagedFilesOwned, for registries whose  *)
(* view paths are page files below the view root.                          *)

\* Every view path is a file in a directory other than the view root.
PageLayout == \A p \in ViewPaths : p.kind = "file" /\ p.dir # ViewRoot

\* Controller c's file f was written by c in the current build.
Owned(c, f) == files[CtrlFile(c, f)] = [by |-> c, build |-> builds]

\* Stages after validate_unique_paths passed, in build() order.
AfterValidation == pc \notin {"idle", "validate"} \/ BuildSucceeded
AfterModels == pc \in {"gen_actions", "gen_global", "gen_provider",
                       "gen_views", "clear", "spawn", "join"} \/ BuildSucceeded
AfterActions == pc \in {"gen_global", "gen_provider", "gen_views",
                        "clear", "spawn", "join"} \/ BuildSucceeded

\* The generation loop at stage s over file f has written f for the
\* controllers before idx, and for all of them once past the stage.
LoopProgress(s, f, after) ==
    /\ pc = s => \A c \in Controllers : c < idx => Owned(c, f)
    /\ after => \A c \in Controllers : Owned(c, f)

OwnedInv ==
    /\ TypeOK
    /\ AfterValidation => ~DuplicateViews
    /\ LoopProgress("gen_models", "models", AfterModels)
    /\ LoopProgress("gen_actions", "actions", AfterActions)
    /\ LoopProgress("gen_views", "useServer", GenerationDone)
-----------------------------------------------------------------------------
(* The inductive invariants behind the properties of build_javascript_chunks. *)

\* Controller c's builder thread was started by the current build's
\* spawning loop.
CurrentThread(c) == pc = "join" \/ (pc = "spawn" /\ c < idx)

\* The script name controller c recorded last.
LastScript(c) == bundled[c][Len(bundled[c])]

\* Every thread of an earlier build has ended, and join() has let the main
\* thread past only threads that ended.
ThreadsInv ==
    /\ \A c \in Controllers :
          ~CurrentThread(c) => th[c] \in {"none", "finished", "dead"}
    /\ pc = "join" => \A c \in Controllers : c < idx => th[c] \in {"finished", "dead"}

\* Each file in the static directory was written by a thread of the current
\* build, under the name that thread computed.
ArtifactsWritten ==
    \A k \in StaticKeys :
        staticDir[k] # 0 =>
            \E c \in Controllers :
                /\ CurrentThread(c)
                /\ th[c] \in {"wrote_js", "wrote_map", "finished"}
                /\ k[1] = tname[c]

\* A thread of the current build that finished recorded its name last in
\* bundled_scripts.
FinishedRecorded ==
    \A c \in Controllers :
        CurrentThread(c) /\ th[c] = "finished" =>
            bundled[c] # <<>> /\ LastScript(c) = tname[c]

(* The inductive invariant behind NoOrphanArtifacts: once the static       *)
(* directory has been cleared, each file in it was written by a thread of  *)
(* the current build under the name that thread computed, and a thread     *)
(* that finished recorded that name last in bundled_scripts.               *)
ArtifactsInv ==
    /\ TypeOK
    /\ ThreadsInv
    /\ pc \in {"spawn", "join"} => ArtifactsWritten /\ FinishedRecorded
    /\ NoOrphanArtifacts

\* Controller c's last recorded script and its map were written by this build.
Served(c) ==
    /\ bundled[c] # <<>>
    /\ staticDir[<<LastScript(c), "js">>] = builds
    /\ staticDir[<<LastScript(c), "map">>] = builds

\* Each thread of the current build has written, in this build, the files
\* its progress says, and a thread that finished serves its script.
ThreadsWrote ==
    \A c \in Controllers :
        CurrentThread(c) =>
            /\ th[c] \in {"wrote_js", "wrote_map"} =>
                  staticDir[<<tname[c], "js">>] = builds
            /\ th[c] = "wrote_map" => staticDir[<<tname[c], "map">>] = builds
            /\ th[c] = "finished" => Served(c)

(* The inductive invariant behind ScriptsServable when the bundler does   *)
(* not raise: no thread dies, the threads of the current build have       *)
(* written what their progress says, and after a successful build every   *)
(* controller's last script and map are from that build.                  *)
ServableInv ==
    /\ TypeOK
    /\ ThreadsInv
    /\ \A c \in Controllers : th[c] # "dead"
    /\ pc \in {"spawn", "join"} => ThreadsWrote
    /\ BuildSucceeded => \A c \in Controllers : Served(c)

(* The inductive invariant behind IdempotentNaming: every name a thread   *)
(* produced is the controller's base name with the digest of its code     *)
(* stripped of the source-map comment.                                    *)
NamingInv ==
    \A e \in named : e[3] = <<ScriptBase[e[1]], [code |-> e[2], ref |-> NoRef]>>
=============================================================================
