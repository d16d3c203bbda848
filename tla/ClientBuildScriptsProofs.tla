---------------------- MODULE ClientBuildScriptsProofs ----------------------
(***************************************************************************)
(* Proofs about the scripts of build_javascript_chunks, for every value of *)
(* ClientBuild's constants: script names are reproducible, a successful    *)
(* build leaves no orphaned artifact, and, when the bundler does not       *)
(* raise, a successful build serves every controller's latest script.      *)
(***************************************************************************)
EXTENDS ClientBuildProofs, SequenceTheorems

USE Assumptions

-----------------------------------------------------------------------------
(* Script names.                                                           *)

\* Stripping the source-map comment from a bundle leaves its code.
LEMMA CleanedBundle ==
    ASSUME NEW x, NEW r
    PROVE  Cleaned([code |-> x, ref |-> r]) = [code |-> x, ref |-> NoRef]
BY DEF Cleaned

\* Every step keeps each produced name the digest of its cleaned code.
LEMMA NamingNext == NamingInv /\ [Next]_vars => NamingInv'
<1> SUFFICES ASSUME NamingInv, [Next]_vars PROVE NamingInv'
  OBVIOUS
<1>1. ASSUME NEW c \in Controllers, BundleJavascript(c) PROVE NamingInv'
  <2>1. CASE \E r \in MapRefs :
               named' = named \cup
                   {<<c, <<c, src[c]>>,
                      ScriptName(c, [code |-> <<c, src[c]>>, ref |-> r])>>}
    <3>1. PICK r \in MapRefs :
               named' = named \cup
                   {<<c, <<c, src[c]>>,
                      ScriptName(c, [code |-> <<c, src[c]>>, ref |-> r])>>}
      BY <2>1
    <3>2. ScriptName(c, [code |-> <<c, src[c]>>, ref |-> r])
            = <<ScriptBase[c], [code |-> <<c, src[c]>>, ref |-> NoRef]>>
      BY CleanedBundle DEF ScriptName
    <3>3. QED
      BY <3>1, <3>2 DEF NamingInv
  <2>2. CASE UNCHANGED named
    BY <2>2 DEF NamingInv
  <2>3. QED
    BY <1>1, <2>1, <2>2 DEF BundleJavascript
<1>2. CASE UNCHANGED named
  BY <1>2 DEF NamingInv
<1>3. QED
  BY <1>1, <1>2
  DEF Next, MainThread, BuilderThread, Build, ValidateUniquePaths,
      GenerateStaticFiles, GenerateModelDefinitions, GenerateActionDefinitions,
      GenerateGlobalModelImports, GenerateServerProvider, GenerateViewServers,
      ClearStaticDir, SpawnBuilder, JoinBuilder, WriteScript, WriteMap,
      AppendBundledScript, EditSource, vars

(* Content addressing is reproducible: whatever source-map comment the     *)
(* bundler embeds, spawn_builder names the same code of the same controller *)
(* with the same script name in every build.                               *)
THEOREM IdempotentNamingCorrect == Spec => []IdempotentNaming
<1>1. Init => NamingInv
  BY DEF Init, NamingInv
<1>2. NamingInv => IdempotentNaming
  BY DEF NamingInv, IdempotentNaming
<1>3. QED
  BY <1>1, <1>2, NamingNext, PTL DEF Spec

-----------------------------------------------------------------------------
(* The main thread's steps before build_javascript_chunks.                 *)

\* build(), validate_unique_paths and the generate_* stages.
Generation ==
    \/ Build \/ ValidateUniquePaths \/ GenerateStaticFiles
    \/ GenerateModelDefinitions \/ GenerateActionDefinitions
    \/ GenerateGlobalModelImports \/ GenerateServerProvider
    \/ GenerateViewServers

\* A generation step runs outside the thread loops, touches no thread and
\* no script, and does not end a build successfully.
LEMMA GenerationStep ==
    ASSUME Generation
    PROVE  /\ UNCHANGED <<th, tname, bundled, staticDir, named>>
           /\ pc \notin {"spawn", "join"} /\ pc' \notin {"spawn", "join"}
           /\ ~BuildSucceeded'
<1>1. UNCHANGED <<th, tname, bundled, staticDir, named>>
  BY DEF Generation, Build, ValidateUniquePaths, GenerateStaticFiles,
         GenerateModelDefinitions, GenerateActionDefinitions,
         GenerateGlobalModelImports, GenerateServerProvider,
         GenerateViewServers
<1>2. pc \notin {"spawn", "join", "clear"}
  BY DEF Generation, Build, ValidateUniquePaths, GenerateStaticFiles,
         GenerateModelDefinitions, GenerateActionDefinitions,
         GenerateGlobalModelImports, GenerateServerProvider,
         GenerateViewServers
<1>3. \/ pc' \in {"validate", "gen_static", "gen_models", "gen_actions",
                  "gen_global", "gen_provider", "gen_views", "clear"}
      \/ pc' = "idle" /\ outcome' = "error"
  BY DEF Generation, Build, ValidateUniquePaths, GenerateStaticFiles,
         GenerateModelDefinitions, GenerateActionDefinitions,
         GenerateGlobalModelImports, GenerateServerProvider,
         GenerateViewServers, LoopNext
<1>4. QED
  BY <1>1, <1>2, <1>3 DEF BuildSucceeded

-----------------------------------------------------------------------------
(* Builder threads.                                                        *)

\* A thread that is running belongs to the current build and has not been
\* joined yet.
LEMMA RunningIsCurrent ==
    ASSUME ThreadsInv, NEW c \in Controllers,
           th[c] \in {"bundling", "bundled", "wrote_js", "wrote_map"}
    PROVE  /\ CurrentThread(c) /\ pc \in {"spawn", "join"}
           /\ pc = "join" => ~(c < idx)
BY DEF ThreadsInv, CurrentThread

\* A builder thread's step leaves the main thread where it is and changes
\* only its own thread state.
LEMMA ThreadStep ==
    ASSUME NEW c \in Controllers, BuilderThread(c)
    PROVE  /\ UNCHANGED <<pc, idx, builds, outcome>>
           /\ th[c] \in {"bundling", "bundled", "wrote_js", "wrote_map"}
           /\ \E s \in ThreadStates : th' = [th EXCEPT ![c] = s]
BY DEF BuilderThread, BundleJavascript, WriteScript, WriteMap,
       AppendBundledScript, ThreadStates

\* Every step keeps the threads of earlier builds ended, and the joined
\* threads of the current build ended.
LEMMA ThreadsNext ==
    ASSUME TypeOK, ThreadsInv, [Next]_vars PROVE ThreadsInv'
<1>1. CASE Generation
  <2>1. \A c \in Controllers : ~CurrentThread(c) /\ ~CurrentThread(c)'
    BY <1>1, GenerationStep DEF CurrentThread
  <2>2. QED
    BY <1>1, <2>1, GenerationStep DEF ThreadsInv
<1>2. CASE ClearStaticDir
  BY <1>2 DEF ClearStaticDir, ThreadsInv, CurrentThread
<1>3. CASE SpawnBuilder
  <2>1. CASE idx = NumControllers
    <3>1. pc' = "join" /\ idx' = 1
      BY <1>3, <2>1 DEF SpawnBuilder, LoopNext
    <3>2. \A c \in Controllers : ~(c < 1)
      BY DEF Controllers
    <3>3. QED
      BY <3>1, <3>2 DEF ThreadsInv, CurrentThread
  <2>2. CASE idx # NumControllers
    <3>1. pc' = "spawn" /\ idx' = idx + 1 /\ pc = "spawn"
          /\ th' = [th EXCEPT ![idx] = "bundling"]
      BY <1>3, <2>2 DEF SpawnBuilder, LoopNext
    <3>2. \A c \in Controllers : ~CurrentThread(c)' => ~CurrentThread(c) /\ c # idx
      BY <3>1 DEF CurrentThread, TypeOK, Controllers
    <3>3. QED
      BY <3>1, <3>2 DEF ThreadsInv, TypeOK
  <2>3. QED
    BY <2>1, <2>2
<1>4. CASE JoinBuilder
  <2>1. CASE idx = NumControllers
    <3>1. pc' = "idle" /\ th' = th /\ pc = "join" /\ th[idx] \in {"finished", "dead"}
      BY <1>4, <2>1 DEF JoinBuilder
    <3>2. \A c \in Controllers : c < idx \/ c = idx
      BY <2>1 DEF Controllers, TypeOK
    <3>3. QED
      BY <3>1, <3>2 DEF ThreadsInv, CurrentThread
  <2>2. CASE idx # NumControllers
    <3>1. pc' = "join" /\ idx' = idx + 1 /\ th' = th /\ pc = "join"
          /\ th[idx] \in {"finished", "dead"}
      BY <1>4, <2>2 DEF JoinBuilder
    <3>2. \A c \in Controllers : c < idx + 1 => c < idx \/ c = idx
      BY DEF Controllers, TypeOK
    <3>3. QED
      BY <3>1, <3>2 DEF ThreadsInv, CurrentThread
  <2>3. QED
    BY <2>1, <2>2
<1>5. ASSUME NEW c \in Controllers, BuilderThread(c) PROVE ThreadsInv'
  <2>1. /\ UNCHANGED <<pc, idx>>
        /\ th[c] \in {"bundling", "bundled", "wrote_js", "wrote_map"}
        /\ \E s \in ThreadStates : th' = [th EXCEPT ![c] = s]
    BY <1>5, ThreadStep
  <2>2. CurrentThread(c) /\ (pc = "join" => ~(c < idx))
    BY <2>1, RunningIsCurrent
  <2>3. \A d \in Controllers : d # c => th'[d] = th[d]
    BY <2>1 DEF TypeOK
  <2>4. QED
    BY <2>1, <2>2, <2>3 DEF ThreadsInv, CurrentThread
<1>6. ASSUME NEW c \in Controllers, EditSource(c) PROVE ThreadsInv'
  BY <1>6 DEF EditSource, ThreadsInv, CurrentThread
<1>7. CASE UNCHANGED vars
  BY <1>7 DEF vars, ThreadsInv, CurrentThread
<1>8. QED
  BY <1>1, <1>2, <1>3, <1>4, <1>5, <1>6, <1>7
  DEF Next, MainThread, Generation

-----------------------------------------------------------------------------
(* No orphaned artifact.                                                   *)

\* The script states in which a thread has written its script file.
Wrote == {"wrote_js", "wrote_map", "finished"}

\* A step of a spawned thread keeps its static files accounted for.
LEMMA ArtifactsThreadStep ==
    ASSUME TypeOK, ThreadsInv, ArtifactsWritten, FinishedRecorded,
           NEW c \in Controllers, BuilderThread(c)
    PROVE  ArtifactsWritten' /\ FinishedRecorded'
<1>1. /\ UNCHANGED <<pc, idx>>
      /\ CurrentThread(c)
      /\ \A d \in Controllers : CurrentThread(d)' = CurrentThread(d)
  BY ThreadStep, RunningIsCurrent DEF CurrentThread
<1>2. CASE BundleJavascript(c)
  <2>1. /\ th[c] = "bundling" /\ th'[c] \in {"bundled", "dead"}
        /\ UNCHANGED <<staticDir, bundled>>
        /\ \A d \in Controllers : d # c => th'[d] = th[d] /\ tname'[d] = tname[d]
    BY <1>2 DEF BundleJavascript, TypeOK
  <2>2. ArtifactsWritten'
    BY <1>1, <2>1 DEF ArtifactsWritten
  <2>3. FinishedRecorded'
    BY <1>1, <2>1 DEF FinishedRecorded, LastScript
  <2>4. QED
    BY <2>2, <2>3
<1>3. CASE WriteScript(c)
  <2>1. /\ th[c] = "bundled" /\ th' = [th EXCEPT ![c] = "wrote_js"]
        /\ staticDir' = [staticDir EXCEPT ![<<tname[c], "js">>] = builds]
        /\ UNCHANGED <<tname, bundled>>
    BY <1>3 DEF WriteScript
  <2>2. <<tname[c], "js">> \in StaticKeys
    BY <2>1 DEF TypeOK, StaticKeys
  <2>3. ArtifactsWritten'
    <3> SUFFICES ASSUME NEW k \in StaticKeys, staticDir'[k] # 0
                 PROVE  \E d \in Controllers :
                           CurrentThread(d)' /\ th'[d] \in Wrote /\ k[1] = tname'[d]
      BY DEF ArtifactsWritten, Wrote
    <3>1. CASE k = <<tname[c], "js">>
      BY <1>1, <2>1, <3>1 DEF TypeOK, Wrote
    <3>2. CASE k # <<tname[c], "js">>
      <4>1. staticDir[k] # 0
        BY <2>1, <3>2 DEF TypeOK
      <4>2. PICK d \in Controllers :
                CurrentThread(d) /\ th[d] \in Wrote /\ k[1] = tname[d]
        BY <4>1 DEF ArtifactsWritten, Wrote
      <4>3. d # c
        BY <2>1, <4>2 DEF Wrote
      <4>4. QED
        BY <1>1, <2>1, <4>2, <4>3 DEF TypeOK
    <3>3. QED
      BY <3>1, <3>2
  <2>4. FinishedRecorded'
    BY <1>1, <2>1 DEF FinishedRecorded, LastScript, TypeOK
  <2>5. QED
    BY <2>3, <2>4
<1>4. CASE WriteMap(c)
  <2>1. /\ th[c] = "wrote_js" /\ th' = [th EXCEPT ![c] = "wrote_map"]
        /\ staticDir' = [staticDir EXCEPT ![<<tname[c], "map">>] = builds]
        /\ UNCHANGED <<tname, bundled>>
    BY <1>4 DEF WriteMap
  <2>2. ArtifactsWritten'
    <3> SUFFICES ASSUME NEW k \in StaticKeys, staticDir'[k] # 0
                 PROVE  \E d \in Controllers :
                           CurrentThread(d)' /\ th'[d] \in Wrote /\ k[1] = tname'[d]
      BY DEF ArtifactsWritten, Wrote
    <3>1. CASE k = <<tname[c], "map">>
      BY <1>1, <2>1, <3>1 DEF TypeOK, Wrote
    <3>2. CASE k # <<tname[c], "map">>
      <4>1. staticDir[k] # 0
        BY <2>1, <3>2 DEF TypeOK
      <4>2. PICK d \in Controllers :
                CurrentThread(d) /\ th[d] \in Wrote /\ k[1] = tname[d]
        BY <4>1 DEF ArtifactsWritten, Wrote
      <4>3. th'[d] \in Wrote
        BY <2>1, <4>2 DEF TypeOK, Wrote
      <4>4. QED
        BY <1>1, <2>1, <4>2, <4>3
    <3>3. QED
      BY <3>1, <3>2
  <2>3. FinishedRecorded'
    BY <1>1, <2>1 DEF FinishedRecorded, LastScript, TypeOK
  <2>4. QED
    BY <2>2, <2>3
<1>5. CASE AppendBundledScript(c)
  <2>1. /\ th[c] = "wrote_map" /\ th' = [th EXCEPT ![c] = "finished"]
        /\ bundled' = [bundled EXCEPT ![c] = Append(bundled[c], tname[c])]
        /\ UNCHANGED <<tname, staticDir>>
    BY <1>5 DEF AppendBundledScript
  <2>2. ArtifactsWritten'
    BY <1>1, <2>1 DEF ArtifactsWritten, TypeOK
  <2>3. /\ bundled'[c] # <<>>
        /\ bundled'[c][Len(bundled'[c])] = tname[c]
    <3>1. bundled'[c] = Append(bundled[c], tname[c])
      BY <2>1 DEF TypeOK
    <3>2. bundled[c] \in Seq(Names) /\ tname[c] \in Names
      BY <2>1 DEF TypeOK
    <3>3. /\ Append(bundled[c], tname[c]) # <<>>
          /\ Append(bundled[c], tname[c])[Len(Append(bundled[c], tname[c]))]
               = tname[c]
      BY <3>2, AppendProperties, EmptySeq
    <3>4. QED
      BY <3>1, <3>3, Zenon
  <2>4. FinishedRecorded'
    BY <1>1, <2>1, <2>3 DEF FinishedRecorded, LastScript, TypeOK
  <2>5. QED
    BY <2>2, <2>4
<1>6. QED
  BY <1>2, <1>3, <1>4, <1>5 DEF BuilderThread

\* Every step keeps the static directory accounted for.
LEMMA ArtifactsNext == ArtifactsInv /\ [Next]_vars => ArtifactsInv'
<1> SUFFICES ASSUME ArtifactsInv, [Next]_vars PROVE ArtifactsInv'
  OBVIOUS
<1>1. TypeOK' /\ ThreadsInv'
  BY TypeNext, ThreadsNext DEF ArtifactsInv
<1> USE DEF ArtifactsInv
<1>2. CASE Generation
  <2>1. pc' \notin {"spawn", "join"} /\ ~BuildSucceeded'
    BY <1>2, GenerationStep
  <2>2. QED
    BY <1>1, <2>1 DEF NoOrphanArtifacts
<1>3. CASE ClearStaticDir
  <2>1. pc' = "spawn" /\ idx' = 1 /\ staticDir' = [k \in StaticKeys |-> 0]
    BY <1>3 DEF ClearStaticDir
  <2>2. ArtifactsWritten'
    BY <2>1 DEF ArtifactsWritten
  <2>3. FinishedRecorded'
    BY <2>1 DEF FinishedRecorded, CurrentThread, Controllers
  <2>4. QED
    BY <1>1, <2>1, <2>2, <2>3 DEF BuildSucceeded, NoOrphanArtifacts
<1>4. CASE SpawnBuilder
  <2>1. /\ pc = "spawn" /\ pc' \in {"spawn", "join"}
        /\ th' = [th EXCEPT ![idx] = "bundling"]
        /\ UNCHANGED <<staticDir, tname, bundled>>
    BY <1>4 DEF SpawnBuilder, LoopNext
  <2>2. \A c \in Controllers :
          /\ CurrentThread(c) => CurrentThread(c)'
          /\ CurrentThread(c)' /\ c # idx => CurrentThread(c)
    BY <1>4, <2>1 DEF SpawnBuilder, LoopNext, CurrentThread, TypeOK, Controllers
  <2>3. \A c \in Controllers : CurrentThread(c) => c # idx
    BY <2>1 DEF CurrentThread, TypeOK, Controllers
  <2>4. ArtifactsWritten'
    BY <2>1, <2>2, <2>3 DEF ArtifactsWritten, TypeOK
  <2>5. FinishedRecorded'
    BY <2>1, <2>2 DEF FinishedRecorded, LastScript, TypeOK
  <2>6. QED
    BY <1>1, <2>1, <2>4, <2>5 DEF BuildSucceeded, NoOrphanArtifacts
<1>5. CASE JoinBuilder
  <2>1. /\ pc = "join" /\ th[idx] \in {"finished", "dead"}
        /\ UNCHANGED <<staticDir, th, tname, bundled>>
    BY <1>5 DEF JoinBuilder
  <2>2. CASE idx # NumControllers
    <3>1. pc' = "join"
      BY <1>5, <2>2 DEF JoinBuilder
    <3>2. \A c \in Controllers : CurrentThread(c)' = CurrentThread(c)
      BY <2>1, <3>1 DEF CurrentThread
    <3>3. ArtifactsWritten' /\ FinishedRecorded'
      BY <2>1, <3>2 DEF ArtifactsWritten, FinishedRecorded, LastScript
    <3>4. QED
      BY <1>1, <3>1, <3>3 DEF BuildSucceeded, NoOrphanArtifacts
  <2>3. CASE idx = NumControllers
    <3>1. pc' = "idle" /\ outcome' = "ok"
      BY <1>5, <2>3 DEF JoinBuilder
    <3>2. \A c \in Controllers : th[c] \in {"finished", "dead"}
      <4>1. \A c \in Controllers : c < idx \/ c = idx
        BY <2>3 DEF Controllers, TypeOK
      <4>2. QED
        BY <2>1, <4>1 DEF ThreadsInv
    <3>3. NoOrphanArtifacts'
      <4> SUFFICES ASSUME NEW k \in StaticKeys, staticDir[k] # 0
                   PROVE  \E c \in Controllers :
                             bundled[c] # <<>> /\ k[1] = bundled[c][Len(bundled[c])]
        BY <2>1 DEF NoOrphanArtifacts
      <4>1. PICK c \in Controllers :
                CurrentThread(c) /\ th[c] \in Wrote /\ k[1] = tname[c]
        BY <2>1 DEF ArtifactsWritten, Wrote
      <4>2. th[c] = "finished"
        BY <3>2, <4>1 DEF Wrote
      <4>3. bundled[c] # <<>> /\ LastScript(c) = tname[c]
        BY <2>1, <4>1, <4>2 DEF FinishedRecorded
      <4>4. QED
        BY <4>1, <4>3 DEF LastScript
    <3>4. QED
      BY <1>1, <3>1, <3>3
  <2>4. QED
    BY <2>2, <2>3
<1>6. ASSUME NEW c \in Controllers, BuilderThread(c) PROVE ArtifactsInv'
  <2>1. pc \in {"spawn", "join"} /\ UNCHANGED <<pc, idx, outcome>>
    BY <1>6, ThreadStep, RunningIsCurrent
  <2>2. ArtifactsWritten' /\ FinishedRecorded'
    BY <1>6, <2>1, ArtifactsThreadStep
  <2>3. QED
    BY <1>1, <2>1, <2>2 DEF BuildSucceeded, NoOrphanArtifacts
<1>7. ASSUME NEW c \in Controllers, EditSource(c) PROVE ArtifactsInv'
  <2>1. UNCHANGED <<pc, idx, builds, outcome, staticDir, th, tname, bundled>>
    BY <1>7 DEF EditSource
  <2>2. QED
    BY <1>1, <2>1 DEF ArtifactsWritten, FinishedRecorded, CurrentThread,
                      LastScript, BuildSucceeded, NoOrphanArtifacts
<1>8. CASE UNCHANGED vars
  BY <1>8 DEF vars, ThreadsInv, ArtifactsWritten, FinishedRecorded,
              CurrentThread, LastScript, BuildSucceeded, NoOrphanArtifacts, TypeOK
<1>9. QED
  BY <1>2, <1>3, <1>4, <1>5, <1>6, <1>7, <1>8
  DEF Next, MainThread, Generation

(* build() that returns normally leaves no orphaned artifact: every file   *)
(* in the static directory belongs to some controller's latest entry in    *)
(* bundled_scripts, whichever bundler calls or schema conversions raised   *)
(* and however the builder threads interleaved.                            *)
THEOREM NoOrphanArtifactsCorrect == Spec => []NoOrphanArtifacts
<1>1. Init => ArtifactsInv
  BY TypeInit DEF Init, ArtifactsInv, ThreadsInv, CurrentThread,
                  BuildSucceeded, NoOrphanArtifacts
<1>2. ArtifactsInv => NoOrphanArtifacts
  BY DEF ArtifactsInv
<1>3. QED
  BY <1>1, <1>2, ArtifactsNext, PTL DEF Spec

(* Whatever the bundler and the conversions do: a bundler thread not     *)
(* spawned in the running loop has ended or never started, every earlier  *)
(* thread has ended at join, every file in the static directory during   *)
(* the loops was written by a current thread for its own script, and a    *)
(* finished thread has recorded that script.                              *)
THEOREM ArtifactsInvCorrect == Spec => []ArtifactsInv
<1>1. Init => ArtifactsInv
  BY TypeInit DEF Init, ArtifactsInv, ThreadsInv, CurrentThread,
                  BuildSucceeded, NoOrphanArtifacts
<1>2. QED
  BY <1>1, ArtifactsNext, PTL DEF Spec

-----------------------------------------------------------------------------
(* Servable scripts.                                                       *)

\* Writing a static file in the current build keeps every file this build
\* wrote.
LEMMA StaticWriteKeeps ==
    ASSUME TypeOK, NEW k \in StaticKeys,
           staticDir' = [staticDir EXCEPT ![k] = builds], builds' = builds
    PROVE  \A key \in StaticKeys :
              staticDir[key] = builds => staticDir'[key] = builds'
BY DEF TypeOK

\* A controller that has recorded a script names a static key with it.
LEMMA LastScriptKey ==
    ASSUME TypeOK, NEW c \in Controllers, bundled[c] # <<>>
    PROVE  <<LastScript(c), "js">> \in StaticKeys
           /\ <<LastScript(c), "map">> \in StaticKeys
<1>1. bundled[c] \in Seq(Names)
  BY DEF TypeOK
<1>2. Len(bundled[c]) \in 1..Len(bundled[c])
  BY <1>1, EmptySeq, LenProperties
<1>3. LastScript(c) \in Names
  BY <1>1, <1>2 DEF LastScript
<1>4. QED
  BY <1>3 DEF StaticKeys

\* Served(c) is kept by a write of the current build that leaves
\* bundled_scripts alone.
LEMMA ServedKept ==
    ASSUME TypeOK, NEW c \in Controllers, Served(c), UNCHANGED bundled,
           \A key \in StaticKeys :
              staticDir[key] = builds => staticDir'[key] = builds'
    PROVE  Served(c)'
BY LastScriptKey DEF Served, LastScript

\* The thread-state facts a builder thread step may not disturb.
LEMMA ServableThreadStep ==
    ASSUME ~BundlerMayFail, TypeOK, ThreadsInv, ThreadsWrote,
           NEW c \in Controllers, BuilderThread(c)
    PROVE  ThreadsWrote' /\ th'[c] # "dead"
<1>1. /\ UNCHANGED <<pc, idx, builds>>
      /\ \A d \in Controllers : CurrentThread(d)' = CurrentThread(d)
      /\ CurrentThread(c)
  BY ThreadStep, RunningIsCurrent DEF CurrentThread
<1>2. CASE BundleJavascript(c)
  <2>1. /\ th' = [th EXCEPT ![c] = "bundled"]
        /\ UNCHANGED <<staticDir, bundled>>
        /\ \A d \in Controllers : d # c => tname'[d] = tname[d]
    BY <1>2 DEF BundleJavascript, TypeOK
  <2>2. \A d \in Controllers : CurrentThread(d) /\ d # c /\ th[d] = "finished"
          => Served(d)'
    BY <1>1, <2>1 DEF ThreadsWrote, Served, LastScript
  <2>3. QED
    BY <1>1, <2>1, <2>2 DEF ThreadsWrote, TypeOK
<1>3. CASE WriteScript(c)
  <2>1. /\ th' = [th EXCEPT ![c] = "wrote_js"]
        /\ staticDir' = [staticDir EXCEPT ![<<tname[c], "js">>] = builds]
        /\ UNCHANGED <<tname, bundled>>
    BY <1>3 DEF WriteScript
  <2>2. <<tname[c], "js">> \in StaticKeys
    BY <1>3 DEF WriteScript, TypeOK, StaticKeys
  <2>3. \A key \in StaticKeys : staticDir[key] = builds => staticDir'[key] = builds'
    BY <1>1, <2>1, <2>2, StaticWriteKeeps
  <2>4. \A d \in Controllers : CurrentThread(d) /\ th'[d] = "finished" => Served(d)'
    BY <1>1, <2>1, <2>3, ServedKept DEF ThreadsWrote, TypeOK
  <2>5. \A d \in Controllers : d # c /\ th[d] \in {"wrote_js", "wrote_map"}
          => <<tname[d], "js">> \in StaticKeys /\ <<tname[d], "map">> \in StaticKeys
    BY DEF TypeOK, StaticKeys
  <2>6. QED
    BY <1>1, <2>1, <2>2, <2>3, <2>4, <2>5 DEF ThreadsWrote, TypeOK
<1>4. CASE WriteMap(c)
  <2>1. /\ th[c] = "wrote_js" /\ th' = [th EXCEPT ![c] = "wrote_map"]
        /\ staticDir' = [staticDir EXCEPT ![<<tname[c], "map">>] = builds]
        /\ UNCHANGED <<tname, bundled>>
    BY <1>4 DEF WriteMap
  <2>2. <<tname[c], "map">> \in StaticKeys /\ <<tname[c], "js">> \in StaticKeys
    BY <2>1 DEF TypeOK, StaticKeys
  <2>3. \A key \in StaticKeys : staticDir[key] = builds => staticDir'[key] = builds'
    BY <1>1, <2>1, <2>2, StaticWriteKeeps
  <2>4. \A d \in Controllers : CurrentThread(d) /\ th'[d] = "finished" => Served(d)'
    BY <1>1, <2>1, <2>3, ServedKept DEF ThreadsWrote, TypeOK
  <2>5. \A d \in Controllers : th[d] \in {"wrote_js", "wrote_map"}
          => <<tname[d], "js">> \in StaticKeys /\ <<tname[d], "map">> \in StaticKeys
    BY DEF TypeOK, StaticKeys
  <2>6. QED
    BY <1>1, <2>1, <2>2, <2>3, <2>4, <2>5 DEF ThreadsWrote, TypeOK
<1>5. CASE AppendBundledScript(c)
  <2>1. /\ th[c] = "wrote_map" /\ th' = [th EXCEPT ![c] = "finished"]
        /\ bundled' = [bundled EXCEPT ![c] = Append(bundled[c], tname[c])]
        /\ UNCHANGED <<tname, staticDir>>
    BY <1>5 DEF AppendBundledScript
  <2>2. /\ bundled'[c] # <<>>
        /\ bundled'[c][Len(bundled'[c])] = tname[c]
    <3>1. bundled'[c] = Append(bundled[c], tname[c])
      BY <2>1 DEF TypeOK
    <3>2. bundled[c] \in Seq(Names) /\ tname[c] \in Names
      BY <2>1 DEF TypeOK
    <3>3. /\ Append(bundled[c], tname[c]) # <<>>
          /\ Append(bundled[c], tname[c])[Len(Append(bundled[c], tname[c]))]
               = tname[c]
      BY <3>2, AppendProperties, EmptySeq
    <3>4. QED
      BY <3>1, <3>3, Zenon
  <2>3. Served(c)'
    BY <1>1, <2>1, <2>2 DEF ThreadsWrote, Served, LastScript
  <2>4. \A d \in Controllers : d # c =>
          /\ th'[d] = th[d] /\ bundled'[d] = bundled[d]
    BY <2>1 DEF TypeOK
  <2>5. QED
    BY <1>1, <2>1, <2>3, <2>4 DEF ThreadsWrote, Served, LastScript
<1>6. QED
  BY <1>2, <1>3, <1>4, <1>5 DEF BuilderThread

\* Every step keeps the current build's scripts servable.
LEMMA ServableNext ==
    ASSUME ~BundlerMayFail
    PROVE  ServableInv /\ [Next]_vars => ServableInv'
<1> SUFFICES ASSUME ServableInv, [Next]_vars PROVE ServableInv'
  OBVIOUS
<1>1. TypeOK' /\ ThreadsInv'
  BY TypeNext, ThreadsNext DEF ServableInv
<1> USE DEF ServableInv
<1>2. CASE Generation
  <2>1. pc' \notin {"spawn", "join"} /\ ~BuildSucceeded' /\ UNCHANGED th
    BY <1>2, GenerationStep
  <2>2. QED
    BY <1>1, <2>1
<1>3. CASE ClearStaticDir
  <2>1. pc' = "spawn" /\ idx' = 1 /\ UNCHANGED th
    BY <1>3 DEF ClearStaticDir
  <2>2. ThreadsWrote'
    BY <2>1 DEF ThreadsWrote, CurrentThread, Controllers
  <2>3. QED
    BY <1>1, <2>1, <2>2 DEF BuildSucceeded
<1>4. CASE SpawnBuilder
  <2>1. /\ pc = "spawn" /\ pc' \in {"spawn", "join"}
        /\ th' = [th EXCEPT ![idx] = "bundling"]
        /\ UNCHANGED <<staticDir, tname, bundled, builds>>
    BY <1>4 DEF SpawnBuilder, LoopNext
  <2>2. \A c \in Controllers : CurrentThread(c)' /\ c # idx => CurrentThread(c)
    BY <1>4, <2>1 DEF SpawnBuilder, LoopNext, CurrentThread, TypeOK, Controllers
  <2>3. ThreadsWrote'
    BY <2>1, <2>2 DEF ThreadsWrote, Served, LastScript, TypeOK
  <2>4. \A c \in Controllers : th'[c] # "dead"
    BY <2>1 DEF TypeOK
  <2>5. QED
    BY <1>1, <2>1, <2>3, <2>4 DEF BuildSucceeded
<1>5. CASE JoinBuilder
  <2>1. /\ pc = "join" /\ th[idx] \in {"finished", "dead"}
        /\ UNCHANGED <<staticDir, th, tname, bundled, builds>>
    BY <1>5 DEF JoinBuilder
  <2>2. CASE idx # NumControllers
    <3>1. pc' = "join"
      BY <1>5, <2>2 DEF JoinBuilder
    <3>2. ThreadsWrote'
      BY <2>1, <3>1 DEF ThreadsWrote, CurrentThread, Served, LastScript
    <3>3. QED
      BY <1>1, <2>1, <3>1, <3>2 DEF BuildSucceeded
  <2>3. CASE idx = NumControllers
    <3>1. pc' = "idle" /\ outcome' = "ok"
      BY <1>5, <2>3 DEF JoinBuilder
    <3>2. \A c \in Controllers : th[c] = "finished"
      <4>1. \A c \in Controllers : c < idx \/ c = idx
        BY <2>3 DEF Controllers, TypeOK
      <4>2. QED
        BY <2>1, <4>1 DEF ThreadsInv
    <3>3. \A c \in Controllers : Served(c)
      BY <2>1, <3>2 DEF ThreadsWrote, CurrentThread
    <3>4. \A c \in Controllers : Served(c)'
      BY <2>1, <3>3 DEF Served, LastScript
    <3>5. QED
      BY <1>1, <2>1, <3>1, <3>4
  <2>4. QED
    BY <2>2, <2>3
<1>6. ASSUME NEW c \in Controllers, BuilderThread(c) PROVE ServableInv'
  <2>1. pc \in {"spawn", "join"} /\ UNCHANGED <<pc, idx, outcome>>
    BY <1>6, ThreadStep, RunningIsCurrent
  <2>2. ThreadsWrote' /\ th'[c] # "dead"
    BY <1>6, <2>1, ServableThreadStep
  <2>3. \A d \in Controllers : d # c => th'[d] = th[d]
    BY <1>6, ThreadStep DEF TypeOK
  <2>4. QED
    BY <1>1, <2>1, <2>2, <2>3 DEF BuildSucceeded
<1>7. ASSUME NEW c \in Controllers, EditSource(c) PROVE ServableInv'
  <2>1. UNCHANGED <<pc, idx, builds, outcome, staticDir, th, tname, bundled>>
    BY <1>7 DEF EditSource
  <2>2. QED
    BY <1>1, <2>1 DEF ThreadsWrote, CurrentThread, Served, LastScript,
                      BuildSucceeded
<1>8. CASE UNCHANGED vars
  BY <1>8 DEF vars, ThreadsInv, ThreadsWrote, CurrentThread, Served,
              LastScript, BuildSucceeded, TypeOK
<1>9. QED
  BY <1>2, <1>3, <1>4, <1>5, <1>6, <1>7, <1>8
  DEF Next, MainThread, Generation

(* When bundle_javascript does not raise, build() that returns normally    *)
(* leaves every controller's latest bundled_scripts entry servable: its    *)
(* script and source map are in the static directory, written by this     *)
(* build.  (When it may raise, run bundler_failure shows a build returning *)
(* normally with a dead builder thread and an unservable page.)            *)
THEOREM ScriptsServableCorrect ==
    ASSUME ~BundlerMayFail
    PROVE  Spec => []ScriptsServable
<1>1. Init => ServableInv
  BY TypeInit DEF Init, ServableInv, ThreadsInv, CurrentThread, BuildSucceeded
<1>2. ServableInv => ScriptsServable
  BY DEF ServableInv, ScriptsServable, Served, LastScript
<1>3. ServableInv /\ [Next]_vars => ServableInv'
  BY ServableNext
<1>4. QED
  BY <1>1, <1>2, <1>3, PTL DEF Spec

(* When the bundler does not fail: no thread dies, a thread that wrote a  *)
(* file left it in the static directory for this build, a finished thread *)
(* has its script's .js and .map there, and a successful build has them   *)
(* for every controller.                                                  *)
THEOREM ServableInvCorrect ==
    ASSUME ~BundlerMayFail
    PROVE  Spec => []ServableInv
<1>1. Init => ServableInv
  BY TypeInit DEF Init, ServableInv, ThreadsInv, CurrentThread, BuildSucceeded
<1>2. ServableInv /\ [Next]_vars => ServableInv'
  BY ServableNext
<1>3. QED
  BY <1>1, <1>2, PTL DEF Spec
=============================================================================
