------------------------- MODULE ClientBuildProofs -------------------------
(***************************************************************************)
(* Proofs about ClientBuild, for every value of its constants.             *)
(***************************************************************************)
EXTENDS ClientBuild, TLAPS

USE Assumptions

\* A write by a controller, or by the view root, keeps the managed files typed.
LEMMA WriteType ==
    ASSUME TypeOK, NEW f \in FileNames
    PROVE  /\ Write(RootFile(f), RootWriter) \in [FileKeys -> Stamp]
           /\ Write(CtrlFile(idx, f), idx) \in [FileKeys -> Stamp]
<1>1. RootFile(f) \in FileKeys /\ CtrlFile(idx, f) \in FileKeys
  BY DEF TypeOK, RootFile, CtrlFile, ManagedDir, FileKeys, Paths
<1>2. [by |-> RootWriter, build |-> builds] \in Stamp
      /\ [by |-> idx, build |-> builds] \in Stamp
  BY DEF TypeOK, Stamp, Writers, RootWriter, Controllers
<1>3. QED
  BY <1>1, <1>2 DEF TypeOK, Write

\* The file of a controller is a key of the managed files.
LEMMA CtrlFileKey ==
    ASSUME TypeOK, NEW c \in Controllers, NEW f \in FileNames
    PROVE  CtrlFile(c, f) \in FileKeys
BY DEF TypeOK, CtrlFile, ManagedDir, FileKeys, Paths

\* A thread's script name lies in Names.
LEMMA ScriptNameType ==
    ASSUME NEW c \in Controllers, NEW v \in 1..MaxVersion, NEW r \in MapRefs
    PROVE  ScriptName(c, [code |-> <<c, v>>, ref |-> r]) \in Names
BY DEF ScriptName, Cleaned, Names, Texts, Codes

\* The loop step keeps the index among the controllers and moves pc to the
\* next stage or leaves it.
LEMMA LoopNextType ==
    ASSUME TypeOK, NEW next \in PCs, LoopNext(next)
    PROVE  idx' \in Controllers /\ pc' \in PCs
<1>1. CASE idx = NumControllers
  BY <1>1 DEF TypeOK, LoopNext, Controllers
<1>2. CASE idx # NumControllers
  BY <1>2 DEF TypeOK, LoopNext, Controllers
<1>3. QED
  BY <1>1, <1>2

\* The initial states are well typed.
LEMMA TypeInit == Init => TypeOK
BY DEF Init, TypeOK, FileKeys, Stamp, Unwritten, Writers, RootWriter,
       StaticKeys, NoName, Controllers, PCs, ThreadStates

\* Every step of the main thread, of a builder thread or of an edit keeps
\* the state well typed.
LEMMA TypeNext == TypeOK /\ [Next]_vars => TypeOK'
<1> SUFFICES ASSUME TypeOK, [Next]_vars PROVE TypeOK'
  OBVIOUS
<1>1. CASE Build
  BY <1>1 DEF Build, TypeOK, PCs
<1>2. CASE ValidateUniquePaths
  BY <1>2 DEF ValidateUniquePaths, TypeOK, PCs
<1>3. CASE GenerateStaticFiles
  <2>1. files' \in [FileKeys -> Stamp]
    BY <1>3, WriteType DEF GenerateStaticFiles, FileNames
  <2>2. QED
    BY <1>3, <2>1 DEF GenerateStaticFiles, TypeOK, PCs, Controllers
<1>4. CASE GenerateModelDefinitions
  <2>1. CASE files' = Write(CtrlFile(idx, "models"), idx)
             /\ LoopNext("gen_actions") /\ UNCHANGED outcome
    <3>1. files' \in [FileKeys -> Stamp]
      BY <2>1, WriteType DEF FileNames
    <3>2. idx' \in Controllers /\ pc' \in PCs
      BY <2>1, LoopNextType DEF PCs
    <3>3. QED
      BY <1>4, <2>1, <3>1, <3>2 DEF GenerateModelDefinitions, TypeOK
  <2>2. CASE ConvertMayFail /\ pc' = "idle" /\ outcome' = "error"
             /\ UNCHANGED <<files, idx>>
    BY <1>4, <2>2 DEF GenerateModelDefinitions, TypeOK, PCs
  <2>3. QED
    BY <1>4, <2>1, <2>2 DEF GenerateModelDefinitions
<1>5. CASE GenerateActionDefinitions
  <2>1. files' \in [FileKeys -> Stamp]
    BY <1>5, WriteType DEF GenerateActionDefinitions, FileNames
  <2>2. idx' \in Controllers /\ pc' \in PCs
    BY <1>5, LoopNextType DEF GenerateActionDefinitions, PCs
  <2>3. QED
    BY <1>5, <2>1, <2>2 DEF GenerateActionDefinitions, TypeOK
<1>6. CASE GenerateGlobalModelImports
  BY <1>6, WriteType DEF FileNames, GenerateGlobalModelImports, TypeOK, PCs,
                         Writers, RootWriter
<1>7. CASE GenerateServerProvider
  <2>1. files' \in [FileKeys -> Stamp]
    BY <1>7, WriteType DEF GenerateServerProvider, FileNames
  <2>2. QED
    BY <1>7, <2>1 DEF GenerateServerProvider, TypeOK, PCs, Controllers
<1>8. CASE GenerateViewServers
  <2>1. files' \in [FileKeys -> Stamp]
    BY <1>8, WriteType DEF GenerateViewServers, FileNames
  <2>2. idx' \in Controllers /\ pc' \in PCs
    BY <1>8, LoopNextType DEF GenerateViewServers, PCs
  <2>3. QED
    BY <1>8, <2>1, <2>2 DEF GenerateViewServers, TypeOK
<1>9. CASE ClearStaticDir
  BY <1>9 DEF ClearStaticDir, TypeOK, PCs, Controllers
<1>10. CASE SpawnBuilder
  BY <1>10, LoopNextType DEF SpawnBuilder, TypeOK, PCs,
                             ThreadStates
<1>11. CASE JoinBuilder
  <2>1. CASE idx = NumControllers
    BY <1>11, <2>1 DEF JoinBuilder, TypeOK, PCs, Controllers
  <2>2. CASE idx # NumControllers
    <3>1. idx' = idx + 1 /\ pc' = pc /\ outcome' = outcome
      BY <1>11, <2>2 DEF JoinBuilder
    <3>2. idx' \in Controllers
      BY <2>2, <3>1 DEF TypeOK, Controllers
    <3>3. UNCHANGED <<registry, onDisk, src, builds, files, staticDir, th,
                      tname, bundled, named>>
      BY <1>11 DEF JoinBuilder
    <3>4. QED
      BY <3>1, <3>2, <3>3 DEF TypeOK
  <2>3. QED
    BY <2>1, <2>2
<1>12. ASSUME NEW c \in Controllers, BundleJavascript(c) PROVE TypeOK'
  <2>1. CASE \E r \in MapRefs :
               LET contents == [code |-> <<c, src[c]>>, ref |-> r]
                   name == ScriptName(c, contents)
               IN /\ tname' = [tname EXCEPT ![c] = name]
                  /\ named' = named \cup {<<c, contents.code, name>>}
                  /\ th' = [th EXCEPT ![c] = "bundled"]
    <3>1. PICK r \in MapRefs :
               LET contents == [code |-> <<c, src[c]>>, ref |-> r]
                   name == ScriptName(c, contents)
               IN /\ tname' = [tname EXCEPT ![c] = name]
                  /\ named' = named \cup {<<c, contents.code, name>>}
                  /\ th' = [th EXCEPT ![c] = "bundled"]
      BY <2>1
    <3>2. ScriptName(c, [code |-> <<c, src[c]>>, ref |-> r]) \in Names
      BY ScriptNameType DEF TypeOK
    <3>3. <<c, src[c]>> \in Codes
      BY DEF TypeOK, Codes
    <3>4. tname' \in [Controllers -> Names \cup {NoName}]
      BY <3>1, <3>2 DEF TypeOK
    <3>5. named' \subseteq Controllers \X Codes \X Names
      <4>1. <<c, <<c, src[c]>>, ScriptName(c, [code |-> <<c, src[c]>>, ref |-> r])>>
              \in Controllers \X Codes \X Names
        BY <3>2, <3>3
      <4>2. QED
        BY <3>1, <4>1 DEF TypeOK
    <3>6. th' \in [Controllers -> ThreadStates]
      BY <3>1 DEF TypeOK, ThreadStates
    <3>7. \A d \in Controllers :
            th'[d] \in {"bundled", "wrote_js", "wrote_map", "finished"} =>
                tname'[d] \in Names
      BY <3>1, <3>2 DEF TypeOK
    <3>8. QED
      BY <1>12, <3>4, <3>5, <3>6, <3>7 DEF BundleJavascript, TypeOK
  <2>2. CASE BundlerMayFail /\ th' = [th EXCEPT ![c] = "dead"]
             /\ UNCHANGED <<tname, named>>
    BY <1>12, <2>2 DEF BundleJavascript, TypeOK, ThreadStates
  <2>3. QED
    BY <1>12, <2>1, <2>2 DEF BundleJavascript
<1>13. ASSUME NEW c \in Controllers, WriteScript(c) PROVE TypeOK'
  BY <1>13 DEF WriteScript, TypeOK, ThreadStates
<1>14. ASSUME NEW c \in Controllers, WriteMap(c) PROVE TypeOK'
  BY <1>14 DEF WriteMap, TypeOK, ThreadStates
<1>15. ASSUME NEW c \in Controllers, AppendBundledScript(c) PROVE TypeOK'
  BY <1>15 DEF AppendBundledScript, TypeOK, ThreadStates
<1>16. ASSUME NEW c \in Controllers, EditSource(c) PROVE TypeOK'
  BY <1>16 DEF EditSource, TypeOK
<1>17. CASE UNCHANGED vars
  BY <1>17 DEF vars, TypeOK
<1>18. QED
  BY <1>1, <1>2, <1>3, <1>4, <1>5, <1>6, <1>7, <1>8, <1>9, <1>10, <1>11,
     <1>12, <1>13, <1>14, <1>15, <1>16, <1>17
  DEF Next, MainThread, BuilderThread

(* Every reachable state is well typed: the managed files, the static      *)
(* directory, the threads' script names and bundled_scripts always hold    *)
(* values of their types.                                                  *)
THEOREM TypeCorrect == Spec => []TypeOK
BY TypeInit, TypeNext, PTL DEF Spec

-----------------------------------------------------------------------------
(* Ownership of the managed files.                                         *)

\* Under the page layout a validated registry gives distinct controllers
\* distinct managed directories.
LEMMA DistinctManagedDirs ==
    ASSUME TypeOK, PageLayout, ~DuplicateViews,
           NEW c1 \in Controllers, NEW c2 \in Controllers, c1 # c2
    PROVE  ManagedDir(registry[c1]) # ManagedDir(registry[c2])
BY DEF TypeOK, PageLayout, DuplicateViews, Parent, ManagedDir, Paths

\* Under the page layout no controller's managed directory is the root's.
LEMMA NotViewRootDir ==
    ASSUME TypeOK, PageLayout, NEW c \in Controllers
    PROVE  ManagedDir(registry[c]) # ViewRoot
BY DEF TypeOK, PageLayout, ManagedDir

\* Writing controller idx's file f makes it owned and leaves the ownership
\* of every other controller file as it was.
LEMMA LoopWrite ==
    ASSUME TypeOK, PageLayout, ~DuplicateViews, NEW f \in FileNames,
           files' = Write(CtrlFile(idx, f), idx),
           registry' = registry, builds' = builds
    PROVE  \A c \in Controllers, g \in FileNames :
               Owned(c, g)' = (Owned(c, g) \/ (c = idx /\ g = f))
<1> TAKE c \in Controllers, g \in FileNames
<1>0. Owned(c, g)' = (files'[CtrlFile(c, g)] = [by |-> c, build |-> builds])
  BY DEF Owned, CtrlFile
<1>1. CASE c = idx /\ g = f
  <2>1. files'[CtrlFile(idx, f)] = [by |-> idx, build |-> builds]
    BY CtrlFileKey DEF Write, TypeOK
  <2>2. QED
    BY <1>0, <1>1, <2>1
<1>2. CASE ~(c = idx /\ g = f)
  <2>1. CtrlFile(c, g) # CtrlFile(idx, f)
    BY <1>2, DistinctManagedDirs DEF CtrlFile, TypeOK
  <2>2. files'[CtrlFile(c, g)] = files[CtrlFile(c, g)]
    BY <2>1, CtrlFileKey DEF Write, TypeOK
  <2>3. QED
    BY <1>0, <1>2, <2>2 DEF Owned
<1>3. QED
  BY <1>1, <1>2

\* Writing a file of the view root changes no controller file.
LEMMA RootWrite ==
    ASSUME TypeOK, PageLayout, NEW f \in FileNames,
           files' = Write(RootFile(f), RootWriter),
           registry' = registry, builds' = builds
    PROVE  \A c \in Controllers, g \in FileNames : Owned(c, g)' = Owned(c, g)
<1> TAKE c \in Controllers, g \in FileNames
<1>1. CtrlFile(c, g) # RootFile(f)
  BY NotViewRootDir DEF CtrlFile, RootFile
<1>2. files'[CtrlFile(c, g)] = files[CtrlFile(c, g)]
  BY <1>1, CtrlFileKey DEF Write, TypeOK
<1>3. QED
  BY <1>2 DEF Owned, CtrlFile

\* A step that leaves files, registry and builds alone keeps every file's
\* ownership.
LEMMA OwnedUnchanged ==
    ASSUME UNCHANGED <<files, registry, builds>>
    PROVE  \A c \in Controllers, g \in FileNames : Owned(c, g)' = Owned(c, g)
BY DEF Owned, CtrlFile

LEMMA OwnedInit == Init => OwnedInv
BY TypeInit DEF Init, OwnedInv, AfterValidation, AfterModels, AfterActions,
                GenerationDone, BuildSucceeded, LoopProgress

LEMMA OwnedNext ==
    ASSUME PageLayout
    PROVE  OwnedInv /\ [Next]_vars => OwnedInv'
<1> SUFFICES ASSUME OwnedInv, [Next]_vars PROVE OwnedInv'
  OBVIOUS
<1>0. TypeOK /\ TypeOK'
  BY TypeNext DEF OwnedInv
<1> USE DEF AfterValidation, AfterModels, AfterActions,
            GenerationDone, BuildSucceeded
<1>1. CASE Build
  BY <1>0, <1>1 DEF Build, OwnedInv, LoopProgress
<1>2. CASE ValidateUniquePaths
  <2>1. UNCHANGED <<files, registry, builds>>
    BY <1>2 DEF ValidateUniquePaths
  <2>2. DuplicateViews' = DuplicateViews
    BY <2>1 DEF DuplicateViews
  <2>3. QED
    BY <1>0, <1>2, <2>2 DEF ValidateUniquePaths, OwnedInv, LoopProgress
<1>3. CASE GenerateStaticFiles
  <2>1. \A c \in Controllers, g \in FileNames : Owned(c, g)' = Owned(c, g)
    BY <1>0, <1>3, RootWrite DEF GenerateStaticFiles, FileNames
  <2>2. DuplicateViews' = DuplicateViews
    BY <1>3 DEF GenerateStaticFiles, DuplicateViews
  <2>3. QED
    BY <1>0, <1>3, <2>1, <2>2 DEF GenerateStaticFiles, OwnedInv,
                                  LoopProgress, Controllers
<1>4. CASE GenerateModelDefinitions
  <2>1. ~DuplicateViews /\ DuplicateViews' = DuplicateViews
    BY <1>4 DEF GenerateModelDefinitions, OwnedInv, DuplicateViews
  <2>2. CASE files' = Write(CtrlFile(idx, "models"), idx)
             /\ LoopNext("gen_actions") /\ UNCHANGED outcome
    <3>1. \A c \in Controllers, g \in FileNames :
              Owned(c, g)' = (Owned(c, g) \/ (c = idx /\ g = "models"))
      BY <1>0, <1>4, <2>1, <2>2, LoopWrite DEF GenerateModelDefinitions,
                                              FileNames
    <3>2. \A c \in Controllers : c <= idx => Owned(c, "models")'
      <4>1. ASSUME NEW c \in Controllers, c <= idx
            PROVE  Owned(c, "models")'
        <5>1. CASE c = idx
          BY <3>1, <5>1 DEF FileNames
        <5>2. CASE c # idx
          <6>1. c < idx /\ pc = "gen_models"
            BY <1>0, <1>4, <4>1, <5>2 DEF TypeOK, Controllers,
                                          GenerateModelDefinitions
          <6>2. Owned(c, "models")
            BY <6>1 DEF OwnedInv, LoopProgress
          <6>3. QED
            BY <3>1, <6>2 DEF FileNames
        <5>3. QED
          BY <5>1, <5>2
      <4>2. QED
        BY <4>1
    <3>3. CASE idx = NumControllers
      <4>1. pc' = "gen_actions" /\ idx' = 1 /\ outcome' = outcome
        BY <2>2, <3>3 DEF LoopNext
      <4>2. \A c \in Controllers : Owned(c, "models")'
        BY <1>0, <3>2, <3>3 DEF TypeOK, Controllers
      <4>3. \A c \in Controllers : ~(c < 1)
        BY DEF Controllers
      <4>4. QED
        BY <1>0, <2>1, <4>1, <4>2, <4>3 DEF OwnedInv, LoopProgress
    <3>4. CASE idx # NumControllers
      BY <1>0, <1>4, <2>1, <2>2, <3>1, <3>2, <3>4
      DEF GenerateModelDefinitions, LoopNext, OwnedInv, LoopProgress,
          TypeOK, Controllers, FileNames
    <3>5. QED
      BY <3>3, <3>4
  <2>3. CASE ConvertMayFail /\ pc' = "idle" /\ outcome' = "error"
             /\ UNCHANGED <<files, idx>>
    BY <1>0, <1>4, <2>3 DEF GenerateModelDefinitions, OwnedInv, LoopProgress
  <2>4. QED
    BY <1>4, <2>2, <2>3 DEF GenerateModelDefinitions
<1>5. CASE GenerateActionDefinitions
  <2>1. ~DuplicateViews /\ DuplicateViews' = DuplicateViews
    BY <1>5 DEF GenerateActionDefinitions, OwnedInv, DuplicateViews
  <2>2. \A c \in Controllers, g \in FileNames :
            Owned(c, g)' = (Owned(c, g) \/ (c = idx /\ g = "actions"))
    BY <1>0, <1>5, <2>1, LoopWrite DEF GenerateActionDefinitions, FileNames
  <2>3. \A c \in Controllers : c <= idx => Owned(c, "actions")'
    <3>1. ASSUME NEW c \in Controllers, c <= idx
          PROVE  Owned(c, "actions")'
      <4>1. CASE c = idx
        BY <2>2, <4>1 DEF FileNames
      <4>2. CASE c # idx
        <5>1. c < idx /\ pc = "gen_actions"
          BY <1>0, <1>5, <3>1, <4>2 DEF TypeOK, Controllers, GenerateActionDefinitions
        <5>2. Owned(c, "actions")
          BY <5>1 DEF OwnedInv, LoopProgress
        <5>3. QED
          BY <2>2, <5>2 DEF FileNames
      <4>3. QED
        BY <4>1, <4>2
    <3>2. QED
      BY <3>1
  <2>4. \A c \in Controllers : Owned(c, "models")'
    BY <1>0, <1>5, <2>2 DEF GenerateActionDefinitions, OwnedInv,
                            LoopProgress, FileNames
  <2>5. CASE idx = NumControllers
    <3>1. pc' = "gen_global" /\ idx' = 1 /\ outcome' = outcome
      BY <1>5, <2>5 DEF GenerateActionDefinitions, LoopNext
    <3>2. \A c \in Controllers : Owned(c, "actions")'
      BY <1>0, <2>3, <2>5 DEF TypeOK, Controllers
    <3>3. QED
      BY <1>0, <2>1, <2>4, <3>1, <3>2 DEF OwnedInv, LoopProgress
  <2>6. CASE idx # NumControllers
    BY <1>0, <1>5, <2>1, <2>3, <2>4, <2>6
    DEF GenerateActionDefinitions, LoopNext, OwnedInv, LoopProgress,
        TypeOK, Controllers
  <2>7. QED
    BY <2>5, <2>6
<1>6. CASE GenerateGlobalModelImports
  <2>1. \A c \in Controllers, g \in FileNames : Owned(c, g)' = Owned(c, g)
    BY <1>0, <1>6, RootWrite DEF GenerateGlobalModelImports, FileNames
  <2>2. DuplicateViews' = DuplicateViews
    BY <1>6 DEF GenerateGlobalModelImports, DuplicateViews
  <2>3. QED
    BY <1>0, <1>6, <2>1, <2>2 DEF GenerateGlobalModelImports, OwnedInv,
                                  LoopProgress, FileNames
<1>7. CASE GenerateServerProvider
  <2>1. \A c \in Controllers, g \in FileNames : Owned(c, g)' = Owned(c, g)
    BY <1>0, <1>7, RootWrite DEF GenerateServerProvider, FileNames
  <2>2. DuplicateViews' = DuplicateViews
    BY <1>7 DEF GenerateServerProvider, DuplicateViews
  <2>3. QED
    BY <1>0, <1>7, <2>1, <2>2 DEF GenerateServerProvider, OwnedInv,
                                  LoopProgress, FileNames, Controllers
<1>8. CASE GenerateViewServers
  <2>1. ~DuplicateViews /\ DuplicateViews' = DuplicateViews
    BY <1>8 DEF GenerateViewServers, OwnedInv, DuplicateViews
  <2>2. \A c \in Controllers, g \in FileNames :
            Owned(c, g)' = (Owned(c, g) \/ (c = idx /\ g = "useServer"))
    BY <1>0, <1>8, <2>1, LoopWrite DEF GenerateViewServers, FileNames
  <2>3. \A c \in Controllers : c <= idx => Owned(c, "useServer")'
    <3>1. ASSUME NEW c \in Controllers, c <= idx
          PROVE  Owned(c, "useServer")'
      <4>1. CASE c = idx
        BY <2>2, <4>1 DEF FileNames
      <4>2. CASE c # idx
        <5>1. c < idx /\ pc = "gen_views"
          BY <1>0, <1>8, <3>1, <4>2 DEF TypeOK, Controllers, GenerateViewServers
        <5>2. Owned(c, "useServer")
          BY <5>1 DEF OwnedInv, LoopProgress
        <5>3. QED
          BY <2>2, <5>2 DEF FileNames
      <4>3. QED
        BY <4>1, <4>2
    <3>2. QED
      BY <3>1
  <2>4. \A c \in Controllers : Owned(c, "models")' /\ Owned(c, "actions")'
    BY <1>0, <1>8, <2>2 DEF GenerateViewServers, OwnedInv,
                            LoopProgress, FileNames
  <2>5. CASE idx = NumControllers
    BY <1>0, <1>8, <2>1, <2>3, <2>4, <2>5
    DEF GenerateViewServers, LoopNext, OwnedInv, LoopProgress,
        TypeOK, Controllers
  <2>6. CASE idx # NumControllers
    BY <1>0, <1>8, <2>1, <2>3, <2>4, <2>6
    DEF GenerateViewServers, LoopNext, OwnedInv, LoopProgress,
        TypeOK, Controllers
  <2>7. QED
    BY <2>5, <2>6
<1>9. CASE ClearStaticDir
  <2>1. \A c \in Controllers, g \in FileNames : Owned(c, g)' = Owned(c, g)
    BY <1>9, OwnedUnchanged DEF ClearStaticDir
  <2>2. DuplicateViews' = DuplicateViews
    BY <1>9 DEF ClearStaticDir, DuplicateViews
  <2>3. QED
    BY <1>0, <1>9, <2>1, <2>2 DEF ClearStaticDir, OwnedInv, LoopProgress,
                                  FileNames
<1>10. CASE SpawnBuilder
  <2>1. \A c \in Controllers, g \in FileNames : Owned(c, g)' = Owned(c, g)
    BY <1>10, OwnedUnchanged DEF SpawnBuilder
  <2>2. DuplicateViews' = DuplicateViews
    BY <1>10 DEF SpawnBuilder, DuplicateViews
  <2>3. pc' \in {"spawn", "join"}
    BY <1>10 DEF SpawnBuilder, LoopNext
  <2>4. QED
    BY <1>0, <1>10, <2>1, <2>2, <2>3 DEF SpawnBuilder, OwnedInv,
                                         LoopProgress, FileNames
<1>11. CASE JoinBuilder
  <2>1. \A c \in Controllers, g \in FileNames : Owned(c, g)' = Owned(c, g)
    BY <1>11, OwnedUnchanged DEF JoinBuilder
  <2>2. DuplicateViews' = DuplicateViews
    BY <1>11 DEF JoinBuilder, DuplicateViews
  <2>3. pc' = "join" \/ (pc' = "idle" /\ outcome' = "ok")
    BY <1>11 DEF JoinBuilder
  <2>4. QED
    BY <1>0, <1>11, <2>1, <2>2, <2>3 DEF JoinBuilder, OwnedInv,
                                         LoopProgress, FileNames
<1>12. CASE \E c \in Controllers : BuilderThread(c) \/ EditSource(c)
  <2>1. UNCHANGED <<files, registry, builds, pc, idx, outcome>>
    BY <1>12 DEF BuilderThread, BundleJavascript, WriteScript, WriteMap,
                 AppendBundledScript, EditSource
  <2>2. \A c \in Controllers, g \in FileNames : Owned(c, g)' = Owned(c, g)
    BY <2>1, OwnedUnchanged
  <2>3. DuplicateViews' = DuplicateViews
    BY <2>1 DEF DuplicateViews
  <2>4. QED
    BY <1>0, <2>1, <2>2, <2>3 DEF OwnedInv, LoopProgress, FileNames
<1>13. CASE UNCHANGED vars
  <2>1. \A c \in Controllers, g \in FileNames : Owned(c, g)' = Owned(c, g)
    BY <1>13, OwnedUnchanged DEF vars
  <2>2. DuplicateViews' = DuplicateViews
    BY <1>13 DEF vars, DuplicateViews
  <2>3. QED
    BY <1>0, <1>13, <2>1, <2>2 DEF vars, OwnedInv, LoopProgress, FileNames
<1>14. QED
  BY <1>1, <1>2, <1>3, <1>4, <1>5, <1>6, <1>7, <1>8, <1>9, <1>10, <1>11,
     <1>12, <1>13 DEF Next, MainThread

(* For registries of page files below the view root, whatever the number   *)
(* of controllers and builds: once a build is past its generation stages,  *)
(* every controller's models.ts, actions.ts and useServer.ts are its own,  *)
(* written in that build.  validate_unique_paths is what makes this hold.  *)
THEOREM ManagedFilesOwnedCorrect ==
    ASSUME PageLayout
    PROVE  Spec => []ManagedFilesOwned
<1>1. OwnedInv => ManagedFilesOwned
  BY DEF OwnedInv, ManagedFilesOwned, LoopProgress, Owned, GenerationDone,
         AfterModels, AfterActions, BuildSucceeded
<1>2. QED
  BY <1>1, OwnedInit, OwnedNext, PTL DEF Spec

(* For registries of page files below the view root: validation leaves no  *)
(* two controllers sharing a view directory, and each generate_* loop has  *)
(* written the managed file of every controller it has passed in this     *)
(* build, its own name in its own directory.                              *)
THEOREM OwnedInvCorrect ==
    ASSUME PageLayout
    PROVE  Spec => []OwnedInv
BY OwnedInit, OwnedNext, PTL DEF Spec
=============================================================================
