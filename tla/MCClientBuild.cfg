\* Page files below the view root; OwnedInv is the inductive invariant of
\* the proof of ManagedFilesOwned.
CONSTANTS
    views = views
    home = home
    dash = dash
    outside = outside
    NumControllers = 2
    Dirs <- MCDirs
    ViewRoot = views
    ParentDir <- MCParentDir
    ViewPaths <- PagePaths
    ScriptBase <- MCScriptBase
    MaxVersion = 2
    MapRefs = {"r1", "r2"}
    MaxBuilds = 2
    ConvertMayFail = TRUE
    BundlerMayFail = FALSE
SPECIFICATION Spec
INVARIANTS
    ManagedFilesOwned
    ScriptsServable
    NoOrphanArtifacts
    IdempotentNaming
    TypeOK
    OwnedInv
    ArtifactsInv
    ServableInv
\* The builder stops when no further build() is requested.
CHECK_DEADLOCK FALSE
