\* Builds in which schema conversion and the bundler may raise.
CONSTANTS
    views = views
    home = home
    dash = dash
    outside = outside
    NumControllers = 2
    Dirs <- MCDirs
    ViewRoot = views
    ParentDir <- MCParentDir
    ViewPaths <- PagePaths
    ScriptBase <- MCScriptBase
    MaxVersion = 2
    MapRefs = {"r1", "r2"}
    MaxBuilds = 2
    ConvertMayFail = TRUE
    BundlerMayFail = TRUE
SPECIFICATION Spec
INVARIANTS
    NoOrphanArtifacts
    ArtifactsInv
\* The builder stops when no further build() is requested.
CHECK_DEADLOCK FALSE
