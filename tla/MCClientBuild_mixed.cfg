\* A registry may give a page directory instead of a page file.
CONSTANTS
    views = views
    home = home
    dash = dash
    outside = outside
    NumControllers = 2
    Dirs <- MCDirs
    ViewRoot = views
    ParentDir <- MCParentDir
    ViewPaths <- MixedPaths
    ScriptBase <- MCScriptBase
    MaxVersion = 2
    MapRefs = {"r1", "r2"}
    MaxBuilds = 2
    ConvertMayFail = FALSE
    BundlerMayFail = FALSE
SPECIFICATION Spec
INVARIANT
    ManagedFilesOwned
\* The builder stops when no further build() is requested.
CHECK_DEADLOCK FALSE
