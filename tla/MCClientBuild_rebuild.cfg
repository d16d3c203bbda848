\* Repeated builds with edited view sources.
CONSTANTS
    views = views
    home = home
    dash = dash
    outside = outside
    NumControllers = 2
    Dirs <- MCDirs
    ViewRoot = views
    ParentDir <- MCParentDir
    ViewPaths <- PagePaths
    ScriptBase <- MCScriptBase
    MaxVersion = 2
    MapRefs = {"r1", "r2"}
    MaxBuilds = 2
    ConvertMayFail = FALSE
    BundlerMayFail = FALSE
SPECIFICATION Spec
INVARIANT
    RecordedScriptsExist
\* The builder stops when no further build() is requested.
CHECK_DEADLOCK FALSE
