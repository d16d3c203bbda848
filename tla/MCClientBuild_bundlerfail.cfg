\* bundle_javascript may raise inside a builder thread.
CONSTANTS
    views = views
    home = home
    dash = dash
    outside = outside
    NumControllers = 2
    Dirs <- MCDirs
    ViewRoot = views
    ParentDir <- MCParentDir
    ViewPaths <- PagePaths
    ScriptBase <- MCScriptBase
    MaxVersion = 2
    MapRefs = {"r1", "r2"}
    MaxBuilds = 2
    ConvertMayFail = FALSE
    BundlerMayFail = TRUE
SPECIFICATION Spec
INVARIANT
    ScriptsServable
\* The builder stops when no further build() is requested.
CHECK_DEADLOCK FALSE
