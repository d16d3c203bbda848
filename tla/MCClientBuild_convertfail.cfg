\* A schema conversion raising after an earlier controller's models.ts was written.
CONSTANTS
    views = views
    home = home
    dash = dash
    outside = outside
    NumControllers = 2
    Dirs <- MCDirs
    ViewRoot = views
    ParentDir <- MCParentDir
    ViewPaths <- PagePaths
    ScriptBase <- MCScriptBase
    MaxVersion = 2
    MapRefs = {"r1", "r2"}
    MaxBuilds = 2
    ConvertMayFail = TRUE
    BundlerMayFail = FALSE
SPECIFICATION Spec
INVARIANT TypeFilesConsistent
\* The builder stops when no further build() is requested.
CHECK_DEADLOCK FALSE
