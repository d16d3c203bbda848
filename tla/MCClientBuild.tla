--------------------------- MODULE MCClientBuild ---------------------------
(* Instance of ClientBuild for TLC: two controllers, a view root "views"   *)
(* with two page directories below it.                                     *)
EXTENDS ClientBuild, TLC

CONSTANTS views, home, dash, outside

MCDirs == {views, home, dash}
MCParentDir == (views :> outside) @@ (home :> views) @@ (dash :> views)
MCScriptBase == <<"home_controller", "dashboard_controller">>

FilePath(d) == [kind |-> "file", dir |-> d]
DirPath(d) == [kind |-> "dir", dir |-> d]

\* page.tsx files in the two page directories: the usual layout.
PagePaths == {FilePath(home), FilePath(dash)}
\* ... plus a page directory given as a directory.
MixedPaths == PagePaths \cup {DirPath(home)}
\* ... plus a page.tsx directly in the view root.
RootPagePaths == PagePaths \cup {FilePath(views)}
=============================================================================
