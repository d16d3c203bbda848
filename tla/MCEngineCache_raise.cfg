\* A request caches a new engine while unregister_global_engine awaits a dispose.
CONSTANTS
    u1 = u1
    u2 = u2
    r1 = r1
    r2 = r2
    None = None
    URIs <- MCURIs
    Requests <- MCRequests
    MaxEngines = 4
    MaxShutdowns = 2
    ForceNew = FALSE
    Graceful = FALSE
    NoEngine = None
SPECIFICATION Spec
INVARIANT UnregisterCompletes
\* Every request and shutdown is bounded; the loop may end idle.
CHECK_DEADLOCK FALSE
