\* Shutdown racing live requests, without force_new: whatever the cache
\* loses on a completed unregister was disposed by it.
CONSTANTS
    u1 = u1
    u2 = u2
    r1 = r1
    r2 = r2
    None = None
    URIs <- MCURIs
    Requests <- MCRequests
    MaxEngines = 4
    MaxShutdowns = 2
    ForceNew = FALSE
    Graceful = FALSE
    NoEngine = None
SPECIFICATION Spec
INVARIANT DisposedInv
PROPERTY ClearedEnginesDisposed
\* Every request and shutdown is bounded; the loop may end idle.
CHECK_DEADLOCK FALSE
