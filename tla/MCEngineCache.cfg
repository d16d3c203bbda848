\* Graceful shutdown without force_new: no connection pool is orphaned.
CONSTANTS
    u1 = u1
    u2 = u2
    r1 = r1
    r2 = r2
    None = None
    URIs <- MCURIs
    Requests <- MCRequests
    MaxEngines = 4
    MaxShutdowns = 2
    ForceNew = FALSE
    Graceful = TRUE
    NoEngine = None
SPECIFICATION Spec
INVARIANTS NoOrphanPool PoolInv
\* Every request and shutdown is bounded; the loop may end idle.
CHECK_DEADLOCK FALSE
