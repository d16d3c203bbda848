\* get_function_dependencies with a six-dependency chain.
CONSTANT NumDeps <- MCNumDeps
SPECIFICATION Spec
INVARIANT ScopedCleanup
INVARIANT CleanupInv
\* A call ends returned or raised; nothing runs after it.
CHECK_DEADLOCK FALSE
