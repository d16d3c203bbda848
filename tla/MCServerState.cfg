\* A view's useServer() under the generated ServerProvider.
CONSTANTS
    home = home
    dash = dash
    undef = undef
    Views <- MCViews
    Undefined = undef
SPECIFICATION Spec
INVARIANT UseServerReturns
\* Each view calls useServer once; the page then stays as it is.
CHECK_DEADLOCK FALSE
