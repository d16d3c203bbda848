----------------------------- MODULE ServerState -----------------------------
(***************************************************************************)
(* The client state wiring that ClientBuilder emits: server.tsx's          *)
(* ServerContext and ServerProvider (generate_server_provider) and each    *)
(* view's useServer hook (generate_view_servers).  React gives a component *)
(* that calls useContext(ServerContext) the `value` prop of the nearest    *)
(* ServerContext.Provider above it, or the context's default value when    *)
(* the Provider is given no `value`; other props of a Provider are not     *)
(* read.  The state itself and the side-effect merge are abstracted away:  *)
(* they are only reached once a hook has obtained the context.             *)
(***************************************************************************)
CONSTANTS Views,      \* the controllers' views, each calling its useServer()
          Undefined   \* JavaScript's undefined

\* The object {serverState, setServerState} a Provider's `value` would carry.
StateAndSetter == "serverState+setServerState"

VARIABLES provider,  \* ServerProvider: "unmounted", "mounted" or "threw"
          context,   \* what useContext(ServerContext) returns below it
          hook       \* hook[v]: the view's useServer() call

vars == <<provider, context, hook>>

TypeOK ==
    /\ provider \in {"unmounted", "mounted", "threw"}
    /\ context \in {Undefined, StateAndSetter}
    /\ hook \in [Views -> {"idle", "returned", "threw"}]

\* createContext<{serverState, setServerState}>(undefined as any).
ContextDefault == Undefined

\* The props the generated <ServerContext.Provider> is given.
ProviderProps == {"serverState", "setServerState"}

\* What useContext returns under a Provider given these props.
ProvidedValue(props) ==
    IF "value" \in props THEN StateAndSetter ELSE ContextDefault

Init ==
    /\ provider = "unmounted"
    /\ context = ContextDefault
    /\ hook = [v \in Views |-> "idle"]

\* ServerProvider renders: useState({KEY: GLOBAL_STATE[KEY], ...}) indexes
\* GLOBAL_STATE with bare KEY identifiers that server.tsx never declares,
\* so it throws a ReferenceError unless the page defines them as globals;
\* otherwise it renders <ServerContext.Provider serverState=...
\* setServerState=...> around the page.
MountProvider ==
    /\ provider = "unmounted"
    /\ \/ /\ provider' = "threw"
          /\ UNCHANGED context
       \/ /\ provider' = "mounted"
          /\ context' = ProvidedValue(ProviderProps)
    /\ UNCHANGED hook

\* A view below the Provider calls useServer(): `const { serverState,
\* setServerState } = useContext(ServerContext)` throws a TypeError when
\* the context value is undefined; otherwise the hook returns the view's
\* slice spread with its action wrappers.
UseServer(v) ==
    /\ provider = "mounted"
    /\ hook[v] = "idle"
    /\ hook' = [hook EXCEPT ![v] = IF context = Undefined THEN "threw"
                                                          ELSE "returned"]
    /\ UNCHANGED <<provider, context>>

Next == MountProvider \/ \E v \in Views : UseServer(v)

Spec == Init /\ [][Next]_vars

-----------------------------------------------------------------------------
(* Properties.                                                             *)

\* spec.md 4.5(c) and 4.6: the provider exposes the state and its setter,
\* and a view's useServer() returns its controller's slice and action
\* wrappers: no call of useServer in a view under a mounted ServerProvider
\* throws.
UseServerReturns == \A v \in Views : hook[v] # "threw"
=============================================================================
