---------------------------- MODULE MCEngineCache ----------------------------
(* Two database URIs, two request tasks, up to four engines and two        *)
(* shutdowns: enough for a second engine to be cached while the first is   *)
(* disposed, and for requests to come back after a shutdown.               *)
EXTENDS EngineCache, TLC

CONSTANTS u1, u2, r1, r2, None

MCURIs == {u1, u2}
MCRequests == {r1, r2}
=============================================================================
