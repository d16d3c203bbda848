---------------------------- MODULE MCServerState ----------------------------
(* Two views under the one ServerProvider.                                *)
EXTENDS ServerState, TLC

CONSTANTS home, dash, undef

MCViews == {home, dash}
=============================================================================
