--------------------------- MODULE MCMCPSessions ---------------------------
(***************************************************************************)
(* Small instances of MCPSessions: two or three session ids, one kind of  *)
(* stored data, and a TTL and cleanup interval of two time units.          *)
(***************************************************************************)
EXTENDS MCPSessions
=============================================================================
