---------------------------- MODULE MCMCPServer ----------------------------
(***************************************************************************)
(* Small instances of MCPServer: two clients with up to two requests       *)
(* each, a TTL of two time units, calls that may take longer than it.      *)
(***************************************************************************)
EXTENDS MCPServer, TLC

Interchangeable == Permutations(Clients) \union Permutations(Ids \ FallbackIds)
=============================================================================
