-------------------------- MODULE MCAgentLifecycle --------------------------
(***************************************************************************)
(* Small instances of AgentLifecycle: an embedding program with one or two *)
(* goroutines calling Start and one calling Shutdown.                      *)
(***************************************************************************)
EXTENDS AgentLifecycle
=============================================================================
