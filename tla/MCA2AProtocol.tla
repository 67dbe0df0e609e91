----------------------------- MODULE MCA2AProtocol -----------------------------
(* Numbers of calls for TLC: the first is made by a person, the second by the  *)
(* claude process it starts.                                                   *)
EXTENDS A2AProtocol, TLC

MCCalls == 1 .. 2
MCRoots == {1}

CONSTANTS a, b, x

(* Agents are alike until the first of them is called: that is a.              *)
MCCallees == 1 :> {a, x} @@ 2 :> {a, b, x}
=============================================================================
