-------------------------- MODULE GracefulService --------------------------
(***************************************************************************)
(* What the wingmate process promises whoever sends it requests and stops  *)
(* it: requests are admitted only while it is up, it never comes up again  *)
(* once it stopped admitting, and it ends cleanly only with no request in  *)
(* progress.  It may also end uncleanly at any time.                       *)
(***************************************************************************)
CONSTANT Reqs

VARIABLES
    phase,    \* "down", "up", "draining" or "ended"
    busy,     \* requests in progress
    clean     \* it ended cleanly

svc == <<phase, busy, clean>>

Init == phase = "down" /\ busy = {} /\ clean = FALSE

Open == phase = "down" /\ phase' = "up" /\ UNCHANGED <<busy, clean>>

Admit(r) ==
    /\ phase = "up"
    /\ busy' = busy \union {r}
    /\ UNCHANGED <<phase, clean>>

Complete(r) ==
    /\ r \in busy
    /\ busy' = busy \ {r}
    /\ UNCHANGED <<phase, clean>>

\* Admission ends for good.
Close == phase \in {"down", "up"} /\ phase' = "draining" /\ UNCHANGED <<busy, clean>>

End ==
    /\ phase # "ended" /\ phase' = "ended"
    /\ clean' \in {FALSE, phase # "up" /\ busy = {}}
    /\ UNCHANGED busy

Next == Open \/ Close \/ End \/ \E r \in Reqs : Admit(r) \/ Complete(r)

Spec == Init /\ [][Next]_svc
=============================================================================
