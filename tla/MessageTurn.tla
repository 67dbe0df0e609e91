----------------------------- MODULE MessageTurn -----------------------------
(***************************************************************************)
(* What HandleMessage promises of each message, with no sessions, no       *)
(* connections and no time: a message is answered at once or put to a      *)
(* claude process of its own; it is concluded once, with the records that  *)
(* belong to its conclusion; and no concluded message has a process at     *)
(* work, unless the agent crashed.                                         *)
(***************************************************************************)
EXTENDS Sequences

CONSTANTS
    Turns,      \* messages
    MayCrash    \* whether an agent may crash

VARIABLES
    place,      \* "new", "asked" (the CLI was), or "over"
    work,       \* the message's process: "none", "running", "ended"
    answer,     \* "pong", "answer", "other", or "none"
    log         \* the records of the message

turn == <<place, work, answer, log>>

Init ==
    /\ place = [t \in Turns |-> "new"] /\ work = [t \in Turns |-> "none"]
    /\ answer = [t \in Turns |-> "none"] /\ log = [t \in Turns |-> <<>>]

Move(t, from, to) == place[t] = from /\ place' = [place EXCEPT ![t] = to]

Conclude(t, from, how, entries) ==
    /\ Move(t, from, "over")
    /\ answer' = [answer EXCEPT ![t] = how]
    /\ log' = [log EXCEPT ![t] = entries]

\* Without a process: a ping, what cannot be answered, a CLI that cannot be run.
AnswerAtOnce(t) ==
    /\ \/ Conclude(t, "new", "pong", <<"received", "sent">>)
       \/ \E entries \in {<<>>, <<"received">>, <<"received", "cli_request", "cli_error">>} :
             Conclude(t, "new", "other", entries)
    /\ UNCHANGED work

Ask(t) ==
    /\ Move(t, "new", "asked")
    /\ log' = [log EXCEPT ![t] = <<"received", "cli_request">>]
    /\ work' \in {work, [work EXCEPT ![t] = "running"]}
    /\ UNCHANGED answer

Run(t) ==
    /\ place[t] = "asked" /\ work[t] = "none"
    /\ work' = [work EXCEPT ![t] = "running"]
    /\ UNCHANGED <<place, answer, log>>

ProcessEnds(t) ==
    /\ work[t] = "running"
    /\ work' = [work EXCEPT ![t] = "ended"]
    /\ UNCHANGED <<place, answer, log>>

Answer(t) ==
    /\ work[t] = "ended"
    /\ Conclude(t, "asked", "answer", <<"received", "cli_request", "cli_response", "sent">>)
    /\ UNCHANGED work

\* An error, or a timeout: a process still at work is killed.
Fail(t) ==
    /\ Conclude(t, "asked", "other", <<"received", "cli_request", "cli_error">>)
    /\ work' = [work EXCEPT ![t] = IF @ = "running" THEN "ended" ELSE @]

\* An agent goes, its messages with it; its processes run on.
Crash(S) ==
    /\ MayCrash
    /\ place' = [t \in Turns |-> IF t \in S THEN "over" ELSE place[t]]
    /\ UNCHANGED <<work, answer, log>>

Next ==
    \/ \E t \in Turns : \/ AnswerAtOnce(t) \/ Ask(t) \/ Run(t) \/ ProcessEnds(t)
                        \/ Answer(t) \/ Fail(t)
    \/ \E S \in SUBSET Turns : Crash(S)

Spec == Init /\ [][Next]_turn

Stands(t) == place'[t] = "over" /\ answer'[t] = answer[t] /\ log'[t] = log[t]

ConcludedStand == \A t \in Turns : place[t] = "over" => Stands(t)

\* What is concluded stays as it was answered and recorded: nothing that comes
\* later, as the end of a process that was given up, touches it.
Settled == [][ConcludedStand]_turn
=============================================================================
