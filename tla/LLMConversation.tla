--------------------------- MODULE LLMConversation ---------------------------
(***************************************************************************)
(* What the agent does with a message: HandleMessage and handleLLMMessage  *)
(* of internal/agent/agent.go, the CLI executor of internal/llm/cli.go and *)
(* the session map of internal/llm/session.go.                             *)
(*                                                                         *)
(* Each message is a turn, handled by a goroutine of its own.  The claude  *)
(* process is modelled by what this code sees of it: it runs, exits with a *)
(* code and an output, may be killed, and keeps the turns of a session it  *)
(* is told to resume.  A session is named by the turn that created it.     *)
(***************************************************************************)
EXTENDS Naturals, Sequences

CONSTANTS
    Turns,        \* messages, each handled once
    Dialogs,      \* the conversations their senders mean them to belong to
    Traced,       \* whether a turn's context may carry its dialog's trace id
    None,         \* the empty session id, no dialog, no conversation
    HasCLI,       \* a.llmExecutor # nil
    Outcomes,     \* how the claude process may exit
    MaxClock      \* bound on the readings of the clock

AllOutcomes == {"answer", "answerNoId", "garbage", "exit1", "exit2", "exit127", "exitOther"}

ASSUME ConversationAssumption ==
    /\ Traced \subseteq BOOLEAN /\ HasCLI \in BOOLEAN
    /\ Outcomes \subseteq AllOutcomes
    /\ None \notin Turns \union Dialogs
    /\ MaxClock \in Nat
    /\ Dialogs \intersect Nat = {}

VARIABLES
    sessions,   \* sm.sessions
    pc,         \* where the handler of a turn is
    dialog,     \* the dialog a turn belongs to
    conv,       \* conversationID
    began,      \* what time.Now() showed when it was chosen
    resumed,    \* sessionID given to the CLI
    cli, exit,  \* the claude process of a turn, and how it exited
    session,    \* resp.SessionID
    reply,      \* what the turn was answered
    trail,      \* what the flight log says of the turn
    history,    \* the turns a CLI session knows of
    earlier     \* the turns that were over when a turn looked up its session

clients  == <<dialog, conv, began>>
process  == <<cli, exit, session, history>>
convVars == <<sessions, pc, clients, resumed, process, reply, trail, earlier>>

\* Conversation ids: trace ids, which name the dialog, or times.
ConvIds == Dialogs \union (0 .. MaxClock)

ConvInit ==
    /\ sessions = [c \in ConvIds |-> None]
    /\ pc = [t \in Turns |-> "idle"]
    /\ dialog = [t \in Turns |-> None] /\ conv = [t \in Turns |-> None]
    /\ began = [t \in Turns |-> 0]
    /\ resumed = [t \in Turns |-> None]
    /\ cli = [t \in Turns |-> "none"] /\ exit = [t \in Turns |-> "none"]
    /\ session = [t \in Turns |-> None]
    /\ reply = [t \in Turns |-> "none"]
    /\ trail = [t \in Turns |-> <<>>]
    /\ history = [s \in Turns |-> {}]
    /\ earlier = [t \in Turns |-> {}]

Goto(t, from, to) == pc[t] = from /\ pc' = [pc EXCEPT ![t] = to]

Record(t, entries) == trail' = [trail EXCEPT ![t] = @ \o entries]

Answer(t, from, result) ==
    /\ Goto(t, from, "done")
    /\ reply' = [reply EXCEPT ![t] = result]

-----------------------------------------------------------------------------
(* HandleMessage.                                                          *)

\* No message or no parts: -32602, and nothing in the log.
RejectEmpty(t) ==
    /\ Answer(t, "idle", "invalidParams")
    /\ UNCHANGED <<sessions, clients, resumed, process, trail, earlier>>

AnswerPing(t) ==
    /\ Answer(t, "idle", "pong")
    /\ Record(t, <<"received", "sent">>)
    /\ UNCHANGED <<sessions, clients, resumed, process, earlier>>

\* No CLI: 2001.  No text in the message: -32602.
RejectUnanswerable(t) ==
    /\ Answer(t, "idle", IF HasCLI THEN "invalidParams" ELSE "2001")
    /\ Record(t, <<"received">>)
    /\ UNCHANGED <<sessions, clients, resumed, process, earlier>>

\* A bug: without a trace id the conversation id stays empty (here: 0).
ConversationIdEmpty(d, traced, now) == IF traced THEN d ELSE 0

\* The trace id of the context, or the time.
ConversationId(d, traced, now) == IF traced THEN d ELSE now

\* Time passes, and the wall clock may be set back, anywhere in what the turns
\* do: it may show anything.
Converse(t, d, traced, now) ==
    /\ HasCLI
    /\ Goto(t, "idle", "lookup")
    /\ dialog' = [dialog EXCEPT ![t] = d]
    /\ conv' = [conv EXCEPT ![t] = ConversationId(d, traced, now)]
    /\ began' = [began EXCEPT ![t] = now]
    /\ Record(t, <<"received">>)
    /\ UNCHANGED <<sessions, resumed, process, reply, earlier>>

-----------------------------------------------------------------------------
(* handleLLMMessage and Execute.                                           *)

Over == {t \in Turns : pc[t] = "done"}

\* sessionManager.Get, and the record of the request.
Lookup(t) ==
    /\ Goto(t, "lookup", "launch")
    /\ resumed' = [resumed EXCEPT ![t] = sessions[conv[t]]]
    /\ earlier' = [earlier EXCEPT ![t] = Over]
    /\ Record(t, <<"cli_request">>)
    /\ UNCHANGED <<sessions, clients, process, reply>>

Launch(t) ==
    /\ Goto(t, "launch", "waiting")
    /\ cli' = [cli EXCEPT ![t] = "running"]
    /\ UNCHANGED <<sessions, clients, resumed, exit, session, history,
                   reply, trail, earlier>>

\* Execute returns an error.
Fails(t, from, code) ==
    /\ Goto(t, from, "failed")
    /\ reply' = [reply EXCEPT ![t] = code]
    /\ UNCHANGED <<sessions, clients, resumed, trail, earlier>>

LaunchFails(t) == Fails(t, "launch", "2001") /\ UNCHANGED process

\* The process ends.  One that answered has the turn in its
\* session, which it may continue under the same id or under a new one.
CLIExits(t, o) ==
    /\ cli[t] = "running"
    /\ cli' = [cli EXCEPT ![t] = "exited"]
    /\ exit' = [exit EXCEPT ![t] = o]
    /\ IF o = "answer"
       THEN \E s \in {t, resumed[t]} \ {None} :
                /\ session' = [session EXCEPT ![t] = s]
                /\ history' = [history EXCEPT ![s] =
                       {t} \union IF resumed[t] = None THEN {} ELSE history[resumed[t]]]
       ELSE UNCHANGED <<session, history>>
    /\ UNCHANGED <<sessions, pc, clients, resumed, reply, trail, earlier>>

\* A killed process ends.
CLIDies(t) ==
    /\ cli[t] = "killed"
    /\ cli' = [cli EXCEPT ![t] = "exited"]
    /\ UNCHANGED <<sessions, pc, clients, resumed, exit, session, history,
                   reply, trail, earlier>>

\* A bug: the timeout is reported and the process left alone.
TimesOutAlive(t) == Fails(t, "waiting", "2003") /\ UNCHANGED process

\* A bug: the result is waited for before the timeout is looked at.
TimesOutLate(t) ==
    /\ cli[t] = "exited"
    /\ Fails(t, "waiting", "2003")
    /\ UNCHANGED process

\* case <-ctx.Done(): the timeout, or the client has gone.  It may be picked
\* when the process has just exited as well.
TimesOut(t) ==
    /\ Fails(t, "waiting", "2003")
    /\ cli' = [cli EXCEPT ![t] = IF @ = "running" THEN "killed" ELSE @]
    /\ UNCHANGED <<exit, session, history>>

\* The error code of each unsuccessful exit.
CodeOf == [garbage |-> "2006", exit1 |-> "2004", exit2 |-> "2002", exit127 |-> "2001",
           exitOther |-> "2002"]

\* case err := <-done, with an error.
CLIFails(t) ==
    /\ cli[t] = "exited" /\ exit[t] \in DOMAIN CodeOf
    /\ Fails(t, "waiting", CodeOf[exit[t]])
    /\ UNCHANGED process

\* A bug: exit code 1 is "non-blocking", so its empty result is kept.
CLIAnswersPartly(t) ==
    /\ Goto(t, "waiting", "store")
    /\ cli[t] = "exited" /\ exit[t] \in {"answer", "answerNoId", "exit1"}
    /\ UNCHANGED <<sessions, clients, resumed, process, reply, trail, earlier>>

CLIAnswers(t) ==
    /\ Goto(t, "waiting", "store")
    /\ cli[t] = "exited" /\ exit[t] \in {"answer", "answerNoId"}
    /\ UNCHANGED <<sessions, clients, resumed, process, reply, trail, earlier>>

\* A bug: the id that was resumed is stored, not the one that came back.
StoreResumed(t) ==
    /\ Goto(t, "store", "respond")
    /\ sessions' = [sessions EXCEPT ![conv[t]] = resumed[t]]
    /\ UNCHANGED <<clients, resumed, process, reply, trail, earlier>>

\* sessionManager.Set, if the CLI named a session.
Store(t) ==
    /\ Goto(t, "store", "respond")
    /\ sessions' = [sessions EXCEPT ![conv[t]] = IF session[t] = None THEN @ ELSE session[t]]
    /\ UNCHANGED <<clients, resumed, process, reply, trail, earlier>>

Respond(t) ==
    /\ Answer(t, "respond", "answer")
    /\ Record(t, <<"cli_response", "sent">>)
    /\ UNCHANGED <<sessions, clients, resumed, process, earlier>>

\* A bug: an error is returned before it is recorded.
RespondErrorUnlogged(t) ==
    /\ Goto(t, "failed", "done")
    /\ UNCHANGED <<sessions, clients, resumed, process, reply, trail, earlier>>

RespondError(t) ==
    /\ Goto(t, "failed", "done")
    /\ Record(t, <<"cli_error">>)
    /\ UNCHANGED <<sessions, clients, resumed, process, reply, earlier>>

HandlerSteps(t) ==
    \/ Lookup(t) \/ Launch(t) \/ LaunchFails(t) \/ TimesOut(t)
    \/ CLIFails(t) \/ CLIAnswers(t) \/ Store(t) \/ Respond(t) \/ RespondError(t)

ConvNext ==
    \E t \in Turns :
        \/ RejectEmpty(t) \/ AnswerPing(t) \/ RejectUnanswerable(t)
        \/ \E d \in Dialogs, traced \in Traced, now \in 0 .. MaxClock :
              Converse(t, d, traced, now)
        \/ HandlerSteps(t)
        \/ CLIDies(t) \/ \E o \in Outcomes : CLIExits(t, o)

ConvSpec == ConvInit /\ [][ConvNext]_convVars

\* Handlers are scheduled, the timer of Execute fires, killed processes end.
ConvFairness == \A t \in Turns : WF_convVars(HandlerSteps(t)) /\ WF_convVars(CLIDies(t))

ConvFairSpec == ConvSpec /\ ConvFairness
-----------------------------------------------------------------------------
(* Properties.                                                             *)

LogEntries == {"received", "sent", "cli_request", "cli_response", "cli_error"}

\* Ranges; a failed turn has its error code before it is answered, and a
\* turn on its way to an answer has a CLI output to answer with.
ConvTypeOK ==
    /\ sessions \in [ConvIds -> Turns \union {None}]
    /\ pc \in [Turns -> {"idle", "lookup", "launch", "waiting", "failed", "store",
                         "respond", "done"}]
    /\ dialog \in [Turns -> Dialogs \union {None}] /\ conv \in [Turns -> ConvIds \union {None}]
    /\ resumed \in [Turns -> Turns \union {None}]
    /\ cli \in [Turns -> {"none", "running", "killed", "exited"}]
    /\ exit \in [Turns -> AllOutcomes \union {"none"}]
    /\ began \in [Turns -> 0 .. MaxClock]
    /\ session \in [Turns -> Turns \union {None}]
    /\ reply \in [Turns -> {"none", "invalidParams", "pong", "answer", "2001", "2002",
                            "2003", "2004", "2006"}]
    /\ \A t \in Turns : trail[t] \in Seq(LogEntries)
    /\ history \in [Turns -> SUBSET Turns] /\ earlier \in [Turns -> SUBSET Turns]
    /\ \A t \in Turns :
        /\ pc[t] = "failed" => reply[t] # "none"
        /\ pc[t] \in {"store", "respond"} => exit[t] \in {"answer", "answerNoId"}

\* No CLI session ever mixes turns of two dialogs, however lookups, stores
\* and exits interleave and whatever becomes of the clock, but for untraced
\* turns that chose their ids at the same reading of it (agent.go:336-343).
NoCrossTalk ==
    \A s \in Turns : \A t, u \in history[s] :
        dialog[t] # dialog[u] => began[t] = began[u] /\ {conv[t], conv[u]} \intersect Dialogs = {}

\* Turns that took turns: each looked its session up when the other was over.
InTurn(t, u) == t \in earlier[u] \/ u \in earlier[t]

\* The turns that have looked up the session of conversation c.
LookedUp(c) == {t \in Turns : conv[t] = c /\ pc[t] # "lookup"}

\* In a conversation whose turns never overlapped, each turn resumes a
\* session that knows of every earlier turn the CLI answered with a session
\* id, whichever of them failed or timed out (agent.go:343, 362, 393).
Continuity ==
    \A c \in Dialogs :
        (\A t, u \in LookedUp(c) : t = u \/ InTurn(t, u)) =>
            \A t, u \in LookedUp(c) :
                (t \in earlier[u] /\ reply[t] = "answer" /\ session[t] # None) =>
                    resumed[u] # None /\ t \in history[resumed[u]]

\* llm-setup.md:121-123: a conversation's id is its trace id or generated, and
\* a follow-up in it uses the session that was stored.
FollowUpsResume ==
    \A t, u \in Turns :
        /\ dialog[t] # None /\ dialog[t] = dialog[u]
        /\ t \in earlier[u] /\ reply[t] = "answer" /\ session[t] # None
        => resumed[u] # None

\* The CLI is never left running for a turn that has been answered.
NoOrphanCLI == \A t \in Turns : pc[t] = "done" => cli[t] # "running"

\* llm-setup.md: all CLI requests and responses are logged.  An answered
\* request of the CLI is followed by its response and the answer, or its error.
LogTellsTheStory ==
    \A t \in Turns : (pc[t] = "done" /\ dialog[t] # None) =>
        trail[t] = IF reply[t] = "answer"
                   THEN <<"received", "cli_request", "cli_response", "sent">>
                   ELSE <<"received", "cli_request", "cli_error">>

\* What a turn is to the handler's promise.
Place(t) == IF pc[t] \in {"idle", "lookup"} THEN "new" ELSE IF pc[t] = "done" THEN "over" ELSE "asked"

Work(t) == IF cli[t] \in {"none", "running"} THEN cli[t] ELSE "ended"

AnswerTo(t) == IF pc[t] # "done" THEN "none"
               ELSE IF reply[t] \in {"pong", "answer"} THEN reply[t] ELSE "other"

LogOf(t) == IF Place(t) = "new" THEN <<>> ELSE trail[t]

Promise == INSTANCE MessageTurn
    WITH MayCrash <- FALSE,
         place <- [t \in Turns |-> Place(t)], work <- [t \in Turns |-> Work(t)],
         answer <- [t \in Turns |-> AnswerTo(t)], log <- [t \in Turns |-> LogOf(t)]

\* Sessions, timeouts and exits of the CLI in any order, every message is
\* handled as promised: concluded once, fully logged, its process not left
\* behind (agent.go:323-456, cli.go:91-134).
HandledAsPromised == Promise!Spec

\* Every turn is answered, whether the CLI answers, fails or hangs.
TurnsEnd == \A t \in Turns : (pc[t] = "lookup") ~> (pc[t] = "done")

=============================================================================
