------------------------------ MODULE A2AProtocol ------------------------------
(***************************************************************************)
(* One agent calling another: the client of internal/protocol/client.go    *)
(* and internal/agent/client.go, the JSON-RPC server of                    *)
(* internal/protocol/server.go, and the ping and status commands of        *)
(* cmd/wingmate/main.go.                                                   *)
(*                                                                         *)
(* A call may have the peer's claude CLI at work, which may use the MCP    *)
(* tools of its agent and so make calls of its own: calls form trees, and  *)
(* agents may wait for each other.  Nothing but contexts and timers ties   *)
(* the levels together.  A caller that gives up closes its connection,     *)
(* which cancels the handler's context, which kills the CLI, which closes  *)
(* the connection of its tool call, and so on down the tree.               *)
(*                                                                         *)
(* Time is counted in units that are long for goroutines and short for     *)
(* the timers: the clock stands still while a handler has something to do. *)
(* A handler whose client stalls in the middle of its body has nothing to  *)
(* do, and no timer: the server sets no read timeout.                      *)
(***************************************************************************)
EXTENDS Naturals, Sequences, FiniteSetsExt

CONSTANTS
    Agents,         \* wingmate agents, by URL
    WithCLI,        \* those with a.llmExecutor # nil
    Strangers,      \* peers that are something else
    Calls,          \* numbers of calls; a call is numbered after its parent
    Roots,          \* the calls made by people, not by a claude process
    Callees,        \* whom each call may be made to
    Bodies,         \* what a foreign client may send
    ClientTimeout,  \* of NewA2AClient and of the commands, 30 s
    CLITimeout,     \* config.Claude.Timeout, 120 s
    MaxClock,       \* bound on the clock
    MaxCrashes      \* bound on crashes

AllBodies == {"ping", "text", "noText", "empty", "noMethod", "garbage", "unread",
              "stalled", "notPost", "card"}

ASSUME ProtocolAssumption ==
    /\ Calls \subseteq Nat \ {0} /\ Roots \subseteq Calls
    /\ Callees \in [Calls -> SUBSET (Agents \union Strangers)]
    /\ Agents \intersect Strangers = {}
    /\ Bodies \subseteq AllBodies
    /\ ClientTimeout \in Nat /\ CLITimeout \in Nat
    /\ MaxClock \in Nat /\ MaxCrashes \in Nat
    /\ WithCLI \subseteq Agents

NoCall   == 0       \* no parent
Nobody   == "nobody"

VARIABLES
    clock,      \* time.Now()
    up,         \* the agents that run
    crashes,    \* how often one crashed
    caller,     \* who makes a call: ping, status, ask, foreign
    parent,     \* the call whose claude process asks, or NoCall
    peer,       \* the URL called
    body,       \* what is sent
    began,      \* when the request was begun
    deadline,   \* when it must be over (history)
    client,     \* where SendMessage or GetAgentCard is
    outcome,    \* what it returned
    wire,       \* the connection: none, open, answered, cut, broken
    server,     \* where the peer's handler is
    cli,        \* the peer's claude process
    launched,   \* when it was started
    reply,      \* what the handler answers
    pilotLog,   \* the caller's flight log on the call
    mateLog     \* the peer's flight log on the call

request  == <<caller, parent, peer, body, began, deadline>>
process  == <<cli, launched>>
logs     == <<pilotLog, mateLog>>
a2aVars  == <<clock, up, crashes, request, client, outcome, wire, server, process,
              reply, logs>>

A2AInit ==
    /\ clock = 0 /\ up = Agents /\ crashes = 0
    /\ caller = [c \in Calls |-> Nobody] /\ parent = [c \in Calls |-> NoCall]
    /\ peer = [c \in Calls |-> Nobody] /\ body = [c \in Calls |-> "none"]
    /\ began = [c \in Calls |-> 0] /\ deadline = [c \in Calls |-> 0]
    /\ client = [c \in Calls |-> "idle"] /\ outcome = [c \in Calls |-> "none"]
    /\ wire = [c \in Calls |-> "none"] /\ server = [c \in Calls |-> "none"]
    /\ cli = [c \in Calls |-> "none"] /\ launched = [c \in Calls |-> 0]
    /\ reply = [c \in Calls |-> "none"]
    /\ pilotLog = [c \in Calls |-> <<>>] /\ mateLog = [c \in Calls |-> <<>>]

-----------------------------------------------------------------------------
(* The caller.                                                             *)

Ends(c, result) ==
    /\ client' = [client EXCEPT ![c] = "ended"]
    /\ outcome' = [outcome EXCEPT ![c] = result]

\* Every request over HTTP has a context that ends with its connection.  The
\* call of a claude process is made for such a request.
AskDetached(c)  == FALSE   \* mutant: the tool runs with context.Background()
AskCancelled(c) == parent[c] # NoCall /\ cli[parent[c]] # "running"

\* The http.Client's timeout, or that of the command's context.  A foreign
\* client has its own patience.
ClientDue(c) == caller[c] # "foreign" /\ clock >= began[c] + ClientTimeout

\* When a call must be over: with its own timer, and with the handler its
\* claude process works for, if that handler lives.
DeadlineOf(who, p) ==
    Min({IF who = "foreign" THEN MaxClock ELSE clock + ClientTimeout}
        \union IF p # NoCall /\ server[p] = "working"
               THEN {deadline[p], launched[p] + CLITimeout} ELSE {})

\* EnsureTraceID, the record of the message going out, if there is one, and
\* httpClient.Do, which reaches the peer or fails.  Calls are numbered as they
\* come; bounded by MaxClock, so that every timer can fire.
Begin(c, who, what, p) ==
    /\ client[c] = "idle" /\ \A d \in Calls : d < c => client[d] # "idle"
    /\ clock + ClientTimeout <= MaxClock /\ clock + CLITimeout <= MaxClock
    /\ caller' = [caller EXCEPT ![c] = who] /\ parent' = [parent EXCEPT ![c] = p]
    /\ body' = [body EXCEPT ![c] = what]
    /\ began' = [began EXCEPT ![c] = clock]
    /\ deadline' = [deadline EXCEPT ![c] = DeadlineOf(who, p)]
    /\ pilotLog' = [pilotLog EXCEPT ![c] = IF who \in {"ping", "ask"} THEN <<"out">> ELSE @]
    /\ \E to \in Callees[c] :
        /\ peer' = [peer EXCEPT ![c] = to]
        /\ \/ /\ to \in up \union Strangers
              /\ client' = [client EXCEPT ![c] = "waiting"]
              /\ wire' = [wire EXCEPT ![c] = "open"]
              /\ server' = [server EXCEPT ![c] = "accepted"]
              /\ UNCHANGED outcome
           \/ /\ to \notin up
              /\ Ends(c, "failed")
              /\ UNCHANGED <<wire, server>>
    /\ UNCHANGED <<clock, up, crashes, process, reply, mateLog>>

\* wingmate ping <url>, wingmate status <url>
PingCommand(c) == c \in Roots /\ Begin(c, "ping", "ping", NoCall)
StatusCommand(c) == c \in Roots /\ Begin(c, "status", "card", NoCall)

\* wingmate_ask, called by a person's MCP client.
Ask(c, what) == c \in Roots /\ Begin(c, "ask", what, NoCall)

\* wingmate_ask, called by the claude process of another call.
CLIAsks(c, what, p) ==
    /\ c \notin Roots /\ p < c
    /\ cli[p] = "running" /\ peer[p] \in up
    /\ Begin(c, "ask", what, p)

\* Any other client, with anything in its request.
ForeignCall(c, what) == c \in Roots /\ Begin(c, "foreign", what, NoCall)

\* The connection breaks before the answer.
ReceiveFails(c) ==
    /\ client[c] = "waiting" /\ wire[c] = "broken"
    /\ Ends(c, "failed")
    /\ UNCHANGED <<clock, up, crashes, request, wire, server, process, reply, logs>>

GivesUp(c) ==
    /\ client[c] = "waiting"
    /\ Ends(c, "gaveUp")
    /\ wire' = [wire EXCEPT ![c] = IF @ = "open" THEN "cut" ELSE @]
    /\ UNCHANGED <<clock, up, crashes, request, server, process, reply, logs>>

NeverTimesOut(c) == AskCancelled(c) /\ GivesUp(c)   \* mutant: no http.Client timeout
TimesOut(c) == (ClientDue(c) \/ AskCancelled(c)) /\ GivesUp(c)

\* The caller's own caller has had enough: Ctrl-C, or an MCP client disconnects.
WalksAway(c) == GivesUp(c)

\* What a caller makes of an answer.  Only GetAgentCard looks at the status;
\* SendMessage sees that the body of an error page is no JSON.  A JSON object
\* with neither result nor error counts as a message without text.
Unparsed == {"notJSON", "405"}
Messages == {"pong", "answer", "otherText", "noResult"}
Refusals == {"card", "-32700", "-32600", "-32602", "-32603", "2001", "2002", "2003", "rpcError"}
Replies  == Unparsed \union Messages \union Refusals

AcceptsAnyMessage(c) ==  \* mutant: Ping does not look for a pong
    reply[c] \in Messages \/ caller[c] = "foreign" \/ (caller[c] = "status" /\ reply[c] \notin Unparsed)
Accepts(c) ==
    CASE caller[c] = "ping"    -> reply[c] = "pong"
      [] caller[c] = "ask"     -> reply[c] \in Messages
      [] caller[c] = "status"  -> reply[c] \notin Unparsed
      [] caller[c] = "foreign" -> TRUE

\* Ping records what came before it looks for a pong, but after it has looked
\* for an error; Agent.SendMessage records errors too.
Recorded(c) ==
    \/ caller[c] = "ping" /\ reply[c] \in Messages
    \/ caller[c] = "ask" /\ reply[c] \notin Unparsed

Receive(c) ==
    /\ client[c] = "waiting" /\ wire[c] = "answered"
    /\ Ends(c, IF Accepts(c) THEN "success" ELSE "failed")
    /\ pilotLog' = [pilotLog EXCEPT ![c] = IF Recorded(c) THEN Append(@, "in") ELSE @]
    /\ UNCHANGED <<clock, up, crashes, request, wire, server, process, reply, mateLog>>

-----------------------------------------------------------------------------
(* The peer.                                                               *)

\* The context of the request: net/http cancels it with the connection.
HandlerDetached(c)  == FALSE   \* mutant: HandleMessage runs with context.Background()
HandlerCancelled(c) == wire[c] = "cut"

CLIDue(c) == clock >= launched[c] + CLITimeout

ServerGoto(c, from, to) ==
    /\ server[c] = from /\ peer[c] \in Agents
    /\ server' = [server EXCEPT ![c] = to]
    /\ UNCHANGED <<clock, up, crashes, request, client, outcome, pilotLog>>

ReplyEarly(c, what, entries) ==  \* mutant: the answer goes out before the records
    /\ reply' = [reply EXCEPT ![c] = what]
    /\ mateLog' = [mateLog EXCEPT ![c] = @ \o entries]
    /\ wire' = [wire EXCEPT ![c] = IF @ = "open" THEN "answered" ELSE @]
Reply(c, what, entries) ==
    /\ reply' = [reply EXCEPT ![c] = what]
    /\ mateLog' = [mateLog EXCEPT ![c] = @ \o entries]
    /\ UNCHANGED wire

\* What needs no handler, or an empty message, for which it does nothing.
Immediate == [card |-> "card", notPost |-> "405", unread |-> "-32603", garbage |-> "-32700",
              noMethod |-> "-32600", empty |-> "-32602", stalled |-> "-32603"]

\* io.ReadAll waits for a client that does not send the rest of its body, and
\* fails when that client goes.  Only a client of another make stalls.
Held(c) == body[c] = "stalled" /\ wire[c] = "open"

AnswerAtOnce(c) ==
    /\ ServerGoto(c, "accepted", "replying")
    /\ body[c] \in DOMAIN Immediate /\ ~Held(c)
    /\ Reply(c, Immediate[body[c]], <<>>)
    /\ UNCHANGED process

AnswerPing(c) ==
    /\ ServerGoto(c, "accepted", "replying")
    /\ body[c] = "ping"
    /\ Reply(c, "pong", <<"received", "sent">>)
    /\ UNCHANGED process

\* No CLI, or nothing to ask it.
RejectMessage(c) ==
    /\ ServerGoto(c, "accepted", "replying")
    /\ body[c] \in {"noText", "text"} /\ (body[c] = "text" => peer[c] \notin WithCLI)
    /\ Reply(c, IF peer[c] \in WithCLI THEN "-32602" ELSE "2001", <<"received">>)
    /\ UNCHANGED process

\* The CLI is started even for a caller that has gone.
Launch(c) ==
    /\ ServerGoto(c, "accepted", "working")
    /\ body[c] = "text" /\ peer[c] \in WithCLI
    /\ cli' = [cli EXCEPT ![c] = "running"]
    /\ launched' = [launched EXCEPT ![c] = clock]
    /\ mateLog' = [mateLog EXCEPT ![c] = @ \o <<"received", "cli_request">>]
    /\ UNCHANGED <<wire, reply>>

LaunchFails(c) ==
    /\ ServerGoto(c, "accepted", "replying")
    /\ body[c] = "text" /\ peer[c] \in WithCLI
    /\ Reply(c, "2001", <<"received", "cli_request", "cli_error">>)
    /\ UNCHANGED process

\* case err := <-done
Finish(c) ==
    /\ ServerGoto(c, "working", "replying")
    /\ \/ cli[c] = "answered" /\ Reply(c, "answer", <<"cli_response", "sent">>)
       \/ cli[c] = "failed" /\ Reply(c, "2002", <<"cli_error">>)
    /\ UNCHANGED process

StopIfLeft(c) ==  \* mutant: no context.WithTimeout in Execute
    /\ HandlerCancelled(c)
    /\ ServerGoto(c, "working", "replying")
    /\ Reply(c, "2003", <<"cli_error">>)
    /\ cli' = [cli EXCEPT ![c] = IF @ = "running" THEN "killed" ELSE @]
    /\ UNCHANGED launched

StopAlive(c) ==  \* mutant: cmd.Process.Kill is forgotten
    /\ HandlerCancelled(c) \/ CLIDue(c)
    /\ ServerGoto(c, "working", "replying")
    /\ Reply(c, "2003", <<"cli_error">>)
    /\ UNCHANGED process

\* case <-ctx.Done(): the caller has gone, or the CLI takes too long.
Stop(c) ==
    /\ HandlerCancelled(c) \/ CLIDue(c)
    /\ ServerGoto(c, "working", "replying")
    /\ Reply(c, "2003", <<"cli_error">>)
    /\ cli' = [cli EXCEPT ![c] = IF @ = "running" THEN "killed" ELSE @]
    /\ UNCHANGED launched

\* To a connection that may be gone by now.
WriteReply(c) ==
    /\ ServerGoto(c, "replying", "done")
    /\ wire' = [wire EXCEPT ![c] = IF @ = "open" THEN "answered" ELSE @]
    /\ UNCHANGED <<process, reply, mateLog>>

HandlerSteps(c) ==
    \/ AnswerAtOnce(c) \/ AnswerPing(c) \/ RejectMessage(c) \/ Launch(c) \/ LaunchFails(c)
    \/ Finish(c) \/ Stop(c) \/ WriteReply(c)

-----------------------------------------------------------------------------
(* The environment.                                                        *)

CLIExits(c, how) ==
    /\ cli[c] = "running"
    /\ cli' = [cli EXCEPT ![c] = how]
    /\ UNCHANGED <<clock, up, crashes, request, client, outcome, wire, server, launched,
                   reply, logs>>

\* Something that is no agent answers with anything, or never.  A result that
\* is no message is treated like an error.
StrangersBodies == {"pong", "otherText", "noResult", "rpcError", "notJSON"}

StrangerAnswers(c, what) ==
    /\ peer[c] \in Strangers /\ server[c] = "accepted"
    /\ server' = [server EXCEPT ![c] = "done"]
    /\ reply' = [reply EXCEPT ![c] = what]
    /\ wire' = [wire EXCEPT ![c] = IF @ = "open" THEN "answered" ELSE @]
    /\ UNCHANGED <<clock, up, crashes, request, client, outcome, process, logs>>

Alive(c) == server[c] \in {"accepted", "working", "replying"}

\* An agent's process dies, by a crash or with main's impatience.  Its
\* handlers go and so do the calls made by claude processes through it; the
\* claude processes stay, and may ask again when the agent is back.
Crash(a) ==
    LET served == {c \in Calls : peer[c] = a /\ Alive(c)}
        asking == {c \in Calls : /\ parent[c] # NoCall /\ peer[parent[c]] = a
                                 /\ client[c] = "waiting"}
    IN
    /\ a \in up /\ crashes < MaxCrashes
    /\ up' = up \ {a} /\ crashes' = crashes + 1
    /\ server' = [c \in Calls |-> IF c \in served THEN "dead" ELSE server[c]]
    /\ client' = [c \in Calls |-> IF c \in asking THEN "ended" ELSE client[c]]
    /\ outcome' = [c \in Calls |-> IF c \in asking THEN "gaveUp" ELSE outcome[c]]
    /\ wire' = [c \in Calls |-> IF wire[c] # "open" THEN wire[c]
                                ELSE IF c \in asking THEN "cut"
                                ELSE IF c \in served THEN "broken" ELSE "open"]
    /\ UNCHANGED <<clock, request, process, reply, logs>>

ComesBack(a) ==
    /\ a \in Agents \ up
    /\ up' = up \union {a}
    /\ UNCHANGED <<clock, crashes, request, client, outcome, wire, server, process, reply, logs>>

\* Somebody has something to do that takes no time to speak of.
Busy(c) ==
    \/ client[c] = "waiting" /\ (ClientDue(c) \/ AskCancelled(c))
    \/ peer[c] \in Agents /\ server[c] \in {"accepted", "replying"} /\ ~Held(c)
    \/ server[c] = "working" /\ (HandlerCancelled(c) \/ CLIDue(c))

\* Bounded by MaxClock.
Tick ==
    /\ clock < MaxClock /\ clock' = clock + 1
    /\ \A c \in Calls : ~Busy(c)
    /\ UNCHANGED <<up, crashes, request, client, outcome, wire, server, process, reply, logs>>

ClientSteps(c) == Receive(c) \/ ReceiveFails(c) \/ TimesOut(c)

A2ANext ==
    \/ Tick
    \/ \E a \in Agents : Crash(a) \/ ComesBack(a)
    \/ \E c \in Calls :
        \/ PingCommand(c) \/ StatusCommand(c)
        \/ \E what \in Bodies : ForeignCall(c, what)
        \/ \E what \in {"ping", "text"} :
              Ask(c, what) \/ \E p \in Calls : CLIAsks(c, what, p)
        \/ ClientSteps(c) \/ WalksAway(c)
        \/ HandlerSteps(c)
        \/ \E how \in {"answered", "failed"} : CLIExits(c, how)
        \/ \E what \in StrangersBodies : StrangerAnswers(c, what)

A2ASpec == A2AInit /\ [][A2ANext]_a2aVars

\* Goroutines run, time passes and timers fire.  Peers, people and claude
\* processes owe nothing.
A2AFairness ==
    /\ WF_a2aVars(Tick)
    /\ \A c \in Calls : WF_a2aVars(ClientSteps(c)) /\ WF_a2aVars(HandlerSteps(c))

A2AFairSpec == A2ASpec /\ A2AFairness
-----------------------------------------------------------------------------
(* Properties.                                                             *)

A2ATypeOK ==
    /\ clock \in 0 .. MaxClock /\ up \subseteq Agents /\ crashes \in 0 .. MaxCrashes
    /\ caller \in [Calls -> {Nobody, "ping", "status", "ask", "foreign"}]
    /\ parent \in [Calls -> Calls \union {NoCall}]
    /\ peer \in [Calls -> Agents \union Strangers \union {Nobody}]
    /\ body \in [Calls -> AllBodies \union {"none"}]
    /\ began \in [Calls -> 0 .. MaxClock] /\ deadline \in [Calls -> 0 .. MaxClock]
    /\ client \in [Calls -> {"idle", "waiting", "ended"}]
    /\ outcome \in [Calls -> {"none", "success", "failed", "gaveUp"}]
    /\ wire \in [Calls -> {"none", "open", "answered", "cut", "broken"}]
    /\ server \in [Calls -> {"none", "accepted", "working", "replying", "done", "dead"}]
    /\ cli \in [Calls -> {"none", "running", "answered", "failed", "killed"}]
    /\ launched \in [Calls -> 0 .. MaxClock]
    /\ reply \in [Calls -> Replies \union {"none"}]
    /\ \A c \in Calls :
        /\ server[c] = "replying" => reply[c] # "none"
        /\ wire[c] = "answered" => server[c] = "done"
        /\ ~(client[c] = "waiting" /\ wire[c] = "cut")

\* However deep agents ask each other: while an agent lives its claude process
\* is not at work for a call that must be over, its own or one above it, nor
\* longer than the CLI may take (client.go:33, cli.go:94, server.go:243).
WorkWithinDeadline ==
    \A c \in Calls : (server[c] = "working" /\ cli[c] = "running") =>
        clock <= deadline[c] /\ clock <= launched[c] + CLITimeout

\* Nobody is told of a success that is not in both agents' logs as a complete
\* conversation, whatever crashed in between; a ping succeeds only on a pong.
SuccessIsLogged ==
    \A c \in Calls : (outcome[c] = "success" /\ caller[c] \in {"ping", "ask"}) =>
        /\ pilotLog[c] = <<"out", "in">>
        /\ peer[c] \in Agents =>
            mateLog[c] = IF body[c] = "ping" THEN <<"received", "sent">>
                         ELSE <<"received", "cli_request", "cli_response", "sent">>
        /\ caller[c] = "ping" => reply[c] = "pong"

\* What a call is to the handler of its peer, if the peer is an agent.
Place(c) == IF peer[c] \notin Agents \/ server[c] \in {"none", "accepted"} THEN "new"
            ELSE IF server[c] = "working" THEN "asked" ELSE "over"

Work(c) == IF cli[c] \in {"none", "running"} THEN cli[c] ELSE "ended"

AnswerTo(c) == IF Place(c) # "over" \/ reply[c] = "none" THEN "none"
               ELSE IF reply[c] \in {"pong", "answer"} THEN reply[c] ELSE "other"

Promise == INSTANCE MessageTurn
    WITH Turns <- Calls, MayCrash <- MaxCrashes > 0,
         place <- [c \in Calls |-> Place(c)], work <- [c \in Calls |-> Work(c)],
         answer <- [c \in Calls |-> AnswerTo(c)], log <- mateLog

\* Connections cut, agents crashing, deadlines up and down the calls, every
\* agent handles each message as promised, and only a crash leaves a claude
\* process behind (server.go:229-262, cli.go:91-134).
ServedAsPromised == Promise!Spec

\* Every call of a wingmate client ends, although peers are silent, crash, or
\* wait for each other (client.go:33).
CallsEnd ==
    \A c \in Calls : (client[c] = "waiting" /\ caller[c] # "foreign") ~> (client[c] = "ended")

\* Every handler ends whose client lets it, whoever waits for it and whatever
\* its CLI does: a server can drain once nobody stalls a body, and not before,
\* for it sets no read timeout (cli.go:94, server.go:73, 201, 243).
HandlersEnd ==
    \A c \in Calls : (peer[c] \in Agents /\ Alive(c) /\ ~Held(c)) ~> ~Alive(c)

=============================================================================
