--------------------------- MODULE AgentLifecycle ---------------------------
(***************************************************************************)
(* The life of an Agent: Start and Shutdown of internal/agent/agent.go,    *)
(* ListenAndServe and Shutdown of internal/protocol/server.go under them,  *)
(* the requests in flight, the two peer-probing goroutines, and the flight *)
(* log they all write until Shutdown closes it.                            *)
(*                                                                         *)
(* Each goroutine is a program counter; a step is the code between two     *)
(* points where another goroutine can see or change what it uses.  The     *)
(* net/http server inside A2AServer is modelled by what this code relies   *)
(* on: Serve returns ErrServerClosed once shut down, and http Shutdown     *)
(* stops accepting, then waits until no connection is active.              *)
(***************************************************************************)
EXTENDS FiniteSets

CONSTANTS
    Starters,   \* goroutines that call Agent.Start
    Callers,    \* other goroutines that call Agent.Shutdown, with a deadline
    Reqs        \* requests that may arrive, each at most once

Shutters == Starters \union Callers
Probers  == {"initial", "periodic"}   \* go a.probePeers, go a.backgroundProbe

ASSUME LifecycleAssumption ==
    /\ Starters \intersect Callers = {}
    /\ Reqs \intersect Probers = {}

VARIABLES
    started, shutdown,  \* a.started and a.shutdown, under a.mu
    ctxDone,            \* the context given to Start has been cancelled
    startPc,            \* where each Start call is
    startResult,        \* what it returned
    servePc,            \* the ListenAndServe goroutine
    errCh,              \* the result ListenAndServe has sent to Start
    published,          \* s.server, s.listener and s.addr are set
    srvReady,           \* s.ready is closed
    acceptPc,           \* the goroutine running http.Server.Serve
    inShutdown,         \* http.Server.Shutdown has been called
    cardURL,            \* a.card.URL has been filled in
    agentReady,         \* a.ready is closed
    req,                \* each request's progress
    prober,             \* each probing goroutine
    shutPc,             \* where each Agent.Shutdown call is
    shutResult,         \* how it ended
    logOpen,            \* the flight log's file is open
    closeErr,           \* flightLog.Close has returned an error
    lost                \* whose Record found the flight log closed

flagVars  == <<started, shutdown>>
startVars == <<startPc, startResult>>
srvVars   == <<servePc, errCh, published, srvReady, acceptPc, inShutdown>>
cardVars  == <<cardURL, agentReady>>
logVars   == <<logOpen, closeErr, lost>>
shutVars  == <<shutPc, shutResult>>
lifeVars  == <<flagVars, ctxDone, startVars, srvVars, cardVars, req, prober,
               shutVars, logVars>>

LifeInit ==
    /\ started = FALSE /\ shutdown = FALSE /\ ctxDone = FALSE
    /\ startPc = [s \in Starters |-> "idle"]
    /\ startResult = [s \in Starters |-> "none"]
    /\ servePc = "off" /\ errCh = "empty"
    /\ published = FALSE /\ srvReady = FALSE
    /\ acceptPc = "off" /\ inShutdown = FALSE
    /\ cardURL = FALSE /\ agentReady = FALSE
    /\ req = [r \in Reqs |-> "none"]
    /\ prober = [p \in Probers |-> "off"]
    /\ shutPc = [c \in Shutters |-> "idle"]
    /\ shutResult = [c \in Shutters |-> "none"]
    /\ logOpen = TRUE /\ closeErr = FALSE /\ lost = {}

\* a.flightLog.Record: a write to a closed file fails, and callers ignore it.
Record(who) ==
    /\ lost' = IF logOpen THEN lost ELSE lost \union {who}
    /\ UNCHANGED <<logOpen, closeErr>>

\* flightLog.Close: a failed Sync leaves the file open, a failed Close does not.
CloseFlightLog ==
    /\ closeErr' \in BOOLEAN
    /\ logOpen' \in {FALSE, closeErr'}
    /\ UNCHANGED lost

Active == {r \in Reqs : req[r] \in {"accepted", "handling"}}

-----------------------------------------------------------------------------
(* Agent.Start.                                                            *)

StartReturns(s, result) ==
    /\ startPc' = [startPc EXCEPT ![s] = "returned"]
    /\ startResult' = [startResult EXCEPT ![s] = result]

StartGoto(s, pc) ==
    /\ startPc' = [startPc EXCEPT ![s] = pc]
    /\ UNCHANGED startResult

\* A bug: the flags are read but started is never set.
CallStartUnmarked(s) ==
    /\ startPc[s] = "idle"
    /\ IF started \/ shutdown
       THEN StartReturns(s, "refused") /\ UNCHANGED <<started, servePc>>
       ELSE StartGoto(s, "waitReady") /\ servePc' = "listen" /\ UNCHANGED started
    /\ UNCHANGED <<shutdown, ctxDone, errCh, published, srvReady, acceptPc,
                   inShutdown, cardVars, req, prober, shutVars, logVars>>

\* The two flags, then go ListenAndServe.
CallStart(s) ==
    /\ startPc[s] = "idle"
    /\ IF started \/ shutdown
       THEN StartReturns(s, "refused") /\ UNCHANGED <<started, servePc>>
       ELSE StartGoto(s, "waitReady") /\ started' = TRUE /\ servePc' = "listen"
    /\ UNCHANGED <<shutdown, ctxDone, errCh, published, srvReady, acceptPc,
                   inShutdown, cardVars, req, prober, shutVars, logVars>>

\* A bug: the card's URL is left for later.
PublishNothing(s) ==
    /\ startPc[s] = "waitReady" /\ srvReady
    /\ StartGoto(s, "announce")
    /\ UNCHANGED <<flagVars, ctxDone, srvVars, cardVars, req, prober,
                   shutVars, logVars>>

\* case <-rn.Ready(): the card that is already being served gets its URL.
PublishURL(s) ==
    /\ startPc[s] = "waitReady" /\ srvReady
    /\ StartGoto(s, "announce")
    /\ cardURL' = TRUE
    /\ UNCHANGED <<flagVars, ctxDone, srvVars, agentReady, req, prober,
                   shutVars, logVars>>

\* close(a.ready), and the two probing goroutines start.
Announce(s) ==
    /\ startPc[s] = "announce"
    /\ StartGoto(s, "waitDone")
    /\ agentReady' = TRUE
    /\ prober' = [initial |-> "check", periodic |-> "wait"]
    /\ UNCHANGED <<flagVars, ctxDone, srvVars, cardURL, req, shutVars, logVars>>

\* case err := <-errCh, in either select.
StartSeesServerEnd(s) ==
    /\ startPc[s] \in {"waitReady", "waitDone"}
    /\ errCh # "empty"
    /\ StartReturns(s, errCh)
    /\ errCh' = "empty"
    /\ UNCHANGED <<flagVars, ctxDone, servePc, published, srvReady, acceptPc,
                   inShutdown, cardVars, req, prober, shutVars, logVars>>

\* case <-ctx.Done() while waiting for the server: return, nothing shut down.
StartCancelledEarly(s) ==
    /\ startPc[s] = "waitReady" /\ ctxDone
    /\ StartReturns(s, "cancelled")
    /\ UNCHANGED <<flagVars, ctxDone, srvVars, cardVars, req, prober,
                   shutVars, logVars>>

\* What Agent.Shutdown returned to c: nil, or the error that ended it.
ShutdownError(c) == shutResult[c] = "deadline" \/ (shutResult[c] # "noop" /\ closeErr)

\* A bug: Start waits for the log to be closed by its own Shutdown.
StartAwaitsOwnClose(s) ==
    /\ startPc[s] = "shutdown" /\ shutPc[s] = "returned"
    /\ shutResult[s] # "noop"
    /\ StartReturns(s, IF ShutdownError(s) THEN "error" ELSE "nil")
    /\ UNCHANGED <<flagVars, ctxDone, srvVars, cardVars, req, prober,
                   shutVars, logVars>>

\* The result of an inner Shutdown is the result of Start.
StartSeesShutdownEnd(s) ==
    /\ startPc[s] = "shutdown" /\ shutPc[s] = "returned"
    /\ StartReturns(s, IF ShutdownError(s) THEN "error" ELSE "nil")
    /\ UNCHANGED <<flagVars, ctxDone, srvVars, cardVars, req, prober,
                   shutVars, logVars>>

-----------------------------------------------------------------------------
(* A2AServer.ListenAndServe and the http.Server it runs.                   *)

\* net.Listen fails, for example on a port in use.
ListenFails ==
    /\ servePc = "listen"
    /\ servePc' = "done" /\ errCh' = "error"
    /\ UNCHANGED <<flagVars, ctxDone, startVars, published, srvReady, acceptPc,
                   inShutdown, cardVars, req, prober, shutVars, logVars>>

Listen ==
    /\ servePc = "listen"
    /\ servePc' = "signal" /\ published' = TRUE
    /\ UNCHANGED <<flagVars, ctxDone, startVars, errCh, srvReady, acceptPc,
                   inShutdown, cardVars, req, prober, shutVars, logVars>>

\* close(s.ready), go s.server.Serve(ln)
SignalReady ==
    /\ servePc = "signal"
    /\ servePc' = "select" /\ srvReady' = TRUE /\ acceptPc' = "starting"
    /\ UNCHANGED <<flagVars, ctxDone, startVars, errCh, published, inShutdown,
                   cardVars, req, prober, shutVars, logVars>>

\* Serve refuses to run on a server already shut down.
BeginServe ==
    /\ acceptPc = "starting"
    /\ acceptPc' = IF inShutdown THEN "closed" ELSE "accepting"
    /\ UNCHANGED <<flagVars, ctxDone, startVars, servePc, errCh, published,
                   srvReady, inShutdown, cardVars, req, prober, shutVars, logVars>>

\* Accept fails for good.
ServeFails ==
    /\ acceptPc = "accepting"
    /\ acceptPc' = "failed"
    /\ UNCHANGED <<flagVars, ctxDone, startVars, servePc, errCh, published,
                   srvReady, inShutdown, cardVars, req, prober, shutVars, logVars>>

\* A bug: the server drains but goes on accepting.
HTTPShutdownStillAccepting == inShutdown' = TRUE /\ UNCHANGED acceptPc

\* http.Server.Shutdown stops the accept loop and makes Serve return.
HTTPShutdown ==
    /\ inShutdown' = TRUE
    /\ acceptPc' = IF acceptPc = "accepting" THEN "closed" ELSE acceptPc

\* A bug: the context is looked at only once the agent has become ready.
ServeCancelledReady ==
    /\ servePc = "select" /\ ctxDone /\ agentReady
    /\ servePc' = "draining"
    /\ HTTPShutdown
    /\ UNCHANGED <<flagVars, ctxDone, startVars, errCh, published, srvReady,
                   cardVars, req, prober, shutVars, logVars>>

\* case <-ctx.Done(): s.Shutdown(context.Background())
ServeCancelled ==
    /\ servePc = "select" /\ ctxDone
    /\ servePc' = "draining"
    /\ HTTPShutdown
    /\ UNCHANGED <<flagVars, ctxDone, startVars, errCh, published, srvReady,
                   cardVars, req, prober, shutVars, logVars>>

ServeDrained ==
    /\ servePc = "draining" /\ Active = {}
    /\ servePc' = "done" /\ errCh' = "nil"
    /\ UNCHANGED <<flagVars, ctxDone, startVars, published, srvReady, acceptPc,
                   inShutdown, cardVars, req, prober, shutVars, logVars>>

\* case err := <-errCh of ListenAndServe: ErrServerClosed becomes nil.
ServeEnds ==
    /\ servePc = "select" /\ acceptPc \in {"closed", "failed"}
    /\ servePc' = "done"
    /\ errCh' = IF acceptPc = "closed" THEN "nil" ELSE "error"
    /\ UNCHANGED <<flagVars, ctxDone, startVars, published, srvReady, acceptPc,
                   inShutdown, cardVars, req, prober, shutVars, logVars>>

-----------------------------------------------------------------------------
(* Requests.                                                               *)

ReqGoto(r, from, to) ==
    /\ req[r] = from
    /\ req' = [req EXCEPT ![r] = to]
    /\ UNCHANGED <<flagVars, ctxDone, startVars, srvVars, cardVars, prober, shutVars>>

Arrive(r) ==
    /\ acceptPc = "accepting"
    /\ ReqGoto(r, "none", "accepted")
    /\ UNCHANGED logVars

\* GET of the Agent Card: the card as it is, nothing logged.
ServeCard(r) == ReqGoto(r, "accepted", "done") /\ UNCHANGED logVars

\* HandleMessage logs what it received, works, and logs what it answers.
BeginMessage(r) == ReqGoto(r, "accepted", "handling") /\ Record(r)

EndMessage(r) == ReqGoto(r, "handling", "done") /\ Record(r)

-----------------------------------------------------------------------------
(* The probing goroutines; a probe is the attempt on one peer, and "check"  *)
(* the top of the loop over the peers, of which any number may be left.     *)

ProberGoto(p, from, to) ==
    /\ prober[p] = from
    /\ prober' = [prober EXCEPT ![p] = to]
    /\ UNCHANGED <<flagVars, ctxDone, startVars, srvVars, cardVars, req, shutVars>>

\* case <-ticker.C
ProbeTick == ProberGoto("periodic", "wait", "check") /\ UNCHANGED logVars

\* case <-ctx.Done() of backgroundProbe
ProbeLoopEnds == ctxDone /\ ProberGoto("periodic", "wait", "returned") /\ UNCHANGED logVars

EndOfRound(p) == IF p = "periodic" THEN "wait" ELSE "returned"

\* ctx.Err() is looked at before each peer only.
ProbeBegins(p) == ~ctxDone /\ ProberGoto(p, "check", "fetch") /\ UNCHANGED logVars

\* No peer is left, or the context is done.
RoundEnds(p) == ProberGoto(p, "check", EndOfRound(p)) /\ UNCHANGED logVars

ProbeSucceeds(p) == ProberGoto(p, "fetch", "check") /\ UNCHANGED logVars

\* The warning is recorded, whatever has happened to the agent meanwhile.
ProbeFails(p) == ProberGoto(p, "fetch", "check") /\ Record(p)

-----------------------------------------------------------------------------
(* Agent.Shutdown, called by Callers and, on cancellation, by Start.       *)

ShutReturns(c, result) ==
    /\ shutPc' = [shutPc EXCEPT ![c] = "returned"]
    /\ shutResult' = [shutResult EXCEPT ![c] = result]

ShutGoto(c, pc) ==
    /\ shutPc' = [shutPc EXCEPT ![c] = pc]
    /\ UNCHANGED shutResult

\* A bug: the flag is looked at and set in two critical sections.
EnterShutdownUnchecked(c) ==
    /\ shutPc[c] = "idle"
    /\ ShutGoto(c, "server") /\ shutdown' = TRUE

\* The flag: everyone but the first returns nil at once.
EnterShutdown(c) ==
    /\ shutPc[c] = "idle"
    /\ IF shutdown
       THEN ShutReturns(c, "noop") /\ UNCHANGED shutdown
       ELSE ShutGoto(c, "server") /\ shutdown' = TRUE

CallShutdown(c) ==
    /\ EnterShutdown(c)
    /\ UNCHANGED <<started, ctxDone, startVars, srvVars, cardVars, req, prober, logVars>>

\* case <-ctx.Done(): return a.Shutdown(context.Background())
StartCancelled(s) ==
    /\ startPc[s] = "waitDone" /\ ctxDone
    /\ StartGoto(s, "shutdown")
    /\ EnterShutdown(s)
    /\ UNCHANGED <<started, ctxDone, srvVars, cardVars, req, prober, logVars>>

\* server == nil: nothing to shut down yet.
ShutdownUnserved(c) ==
    /\ shutPc[c] = "server" /\ ~published
    /\ ShutReturns(c, "unserved")
    /\ CloseFlightLog
    /\ UNCHANGED <<flagVars, ctxDone, startVars, srvVars, cardVars, req, prober>>

ShutdownHTTP(c) ==
    /\ shutPc[c] = "server" /\ published
    /\ ShutGoto(c, "draining")
    /\ HTTPShutdown
    /\ UNCHANGED <<flagVars, ctxDone, startVars, servePc, errCh, published,
                   srvReady, cardVars, req, prober, logVars>>

\* A bug: in-flight requests are not waited for.
ShutdownUndrained(c) ==
    /\ shutPc[c] = "draining"
    /\ ShutGoto(c, "closeLog")
    /\ UNCHANGED <<flagVars, ctxDone, startVars, srvVars, cardVars, req, prober, logVars>>

\* No connection is active and so no handler is left in the wait group.
ShutdownDrained(c) ==
    /\ shutPc[c] = "draining" /\ Active = {}
    /\ ShutGoto(c, "closeLog")
    /\ UNCHANGED <<flagVars, ctxDone, startVars, srvVars, cardVars, req, prober, logVars>>

\* A bug: the deadline is looked at only when nothing is in flight.
ShutdownDeadlineIdle(c) ==
    /\ c \in Callers
    /\ shutPc[c] = "draining" /\ Active = {}
    /\ ShutReturns(c, "deadline")
    /\ UNCHANGED <<flagVars, ctxDone, startVars, srvVars, cardVars, req, prober, logVars>>

\* The caller's context ends first: the flight log stays open for good.
ShutdownDeadline(c) ==
    /\ c \in Callers
    /\ shutPc[c] = "draining"
    /\ ShutReturns(c, "deadline")
    /\ UNCHANGED <<flagVars, ctxDone, startVars, srvVars, cardVars, req, prober, logVars>>

\* The server is drained; the result of flightLog.Close is returned.
CloseLog(c) ==
    /\ shutPc[c] = "closeLog"
    /\ ShutReturns(c, "drained")
    /\ CloseFlightLog
    /\ UNCHANGED <<flagVars, ctxDone, startVars, srvVars, cardVars, req, prober>>

\* The owner of the context cancels it.
Cancel ==
    /\ ~ctxDone
    /\ ctxDone' = TRUE
    /\ UNCHANGED <<flagVars, startVars, srvVars, cardVars, req, prober, shutVars, logVars>>

-----------------------------------------------------------------------------
(* What runs by itself once started, and what its environment decides.     *)

StartSteps(s) == \/ PublishURL(s) \/ Announce(s) \/ StartSeesServerEnd(s)
                 \/ StartCancelledEarly(s) \/ StartCancelled(s)
                 \/ StartSeesShutdownEnd(s)

ServeSteps == \/ Listen \/ ListenFails \/ SignalReady
              \/ ServeCancelled \/ ServeDrained \/ ServeEnds

ShutdownSteps(c) == \/ ShutdownUnserved(c) \/ ShutdownHTTP(c)
                    \/ ShutdownDrained(c) \/ CloseLog(c)

HandlerSteps(r) == ServeCard(r) \/ BeginMessage(r) \/ EndMessage(r)

ProberSteps(p) == \/ ProbeBegins(p) \/ RoundEnds(p) \/ ProbeSucceeds(p) \/ ProbeFails(p)
                  \/ (p = "periodic" /\ (ProbeTick \/ ProbeLoopEnds))

AgentNext ==
    \/ \E s \in Starters : StartSteps(s)
    \/ ServeSteps \/ BeginServe \/ ServeFails
    \/ \E c \in Shutters : ShutdownSteps(c) \/ ShutdownDeadline(c)
    \/ \E r \in Reqs : Arrive(r) \/ HandlerSteps(r)
    \/ \E p \in Probers : ProberSteps(p)

\* Any program may embed the agent: calls in any order, from any goroutine.
EmbedderNext ==
    \/ \E s \in Starters : CallStart(s)
    \/ \E c \in Callers : CallShutdown(c)
    \/ Cancel

\* All calls have returned and every goroutine has ended.
Finished ==
    /\ ctxDone /\ acceptPc # "accepting" /\ Active = {}
    /\ \A s \in Starters : startPc[s] = "returned"
    /\ \A c \in Callers : shutPc[c] = "returned"
    /\ \A p \in Probers : prober[p] \in {"off", "returned"}

LifeNext == AgentNext \/ EmbedderNext \/ (Finished /\ UNCHANGED lifeVars)

LifeSpec == LifeInit /\ [][LifeNext]_lifeVars

\* Goroutines are scheduled.  Handlers are promised nothing: the server has no
\* read or write timeout (protocol/server.go:73), so a client that never sends
\* the rest of its body holds its handler for as long as it likes.
LifeFairness ==
    /\ \A s \in Starters : WF_lifeVars(StartSteps(s))
    /\ WF_lifeVars(ServeSteps) /\ WF_lifeVars(BeginServe)
    /\ \A c \in Shutters : WF_lifeVars(ShutdownSteps(c))

LifeFairSpec == LifeSpec /\ LifeFairness
-----------------------------------------------------------------------------
(* Properties.                                                             *)

\* Ranges, and that a Start call runs and a server exists only once started.
LifeTypeOK ==
    /\ started \in BOOLEAN /\ shutdown \in BOOLEAN /\ ctxDone \in BOOLEAN
    /\ startPc \in [Starters -> {"idle", "waitReady", "announce", "waitDone",
                                 "shutdown", "returned"}]
    /\ startResult \in [Starters -> {"none", "refused", "cancelled", "nil", "error"}]
    /\ servePc \in {"off", "listen", "signal", "select", "draining", "done"}
    /\ errCh \in {"empty", "nil", "error"}
    /\ published \in BOOLEAN /\ srvReady \in BOOLEAN
    /\ acceptPc \in {"off", "starting", "accepting", "closed", "failed"}
    /\ inShutdown \in BOOLEAN
    /\ cardURL \in BOOLEAN /\ agentReady \in BOOLEAN
    /\ req \in [Reqs -> {"none", "accepted", "handling", "done"}]
    /\ prober \in [Probers -> {"off", "wait", "check", "fetch", "returned"}]
    /\ shutPc \in [Shutters -> {"idle", "server", "draining", "closeLog", "returned"}]
    /\ shutResult \in [Shutters -> {"none", "noop", "unserved", "drained", "deadline"}]
    /\ logOpen \in BOOLEAN /\ closeErr \in BOOLEAN /\ lost \subseteq Reqs \union Probers
    /\ (servePc # "off") <=> started

Running == {s \in Starters : startPc[s] \in {"waitReady", "announce", "waitDone", "shutdown"}}

\* A call that got past the shutdown flag, and has done or is doing the work.
Worked(c) == \/ shutPc[c] \in {"server", "draining", "closeLog"}
             \/ shutResult[c] \in {"unserved", "drained", "deadline"}

\* However many goroutines call Shutdown and Start, and Start may itself, one
\* runs the server and at most one shuts down and closes the log.
OneStartOneShutdown ==
    /\ \A s, t \in Running : s = t
    /\ \A c, d \in Shutters : Worked(c) /\ Worked(d) => c = d

\* A Shutdown that drained the server leaves nothing behind that could write
\* to the log it closed: no handler, and nobody accepting (agent.go:284-292).
DrainedMeansQuiet ==
    \A c \in Shutters :
        (shutPc[c] = "closeLog" \/ shutResult[c] = "drained") =>
            /\ Active = {}
            /\ inShutdown /\ acceptPc # "accepting"

\* Requests lose log records in one way only: the agent was shut down before
\* its server existed, and the server came up afterwards.
LostOnlyWhenUnserved ==
    (lost \intersect Reqs # {}) => \E c \in Shutters : shutResult[c] = "unserved"

\* Who waits until the agent is ready finds a listening server and a card
\* with its URL (agent.go:233-237).
ReadyMeansComplete == agentReady => cardURL /\ srvReady /\ published

acceptPhase ==
    CASE acceptPc \in {"off", "starting"} -> "down"
      [] acceptPc = "accepting"           -> "up"
      [] OTHER                            -> "draining"

Drained == \E c \in Shutters : shutResult[c] = "drained"

AgentService == INSTANCE GracefulService
    WITH phase <- IF Drained THEN "ended" ELSE acceptPhase,
         busy <- Active, clean <- Drained

\* Whoever embeds the agent, and however its calls fall, the agent is a
\* graceful service from its first request to the Shutdown that drains it
\* (agent.go:265-298, protocol/server.go:105-134).
AgentIsGraceful == AgentService!Spec

\* What the code leaves to its clients: each request is over at some time.
ClientsLetGo == <>[](Active = {})

\* Cancelling the context ends every Start call, also one that races with a
\* Shutdown called elsewhere, once the clients let their requests end
\* (agent.go:207, 255).
CancelEndsStart ==
    ClientsLetGo =>
        \A s \in Starters :
            (ctxDone /\ startPc[s] # "idle") ~> (startPc[s] = "returned")

\* Cancelling the context ends the server too, also when Start has returned
\* before the server was up and nobody calls Shutdown: it accepts nothing more,
\* whatever its clients do, and is done once they let their requests end
\* (agent.go:245, protocol/server.go:88-90).
CancelStopsServing ==
    /\ (ctxDone /\ servePc # "off") ~> [](acceptPc # "accepting")
    /\ ClientsLetGo => (ctxDone /\ servePc # "off") ~> (servePc = "done")

\* protocol/interfaces.go:48 says Shutdown shuts down the server: after one
\* that did its work and returned nil, nothing is accepted.
ShutdownStopsServing ==
    \A c \in Shutters :
        shutResult[c] \in {"unserved", "drained"} /\ ~closeErr => acceptPc # "accepting"

=============================================================================
