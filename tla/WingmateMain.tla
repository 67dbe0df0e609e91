---------------------------- MODULE WingmateMain ----------------------------
(***************************************************************************)
(* The server process: runServer of cmd/wingmate/main.go around one Agent. *)
(* Main starts the agent in a goroutine, waits until it is ready, then for *)
(* a signal or for the agent's end, and shuts it down within 10 seconds.   *)
(* The context it gives to Start is cancelled only when runServer returns, *)
(* that is, when the process ends; so Cancel is not a step here.           *)
(***************************************************************************)
EXTENDS AgentLifecycle

CONSTANTS runner, main   \* the goroutine that calls Start, and main itself

ASSUME MainAssumption == Starters = {runner} /\ Callers = {main}

VARIABLES
    mainPc,     \* where runServer is
    signalled,  \* a signal is waiting in sigCh or has been taken
    exitCode    \* what the process ended with

mainVars == <<mainPc, signalled, exitCode>>
procVars == <<lifeVars, mainVars>>

ProcInit ==
    /\ LifeInit
    /\ mainPc = "waitReady" /\ signalled = FALSE /\ exitCode = "none"

Exit(code) ==
    /\ mainPc' = "exited" /\ exitCode' = code
    /\ UNCHANGED <<lifeVars, signalled>>

\* SIGINT or SIGTERM; sigCh holds one.
Signal ==
    /\ ~signalled /\ signalled' = TRUE
    /\ UNCHANGED <<lifeVars, mainPc, exitCode>>

\* WaitUntilReady returns nil.
SeeReady ==
    /\ mainPc = "waitReady" /\ agentReady
    /\ mainPc' = "serving"
    /\ UNCHANGED <<lifeVars, signalled, exitCode>>

\* WaitUntilReady gives up after 10 seconds: also what a failed Start ends in,
\* since nobody reads its error before the agent is ready.
ReadyTimeout == mainPc = "waitReady" /\ Exit("internal")

\* a.Shutdown(shutdownCtx)
StopAgent ==
    /\ mainPc' = "stopping"
    /\ CallShutdown(main)
    /\ UNCHANGED <<signalled, exitCode>>

\* case sig := <-sigCh
TakeSignal == mainPc = "serving" /\ signalled /\ StopAgent

\* A bug: an error of the agent is printed and the wait goes on.
AgentEndIgnored ==
    /\ mainPc = "serving" /\ startPc[runner] = "returned"
    /\ startResult[runner] = "nil"
    /\ StopAgent

\* case err := <-errCh
AgentEnds ==
    /\ mainPc = "serving" /\ startPc[runner] = "returned"
    /\ IF startResult[runner] = "nil" THEN StopAgent ELSE Exit("internal")

\* A bug: the error of Shutdown is dropped.
StoppedWhatever ==
    /\ mainPc = "stopping" /\ shutPc[main] = "returned"
    /\ Exit("success")

Stopped ==
    /\ mainPc = "stopping" /\ shutPc[main] = "returned"
    /\ Exit(IF ShutdownError(main) THEN "internal" ELSE "success")

MainSteps == SeeReady \/ ReadyTimeout \/ TakeSignal \/ AgentEnds \/ Stopped

\* The process's goroutines run until main returns.
ProcNext ==
    \/ /\ mainPc # "exited"
       /\ \/ MainSteps \/ Signal
          \/ (AgentNext \/ CallStart(runner)) /\ UNCHANGED mainVars
    \/ mainPc = "exited" /\ UNCHANGED procVars

ProcSpec == ProcInit /\ [][ProcNext]_procVars

\* Goroutines are scheduled and timers fire.  Nothing is assumed of handlers:
\* a CLI call may outlast the 10 seconds.
ProcFairness ==
    /\ WF_procVars(mainPc # "exited" /\ MainSteps)
    /\ WF_procVars(mainPc # "exited" /\ (\/ CallStart(runner) \/ StartSteps(runner)
                                         \/ ServeSteps \/ BeginServe) /\ UNCHANGED mainVars)
    /\ WF_procVars(mainPc # "exited" /\ (ShutdownSteps(main) \/ ShutdownDeadline(main))
                                     /\ UNCHANGED mainVars)

ProcFairSpec == ProcSpec /\ ProcFairness
-----------------------------------------------------------------------------
(* Properties.                                                             *)

ProcTypeOK ==
    /\ LifeTypeOK
    /\ mainPc \in {"waitReady", "serving", "stopping", "exited"}
    /\ signalled \in BOOLEAN
    /\ exitCode \in {"none", "success", "internal"}
    /\ (mainPc = "exited") <=> (exitCode # "none")
    /\ mainPc \in {"serving", "stopping"} => agentReady

\* README.md:149 holds for requests: because main shuts down only an agent it
\* has seen ready, every record of a request finds the log open.
NoRequestRecordLost == lost \intersect Reqs = {}

\* Exit code 0 means that the server was drained and the log closed.
SuccessMeansDrained ==
    exitCode = "success" =>
        shutResult[main] = "drained" /\ ~logOpen /\ Active = {}

phaseNow == IF mainPc = "exited" THEN "ended" ELSE acceptPhase

Service == INSTANCE GracefulService
    WITH phase <- phaseNow, busy <- Active, clean <- (exitCode = "success")

\* The process is a graceful service.
ImplementsService == Service!Spec

\* A signal ends the process, however long a handler takes (main.go:235).
SignalEndsProcess == signalled ~> (mainPc = "exited")

\* An agent that ends by itself, by a port in use or a broken listener, ends
\* the process (main.go:213-232).
AgentEndEndsProcess == (startPc[runner] = "returned") ~> (mainPc = "exited")

\* README.md:11 says all activity is logged: no record is lost.
NoRecordLost == lost = {}
=============================================================================
