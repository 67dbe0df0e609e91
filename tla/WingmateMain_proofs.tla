------------------------ MODULE WingmateMain_proofs ------------------------
(***************************************************************************)
(* Proofs about the server process, for any set of requests: no request    *)
(* loses a log record, exit code 0 means drained, and the process is a     *)
(* graceful service.                                                       *)
(*                                                                         *)
(* The argument: main shuts down only an agent it has seen ready, and a    *)
(* ready agent has published its server, so the Shutdown that closes the   *)
(* log has drained the server first.                                       *)
(***************************************************************************)
EXTENDS WingmateMain, AgentLifecycle_proofs

\* What runServer adds to the agent's invariant.
MainInv ==
    /\ ~ctxDone
    /\ shutPc[runner] = "idle"
    /\ mainPc \in {"waitReady", "serving"} => ~shutdown
    /\ shutPc[main] = "server" => published
    /\ shutResult[runner] = "none" /\ shutResult[main] \notin {"unserved", "noop"}
    /\ SuccessMeansDrained

ProcInv == LifeInv /\ ProcTypeOK /\ MainInv

USE DEF mainVars, Shutters, Probers, flagVars, startVars, srvVars, cardVars, logVars,
        shutVars, Record, StartReturns, StartGoto, ShutReturns, ShutGoto,
        ReqGoto, ProberGoto, HTTPShutdown, EnterShutdown, CloseFlightLog

LEMMA TwoGoroutines == runner # main /\ Shutters = {runner, main}
BY LifecycleAssumption, MainAssumption

LEMMA InitProcInv == ProcInit => ProcInv
<1> SUFFICES ASSUME ProcInit PROVE ProcInv
  OBVIOUS
<1>1. LifeInv
  BY InitLifeInv DEF ProcInit
<1>2. ProcTypeOK
  BY <1>1 DEF ProcInit, ProcTypeOK, LifeInv
<1>3. MainInv
  BY TwoGoroutines DEF ProcInit, LifeInit, MainInv, SuccessMeansDrained
<1> QED
  BY <1>1, <1>2, <1>3 DEF ProcInv

\* The agent's own steps, while main runs.
LEMMA AgentStepProcInv ==
  ASSUME ProcInv, mainPc # "exited", AgentNext \/ CallStart(runner), UNCHANGED mainVars
  PROVE  ProcInv'
<1>1. LifeInv'
  BY AgentNextLifeInv, StartStepsLifeInv, MainAssumption DEF ProcInv
<1>2. agentReady => agentReady'
  <2> USE DEF ServeSteps, Listen, ListenFails, SignalReady, ServeCancelled, ServeDrained,
              ServeEnds, BeginServe, ServeFails
  <2>1. ASSUME NEW s \in Starters, StartSteps(s) PROVE agentReady => agentReady'
    BY <2>1 DEF StartSteps, PublishURL, Announce, StartSeesServerEnd,
                StartCancelledEarly, StartCancelled, StartSeesShutdownEnd
  <2>2. ASSUME NEW c \in Shutters, ShutdownSteps(c) \/ ShutdownDeadline(c)
        PROVE  agentReady => agentReady'
    BY <2>2 DEF ShutdownSteps, ShutdownUnserved, ShutdownHTTP, ShutdownDrained,
                CloseLog, ShutdownDeadline
  <2>3. ASSUME NEW r \in Reqs, Arrive(r) \/ HandlerSteps(r) PROVE agentReady => agentReady'
    BY <2>3 DEF Arrive, HandlerSteps, ServeCard, BeginMessage, EndMessage
  <2>4. ASSUME NEW p \in Probers, ProberSteps(p) PROVE agentReady => agentReady'
    BY <2>4 DEF ProberSteps, ProbeBegins, RoundEnds, ProbeSucceeds, ProbeFails,
                ProbeTick, ProbeLoopEnds
  <2>5. ServeSteps \/ BeginServe \/ ServeFails => (agentReady => agentReady')
    OBVIOUS
  <2>6. CallStart(runner) => (agentReady => agentReady')
    BY DEF CallStart
  <2> QED
    BY <2>1, <2>2, <2>3, <2>4, <2>5, <2>6 DEF AgentNext
<1>3. ProcTypeOK'
  BY <1>1, <1>2 DEF ProcInv, ProcTypeOK, LifeInv
<1>4. MainInv'
  <2> USE DEF ProcInv, ProcTypeOK, MainInv, SuccessMeansDrained
  <2>0. exitCode' # "success" /\ runner \in Starters /\ ~ctxDone
    BY MainAssumption
  <2>1. ASSUME NEW s \in Starters, StartSteps(s) PROVE MainInv'
    BY <2>0, <2>1 DEF StartSteps, PublishURL, Announce, StartSeesServerEnd,
                StartCancelledEarly, StartCancelled, StartSeesShutdownEnd
  <2>2. ASSUME NEW c \in Shutters, ShutdownSteps(c) \/ ShutdownDeadline(c)
        PROVE  MainInv'
    <3>1. c = main
      BY <2>2, TwoGoroutines DEF ShutdownSteps, ShutdownUnserved, ShutdownHTTP,
                ShutdownDrained, CloseLog, ShutdownDeadline
    <3> HIDE DEF CloseFlightLog
    <3>2. /\ shutPc' = [shutPc EXCEPT ![main] = shutPc'[main]]
          /\ shutResult' = [shutResult EXCEPT ![main] = shutResult'[main]]
          /\ shutPc'[main] # "server" /\ shutResult'[main] \notin {"unserved", "noop"}
          /\ UNCHANGED <<ctxDone, shutdown>>
      BY <2>2, <3>1, TwoGoroutines
         DEF LifeInv, LifeTypeOK, ShutdownSteps, ShutdownUnserved, ShutdownHTTP,
             ShutdownDrained, CloseLog, ShutdownDeadline
    <3> QED
      BY <2>0, <3>2, TwoGoroutines DEF LifeInv, LifeTypeOK
  <2>3. ASSUME NEW r \in Reqs, Arrive(r) \/ HandlerSteps(r) PROVE MainInv'
    BY <2>0, <2>3 DEF Arrive, HandlerSteps, ServeCard, BeginMessage, EndMessage
  <2>4. ASSUME NEW p \in Probers, ProberSteps(p) PROVE MainInv'
    BY <2>0, <2>4 DEF ProberSteps, ProbeBegins, RoundEnds, ProbeSucceeds, ProbeFails,
                ProbeTick, ProbeLoopEnds
  <2>5. ServeSteps \/ BeginServe \/ ServeFails => MainInv'
    BY <2>0 DEF ServeSteps, Listen, ListenFails, SignalReady, ServeCancelled, ServeDrained,
                ServeEnds, BeginServe, ServeFails
  <2>6. CallStart(runner) => MainInv'
    BY <2>0 DEF CallStart
  <2> QED
    BY <2>1, <2>2, <2>3, <2>4, <2>5, <2>6 DEF AgentNext
<1> QED
  BY <1>1, <1>3, <1>4 DEF ProcInv

\* Main's own steps and the arrival of a signal.
LEMMA MainStepProcInv ==
  ASSUME ProcInv, mainPc # "exited", MainSteps \/ Signal
  PROVE  ProcInv'
<1>1. ASSUME NEW code \in {"success", "internal"}, Exit(code),
             code = "success" => shutResult[main] = "drained" /\ ~closeErr
      PROVE  ProcInv'
  <2>1. LifeInv' /\ UNCHANGED lifeVars
    BY <1>1, StutterLifeInv DEF Exit, ProcInv
  <2>2. ProcTypeOK'
    BY <1>1, <2>1 DEF Exit, ProcInv, ProcTypeOK, LifeInv
  <2>3. MainInv'
    BY <1>1, <2>1, TwoGoroutines
       DEF Exit, ProcInv, MainInv, SuccessMeansDrained, lifeVars, Active, LifeInv,
           DrainInv, LogInv
  <2> QED
    BY <2>1, <2>2, <2>3 DEF ProcInv
<1>2. ASSUME mainPc = "serving", StopAgent
      PROVE  ProcInv'
  <2>1. LifeInv'
    BY <1>2, ShutdownStepsLifeInv, TwoGoroutines DEF StopAgent, ProcInv
  <2>2. ProcTypeOK'
    BY <1>2, <2>1 DEF StopAgent, CallShutdown, ProcInv, ProcTypeOK, LifeInv
  <2>3. published
    BY <1>2 DEF ProcInv, ProcTypeOK, LifeInv, ReadyInv
  <2>4. MainInv'
    BY <1>2, <2>3, TwoGoroutines
       DEF StopAgent, CallShutdown, ProcInv, ProcTypeOK, MainInv, SuccessMeansDrained,
           LifeInv, LifeTypeOK
  <2> QED
    BY <2>1, <2>2, <2>4 DEF ProcInv
<1>3. ASSUME SeeReady \/ Signal
      PROVE  ProcInv'
  <2>1. LifeInv' /\ UNCHANGED lifeVars
    BY <1>3, StutterLifeInv DEF SeeReady, Signal, ProcInv
  <2>2. ProcTypeOK'
    BY <1>3, <2>1 DEF SeeReady, Signal, ProcInv, ProcTypeOK, LifeInv, lifeVars
  <2>3. MainInv'
    BY <1>3, <2>1
       DEF SeeReady, Signal, ProcInv, ProcTypeOK, MainInv, SuccessMeansDrained, lifeVars, Active
  <2> QED
    BY <2>1, <2>2, <2>3 DEF ProcInv
<1>4. CASE ReadyTimeout
  BY <1>1, <1>4 DEF ReadyTimeout
<1>5. CASE TakeSignal
  BY <1>2, <1>5 DEF TakeSignal
<1>6. CASE AgentEnds
  BY <1>1, <1>2, <1>6 DEF AgentEnds
<1>7. CASE Stopped
  <2>1. ~ShutdownError(main) => shutResult[main] = "drained" /\ ~closeErr
    BY <1>7, TwoGoroutines
       DEF ShutdownError, Stopped, ProcInv, MainInv, LifeInv, LifeTypeOK, ShutInv
  <2> QED
    BY <1>1, <1>7, <2>1 DEF Stopped
<1> QED
  BY <1>3, <1>4, <1>5, <1>6, <1>7 DEF MainSteps

LEMMA StutterProcInv ==
  ASSUME ProcInv, UNCHANGED procVars
  PROVE  ProcInv'
<1>1. LifeInv' /\ UNCHANGED lifeVars
  BY StutterLifeInv DEF ProcInv, procVars
<1>2. ProcTypeOK'
  BY <1>1 DEF ProcInv, ProcTypeOK, LifeInv, procVars, lifeVars
<1>3. MainInv'
  BY <1>1 DEF ProcInv, MainInv, SuccessMeansDrained, procVars, lifeVars, Active
<1> QED
  BY <1>1, <1>2, <1>3 DEF ProcInv

\* The inductive invariant of the process.
THEOREM ProcInvHolds == ProcSpec => []ProcInv
<1>1. ProcInit => ProcInv
  BY InitProcInv
<1>2. ProcInv /\ [ProcNext]_procVars => ProcInv'
  BY MainStepProcInv, AgentStepProcInv, StutterProcInv DEF ProcNext
<1> QED
  BY <1>1, <1>2, PTL DEF ProcSpec

\* Type correctness of the process.
THEOREM ProcTypeCorrect == ProcSpec => []ProcTypeOK
<1>1. ProcInv => ProcTypeOK
  BY DEF ProcInv
<1> QED
  BY <1>1, ProcInvHolds, PTL

\* Every record of every request finds the flight log open.
THEOREM NoRequestRecordLostHolds == ProcSpec => []NoRequestRecordLost
<1>1. ProcInv => NoRequestRecordLost
  BY TwoGoroutines
     DEF ProcInv, LifeInv, LogInv, LostOnlyWhenUnserved, MainInv, NoRequestRecordLost
<1> QED
  BY <1>1, ProcInvHolds, PTL

\* Exit code 0 means drained, with the log closed.
THEOREM SuccessMeansDrainedHolds == ProcSpec => []SuccessMeansDrained
<1>1. ProcInv => SuccessMeansDrained
  BY DEF ProcInv, MainInv
<1> QED
  BY <1>1, ProcInvHolds, PTL
-----------------------------------------------------------------------------
(* The process implements the graceful service.                            *)

LEMMA AgentStepImplements ==
  ASSUME ProcInv, mainPc # "exited", AgentNext \/ CallStart(runner), UNCHANGED mainVars
  PROVE  [Service!Next]_(Service!svc)
<1> USE DEF phaseNow, acceptPhase, Service!svc
<1>0. LifeInv /\ (AgentNext \/ EmbedderNext)
  BY MainAssumption DEF ProcInv, EmbedderNext
<1>1. UNCHANGED <<mainPc, exitCode>> /\ exitCode # "success"
  BY DEF ProcInv, ProcTypeOK
<1>2. acceptPc \in {"off", "starting", "accepting", "closed", "failed"}
  BY DEF ProcInv, LifeInv, LifeTypeOK
<1>3. CASE acceptPc' # acceptPc
  <2>1. UNCHANGED Active
    BY <1>0, <1>3, ActiveMoves
  <2>2. Service!Open \/ Service!Close \/ phaseNow' = phaseNow
    BY <1>0, <1>1, <1>2, <1>3, <2>1, AcceptMoves DEF Service!Open, Service!Close
  <2> QED
    BY <1>1, <2>1, <2>2 DEF Service!Next
<1>4. CASE acceptPc' = acceptPc
  <2>1. phaseNow' = phaseNow
    BY <1>1, <1>4
  <2>2. CASE UNCHANGED Active
    BY <1>1, <2>1, <2>2
  <2>3. ASSUME NEW r \in Reqs, acceptPc = "accepting", Active' = Active \union {r}
        PROVE  Service!Admit(r)
    BY <1>1, <2>1, <2>3 DEF Service!Admit
  <2>4. ASSUME NEW r \in Reqs, r \in Active, Active' = Active \ {r}
        PROVE  Service!Complete(r)
    BY <1>1, <2>1, <2>4 DEF Service!Complete
  <2> QED
    BY <1>0, <1>4, <2>2, <2>3, <2>4, ActiveMoves DEF Service!Next
<1> QED
  BY <1>3, <1>4

LEMMA MainStepImplements ==
  ASSUME ProcInv, mainPc # "exited", MainSteps \/ Signal
  PROVE  [Service!Next]_(Service!svc)
<1> USE DEF phaseNow, acceptPhase, Service!svc
<1>0. exitCode # "success"
  BY DEF ProcInv, ProcTypeOK
<1>1. ASSUME NEW code \in {"success", "internal"}, Exit(code),
             code = "success" => shutResult[main] = "drained" /\ ~closeErr
      PROVE  Service!End
  <2>1. phaseNow # "ended" /\ phaseNow' = "ended" /\ UNCHANGED Active
    BY <1>1 DEF Exit, lifeVars, Active
  <2>2. code = "success" => Active = {} /\ acceptPc # "accepting"
    BY <1>1, TwoGoroutines DEF ProcInv, LifeInv, DrainInv
  <2>3. code = "success" => phaseNow # "up" /\ Active = {}
    BY <2>2, <2>1
  <2>4. (exitCode = "success")' = (code = "success")
    BY <1>1 DEF Exit
  <2> QED
    BY <2>1, <2>3, <2>4 DEF Service!End
<1>2. ASSUME StopAgent
      PROVE  UNCHANGED Service!svc
  BY <1>2 DEF StopAgent, CallShutdown, Active
<1>3. ASSUME SeeReady \/ Signal
      PROVE  UNCHANGED Service!svc
  BY <1>3 DEF SeeReady, Signal, lifeVars, Active
<1>4. CASE ReadyTimeout
  BY <1>1, <1>4 DEF ReadyTimeout, Service!Next
<1>5. CASE TakeSignal
  BY <1>2, <1>5 DEF TakeSignal
<1>6. CASE AgentEnds
  BY <1>1, <1>2, <1>6 DEF AgentEnds, Service!Next
<1>7. CASE Stopped
  <2>1. ~ShutdownError(main) => shutResult[main] = "drained" /\ ~closeErr
    BY <1>7, TwoGoroutines
       DEF ShutdownError, Stopped, ProcInv, MainInv, LifeInv, LifeTypeOK, ShutInv
  <2> QED
    BY <1>1, <1>7, <2>1 DEF Stopped, Service!Next
<1> QED
  BY <1>3, <1>4, <1>5, <1>6, <1>7 DEF MainSteps

\* The wingmate process implements the graceful service: nothing is admitted
\* once it stopped admitting, and a clean end leaves nothing in progress.
THEOREM ProcessIsGraceful == ProcSpec => ImplementsService
<1>1. ProcInit => Service!Init
  BY DEF ProcInit, LifeInit, Service!Init, phaseNow, acceptPhase, Active
<1>2. ProcInv /\ [ProcNext]_procVars => [Service!Next]_(Service!svc)
  <2> SUFFICES ASSUME ProcInv, [ProcNext]_procVars
               PROVE  [Service!Next]_(Service!svc)
    OBVIOUS
  <2>1. CASE UNCHANGED procVars
    BY <2>1 DEF procVars, lifeVars, Service!svc, phaseNow, acceptPhase, Active
  <2> QED
    BY <2>1, MainStepImplements, AgentStepImplements DEF ProcNext
<1> QED
  BY <1>1, <1>2, ProcInvHolds, PTL DEF ProcSpec, ImplementsService, Service!Spec
-----------------------------------------------------------------------------
(* The process is one of the programs that may embed the agent.            *)

LEMMA ProcStepIsLifeStep ==
  ASSUME ProcNext
  PROVE  [LifeNext]_lifeVars
<1>1. CASE AgentNext \/ CallStart(runner)
  BY <1>1, MainAssumption DEF LifeNext, EmbedderNext
<1>2. CASE StopAgent
  BY <1>2, MainAssumption DEF StopAgent, LifeNext, EmbedderNext
<1>3. ASSUME NEW code, Exit(code) PROVE UNCHANGED lifeVars
  BY <1>3 DEF Exit
<1>4. CASE MainSteps \/ Signal
  BY <1>2, <1>3, <1>4
     DEF MainSteps, SeeReady, ReadyTimeout, TakeSignal, AgentEnds, Stopped, Signal
<1>5. CASE UNCHANGED procVars
  BY <1>5 DEF procVars
<1> QED
  BY <1>1, <1>4, <1>5 DEF ProcNext

\* Every behaviour of the process is one of the agent under some embedder, so
\* all that is proved of the agent holds in the process (main.go:185-250).
THEOREM ProcessEmbedsAgent == ProcSpec => LifeSpec
<1>1. ProcInit => LifeInit
  BY DEF ProcInit
<1>2. [ProcNext]_procVars => [LifeNext]_lifeVars
  BY ProcStepIsLifeStep DEF procVars
<1> QED
  BY <1>1, <1>2, PTL DEF ProcSpec, LifeSpec

\* So in the process too a drained agent is quiet and stays so.
THEOREM ProcessAgentIsGraceful == ProcSpec => AgentIsGraceful
BY ProcessEmbedsAgent, AgentIsGracefulHolds
=============================================================================
