----------------------- MODULE AgentLifecycle_proofs -----------------------
(***************************************************************************)
(* Proofs about the agent's life, for any number of goroutines that start  *)
(* and stop it and any set of requests.                                    *)
(***************************************************************************)
EXTENDS AgentLifecycle, TLAPS

\* Nobody runs before started is set, and whoever waits for its own Shutdown
\* was running.
StartInv ==
    /\ \A s \in Running : started
    /\ \A s, t \in Running : s = t

\* Nobody works on a shutdown before the flag is set; a result belongs to a
\* call that has returned.
ShutInv ==
    /\ \A c \in Shutters : Worked(c) => shutdown
    /\ \A c, d \in Shutters : Worked(c) /\ Worked(d) => c = d
    /\ \A c \in Shutters : (shutResult[c] # "none") <=> (shutPc[c] = "returned")

\* Once http Shutdown was called nobody accepts; drained stays drained.
DrainInv ==
    /\ inShutdown => acceptPc # "accepting"
    /\ \A c \in Shutters :
          (shutPc[c] \in {"draining", "closeLog"} \/ shutResult[c] = "drained") => inShutdown
    /\ \A c \in Shutters :
          (shutPc[c] = "closeLog" \/ shutResult[c] = "drained") => Active = {}

\* Only a Shutdown that found no server, or one that drained it, closes the log.
LogInv ==
    /\ ~logOpen => \E c \in Shutters : shutResult[c] \in {"unserved", "drained"}
    /\ \A c \in Shutters : shutResult[c] = "drained" /\ ~closeErr => ~logOpen
    /\ LostOnlyWhenUnserved

\* The order of coming up: server published, Serve begun, card, ready.
ReadyInv ==
    /\ servePc \in {"signal", "select", "draining"} => published
    /\ servePc \in {"off", "listen", "signal"} => acceptPc = "off"
    /\ published => servePc \in {"signal", "select", "draining", "done"}
    /\ srvReady => published
    /\ \A s \in Starters : startPc[s] = "announce" => cardURL /\ srvReady
    /\ agentReady => cardURL /\ srvReady

\* The inductive invariant.
LifeInv == LifeTypeOK /\ StartInv /\ ShutInv /\ DrainInv /\ LogInv /\ ReadyInv

USE DEF Shutters, Probers, flagVars, startVars, srvVars, cardVars, logVars,
        shutVars, Record, StartReturns, StartGoto, ShutReturns, ShutGoto,
        ReqGoto, ProberGoto, HTTPShutdown, EnterShutdown, CloseFlightLog

LEMMA InitLifeInv == LifeInit => LifeInv
<1> SUFFICES ASSUME LifeInit PROVE LifeInv
  OBVIOUS
<1> USE DEF LifeInit
<1>1. LifeTypeOK
  BY DEF LifeTypeOK
<1>2. StartInv
  BY DEF StartInv, Running
<1>3. ShutInv
  BY DEF ShutInv, Worked
<1>4. DrainInv
  BY DEF DrainInv
<1>5. LogInv
  BY DEF LogInv, LostOnlyWhenUnserved
<1>6. ReadyInv
  BY DEF ReadyInv
<1> QED
  BY <1>1, <1>2, <1>3, <1>4, <1>5, <1>6 DEF LifeInv

LEMMA StartStepsLifeInv ==
  ASSUME NEW s \in Starters, LifeInv, StartSteps(s) \/ CallStart(s)
  PROVE  LifeInv'
<1> USE DEF LifeInv, LifeTypeOK, StartInv, ShutInv, DrainInv, LogInv, ReadyInv,
            Running, Worked, Active, LostOnlyWhenUnserved
<1>1. CASE CallStart(s)
  <2>1. LifeTypeOK'
    <3>1. CASE started \/ shutdown
      BY <1>1, <3>1 DEF CallStart
    <3>2. CASE ~(started \/ shutdown)
      BY <1>1, <3>2 DEF CallStart
    <3> QED
      BY <3>1, <3>2
  <2>2. StartInv'
    BY <1>1 DEF CallStart
  <2>3. ShutInv'
    BY <1>1 DEF CallStart
  <2>4. DrainInv'
    BY <1>1 DEF CallStart
  <2>5. LogInv'
    BY <1>1 DEF CallStart
  <2>6. ReadyInv'
    BY <1>1 DEF CallStart
  <2> QED
    BY <2>1, <2>2, <2>3, <2>4, <2>5, <2>6
<1>2. CASE PublishURL(s)
  BY <1>2 DEF PublishURL
<1>3. CASE Announce(s)
  BY <1>3 DEF Announce
<1>4. CASE StartSeesServerEnd(s)
  BY <1>4 DEF StartSeesServerEnd
<1>5. CASE StartCancelledEarly(s)
  BY <1>5 DEF StartCancelledEarly
<1>6. CASE StartCancelled(s)
  <2>1. LifeTypeOK'
    <3>1. /\ shutPc' \in [Shutters -> {"idle", "server", "draining", "closeLog", "returned"}]
          /\ shutResult' \in [Shutters -> {"none", "noop", "unserved", "drained", "deadline"}]
      BY <1>6 DEF StartCancelled
    <3>2. /\ shutdown' \in BOOLEAN
          /\ startPc' \in [Starters -> {"idle", "waitReady", "announce", "waitDone",
                                      "shutdown", "returned"}]
      BY <1>6 DEF StartCancelled
    <3>3. UNCHANGED <<started, ctxDone, startResult, srvVars, cardVars, req, prober, logVars>>
      BY <1>6 DEF StartCancelled
    <3> HIDE DEF Shutters, ShutReturns, ShutGoto, EnterShutdown, CloseFlightLog
    <3> QED
      BY <3>1, <3>2, <3>3
  <2>2. StartInv'
    BY <1>6, LifecycleAssumption DEF StartCancelled
  <2>3. ShutInv'
    BY <1>6, LifecycleAssumption DEF StartCancelled
  <2>4. DrainInv'
    BY <1>6, LifecycleAssumption DEF StartCancelled
  <2>5. LogInv'
    BY <1>6, LifecycleAssumption DEF StartCancelled
  <2>6. ReadyInv'
    BY <1>6, LifecycleAssumption DEF StartCancelled
  <2> QED
    BY <2>1, <2>2, <2>3, <2>4, <2>5, <2>6
<1>7. CASE StartSeesShutdownEnd(s)
  BY <1>7 DEF StartSeesShutdownEnd
<1> QED
  BY <1>1, <1>2, <1>3, <1>4, <1>5, <1>6, <1>7 DEF StartSteps

LEMMA ServeStepsLifeInv ==
  ASSUME LifeInv, ServeSteps \/ BeginServe \/ ServeFails
  PROVE  LifeInv'
<1> USE DEF LifeInv, LifeTypeOK, StartInv, ShutInv, DrainInv, LogInv, ReadyInv,
            Running, Worked, Active, LostOnlyWhenUnserved
<1>1. CASE Listen
  BY <1>1 DEF Listen
<1>2. CASE ListenFails
  BY <1>2 DEF ListenFails
<1>3. CASE SignalReady
  <2>1. LifeTypeOK'
    BY <1>3 DEF SignalReady
  <2>2. StartInv'
    BY <1>3 DEF SignalReady
  <2>3. ShutInv'
    BY <1>3 DEF SignalReady
  <2>4. DrainInv'
    BY <1>3 DEF SignalReady
  <2>5. LogInv'
    BY <1>3 DEF SignalReady
  <2>6. ReadyInv'
    BY <1>3 DEF SignalReady
  <2> QED
    BY <2>1, <2>2, <2>3, <2>4, <2>5, <2>6
<1>4. CASE ServeCancelled
  BY <1>4 DEF ServeCancelled
<1>5. CASE ServeDrained
  BY <1>5 DEF ServeDrained
<1>6. CASE ServeEnds
  BY <1>6 DEF ServeEnds
<1>7. CASE BeginServe
  BY <1>7 DEF BeginServe
<1>8. CASE ServeFails
  BY <1>8 DEF ServeFails
<1> QED
  BY <1>1, <1>2, <1>3, <1>4, <1>5, <1>6, <1>7, <1>8 DEF ServeSteps

LEMMA ShutdownStepsLifeInv ==
  ASSUME NEW c \in Shutters, LifeInv,
         ShutdownSteps(c) \/ ShutdownDeadline(c) \/ CallShutdown(c)
  PROVE  LifeInv'
<1> USE DEF LifeInv, LifeTypeOK, StartInv, ShutInv, DrainInv, LogInv, ReadyInv,
            Running, Worked, Active, LostOnlyWhenUnserved
<1>1. CASE CallShutdown(c)
  <2>1. LifeTypeOK'
    <3>1. /\ shutPc' \in [Shutters -> {"idle", "server", "draining", "closeLog", "returned"}]
          /\ shutResult' \in [Shutters -> {"none", "noop", "unserved", "drained", "deadline"}]
      BY <1>1 DEF CallShutdown
    <3>2. shutdown' \in BOOLEAN
      BY <1>1 DEF CallShutdown
    <3>3. UNCHANGED <<started, ctxDone, startVars, srvVars, cardVars, req, prober, logVars>>
      BY <1>1 DEF CallShutdown
    <3> HIDE DEF Shutters, ShutReturns, ShutGoto, EnterShutdown, CloseFlightLog
    <3> QED
      BY <3>1, <3>2, <3>3
  <2>2. StartInv'
    BY <1>1 DEF CallShutdown
  <2>3. ShutInv'
    BY <1>1 DEF CallShutdown
  <2>4. DrainInv'
    BY <1>1 DEF CallShutdown
  <2>5. LogInv'
    BY <1>1 DEF CallShutdown
  <2>6. ReadyInv'
    BY <1>1 DEF CallShutdown
  <2> QED
    BY <2>1, <2>2, <2>3, <2>4, <2>5, <2>6
<1>2. CASE ShutdownUnserved(c)
  <2>1. LifeTypeOK'
    <3>1. /\ shutPc' \in [Shutters -> {"idle", "server", "draining", "closeLog", "returned"}]
          /\ shutResult' \in [Shutters -> {"none", "noop", "unserved", "drained", "deadline"}]
      BY <1>2 DEF ShutdownUnserved
    <3>2. logOpen' \in BOOLEAN /\ closeErr' \in BOOLEAN
      BY <1>2 DEF ShutdownUnserved
    <3>3. UNCHANGED <<flagVars, ctxDone, startVars, srvVars, cardVars, req, prober, lost>>
      BY <1>2 DEF ShutdownUnserved
    <3> HIDE DEF Shutters, ShutReturns, ShutGoto, EnterShutdown, CloseFlightLog
    <3> QED
      BY <3>1, <3>2, <3>3
  <2>2. StartInv'
    BY <1>2 DEF ShutdownUnserved
  <2>3. ShutInv'
    BY <1>2 DEF ShutdownUnserved
  <2>4. DrainInv'
    BY <1>2 DEF ShutdownUnserved
  <2>5. LogInv'
    BY <1>2 DEF ShutdownUnserved
  <2>6. ReadyInv'
    BY <1>2 DEF ShutdownUnserved
  <2> QED
    BY <2>1, <2>2, <2>3, <2>4, <2>5, <2>6
<1>3. CASE ShutdownHTTP(c)
  BY <1>3 DEF ShutdownHTTP
<1>4. CASE ShutdownDrained(c)
  BY <1>4 DEF ShutdownDrained
<1>5. CASE CloseLog(c)
  <2>1. LifeTypeOK'
    <3>1. /\ shutPc' \in [Shutters -> {"idle", "server", "draining", "closeLog", "returned"}]
          /\ shutResult' \in [Shutters -> {"none", "noop", "unserved", "drained", "deadline"}]
      BY <1>5 DEF CloseLog
    <3>2. logOpen' \in BOOLEAN /\ closeErr' \in BOOLEAN
      BY <1>5 DEF CloseLog
    <3>3. UNCHANGED <<flagVars, ctxDone, startVars, srvVars, cardVars, req, prober, lost>>
      BY <1>5 DEF CloseLog
    <3> HIDE DEF Shutters, ShutReturns, ShutGoto, EnterShutdown, CloseFlightLog
    <3> QED
      BY <3>1, <3>2, <3>3
  <2>2. StartInv'
    BY <1>5 DEF CloseLog
  <2>3. ShutInv'
    BY <1>5 DEF CloseLog
  <2>4. DrainInv'
    BY <1>5 DEF CloseLog
  <2>5. LogInv'
    <3>1. /\ shutPc[c] = "closeLog" /\ UNCHANGED lost
          /\ shutResult' = [shutResult EXCEPT ![c] = "drained"]
          /\ closeErr' \in BOOLEAN /\ logOpen' \in {FALSE, closeErr'}
      BY <1>5 DEF CloseLog
    <3>2. ~logOpen' => shutResult'[c] = "drained"
      BY <3>1
    <3>3. \A d \in Shutters : shutResult'[d] = "drained" /\ ~closeErr' => ~logOpen'
      BY <3>1
    <3>4. LostOnlyWhenUnserved'
      BY <3>1
    <3> QED
      BY <3>2, <3>3, <3>4
  <2>6. ReadyInv'
    BY <1>5 DEF CloseLog
  <2> QED
    BY <2>1, <2>2, <2>3, <2>4, <2>5, <2>6
<1>6. CASE ShutdownDeadline(c)
  BY <1>6 DEF ShutdownDeadline
<1> QED
  BY <1>1, <1>2, <1>3, <1>4, <1>5, <1>6 DEF ShutdownSteps

LEMMA RequestLifeInv ==
  ASSUME NEW r \in Reqs, LifeInv, Arrive(r) \/ HandlerSteps(r)
  PROVE  LifeInv'
<1> USE DEF LifeInv, LifeTypeOK, StartInv, ShutInv, DrainInv, LogInv, ReadyInv,
            Running, Worked, Active, LostOnlyWhenUnserved
<1>1. CASE Arrive(r)
  BY <1>1 DEF Arrive
<1>2. CASE ServeCard(r)
  BY <1>2 DEF ServeCard
<1>3. CASE BeginMessage(r)
  BY <1>3 DEF BeginMessage
<1>4. CASE EndMessage(r)
  BY <1>4 DEF EndMessage
<1> QED
  BY <1>1, <1>2, <1>3, <1>4 DEF HandlerSteps

LEMMA ProberLifeInv ==
  ASSUME NEW p \in Probers, LifeInv, ProberSteps(p)
  PROVE  LifeInv'
<1> USE DEF LifeInv, LifeTypeOK, StartInv, ShutInv, DrainInv, LogInv, ReadyInv,
            Running, Worked, Active, LostOnlyWhenUnserved, EndOfRound
<1>1. CASE ProbeBegins(p)
  BY <1>1 DEF ProbeBegins
<1>2. CASE RoundEnds(p)
  BY <1>2 DEF RoundEnds
<1>3. CASE ProbeSucceeds(p)
  BY <1>3 DEF ProbeSucceeds
<1>4. CASE ProbeFails(p)
  BY <1>4, LifecycleAssumption DEF ProbeFails
<1>5. CASE ProbeTick
  BY <1>5 DEF ProbeTick
<1>6. CASE ProbeLoopEnds
  BY <1>6 DEF ProbeLoopEnds
<1> QED
  BY <1>1, <1>2, <1>3, <1>4, <1>5, <1>6 DEF ProberSteps

LEMMA CancelLifeInv ==
  ASSUME LifeInv, Cancel
  PROVE  LifeInv'
BY DEF Cancel, LifeInv, LifeTypeOK, StartInv, ShutInv, DrainInv, LogInv, ReadyInv,
       Running, Worked, Active, LostOnlyWhenUnserved

LEMMA StutterLifeInv ==
  ASSUME LifeInv, UNCHANGED lifeVars
  PROVE  LifeInv'
BY DEF lifeVars, LifeInv, LifeTypeOK, StartInv, ShutInv, DrainInv, LogInv, ReadyInv,
       Running, Worked, Active, LostOnlyWhenUnserved

\* Every step of the agent's goroutines preserves the invariant.
LEMMA AgentNextLifeInv ==
  ASSUME LifeInv, AgentNext
  PROVE  LifeInv'
BY StartStepsLifeInv, ServeStepsLifeInv, ShutdownStepsLifeInv, RequestLifeInv,
   ProberLifeInv DEF AgentNext

\* The inductive invariant holds in every reachable state.
THEOREM LifeInvHolds == LifeSpec => []LifeInv
<1>1. LifeInit => LifeInv
  BY InitLifeInv
<1>2. LifeInv /\ [LifeNext]_lifeVars => LifeInv'
  <2> SUFFICES ASSUME LifeInv, LifeNext \/ UNCHANGED lifeVars
               PROVE  LifeInv'
    OBVIOUS
  <2>1. CASE AgentNext
    BY <2>1, AgentNextLifeInv
  <2>2. CASE EmbedderNext
    BY <2>2, StartStepsLifeInv, ShutdownStepsLifeInv, CancelLifeInv DEF EmbedderNext
  <2>3. CASE UNCHANGED lifeVars
    BY <2>3, StutterLifeInv
  <2> QED
    BY <2>1, <2>2, <2>3 DEF LifeNext
<1> QED
  BY <1>1, <1>2, PTL DEF LifeSpec

\* Type correctness of the agent and server state.
THEOREM LifeTypeCorrect == LifeSpec => []LifeTypeOK
<1>1. LifeInv => LifeTypeOK
  BY DEF LifeInv
<1> QED
  BY <1>1, LifeInvHolds, PTL

\* One Start runs, one Shutdown works, whoever calls them (agent.go:208-219,
\* 270-277).
THEOREM OneStartOneShutdownHolds == LifeSpec => []OneStartOneShutdown
<1>1. LifeInv => OneStartOneShutdown
  BY DEF LifeInv, StartInv, ShutInv, OneStartOneShutdown
<1> QED
  BY <1>1, LifeInvHolds, PTL

\* A Shutdown that drained the server leaves no handler and no acceptor.
THEOREM DrainedMeansQuietHolds == LifeSpec => []DrainedMeansQuiet
<1>1. LifeInv => DrainedMeansQuiet
  BY DEF LifeInv, DrainInv, DrainedMeansQuiet
<1> QED
  BY <1>1, LifeInvHolds, PTL

\* Requests lose log records only to a Shutdown that preceded the server.
THEOREM LostOnlyWhenUnservedHolds == LifeSpec => []LostOnlyWhenUnserved
<1>1. LifeInv => LostOnlyWhenUnserved
  BY DEF LifeInv, LogInv
<1> QED
  BY <1>1, LifeInvHolds, PTL

\* A ready agent is listening and its card is complete.
THEOREM ReadyMeansCompleteHolds == LifeSpec => []ReadyMeansComplete
<1>1. LifeInv => ReadyMeansComplete
  BY DEF LifeInv, ReadyInv, ReadyMeansComplete
<1> QED
  BY <1>1, LifeInvHolds, PTL
-----------------------------------------------------------------------------
(* The agent implements the graceful service.                              *)

\* Only two kinds of step move the accept loop: it begins, and it ends.
LEMMA AcceptMoves ==
  ASSUME LifeInv, AgentNext \/ EmbedderNext
  PROVE  \/ acceptPc' = acceptPc
         \/ /\ acceptPc \in {"off", "starting"} /\ UNCHANGED req
            /\ acceptPc' \in {"starting", "accepting", "closed"}
            /\ acceptPc' = "starting" => acceptPc = "off"
         \/ /\ acceptPc = "accepting" /\ UNCHANGED req
            /\ acceptPc' \in {"closed", "failed"}
<1> USE DEF ServeSteps, Listen, ListenFails, SignalReady, ServeCancelled, ServeDrained,
            ServeEnds, BeginServe, ServeFails
<1>1. ASSUME NEW s \in Starters, StartSteps(s) PROVE acceptPc' = acceptPc
  BY <1>1 DEF StartSteps, PublishURL, Announce, StartSeesServerEnd,
              StartCancelledEarly, StartCancelled, StartSeesShutdownEnd
<1>2. ASSUME NEW c \in Shutters, ShutdownSteps(c) \/ ShutdownDeadline(c)
      PROVE  acceptPc' = acceptPc \/ (acceptPc = "accepting" /\ acceptPc' = "closed"
                                      /\ UNCHANGED req)
  BY <1>2 DEF ShutdownSteps, ShutdownUnserved, ShutdownHTTP, ShutdownDrained,
              CloseLog, ShutdownDeadline
<1>3. ASSUME NEW r \in Reqs, Arrive(r) \/ HandlerSteps(r) PROVE acceptPc' = acceptPc
  BY <1>3 DEF Arrive, HandlerSteps, ServeCard, BeginMessage, EndMessage
<1>4. ASSUME NEW p \in Probers, ProberSteps(p) PROVE acceptPc' = acceptPc
  BY <1>4 DEF ProberSteps, ProbeBegins, RoundEnds, ProbeSucceeds, ProbeFails,
              ProbeTick, ProbeLoopEnds
<1>5. CASE ServeSteps \/ BeginServe \/ ServeFails
  BY <1>5 DEF LifeInv, ReadyInv
<1>6. CASE EmbedderNext
  BY <1>6 DEF EmbedderNext, CallStart, CallShutdown, Cancel
<1> QED
  BY <1>1, <1>2, <1>3, <1>4, <1>5, <1>6 DEF AgentNext

\* The two ways in which requests become and stop being active.
LEMMA ActiveMoves ==
  ASSUME LifeInv, AgentNext \/ EmbedderNext
  PROVE  \/ UNCHANGED <<Active, acceptPc>>
         \/ UNCHANGED Active /\ acceptPc' # acceptPc
         \/ /\ UNCHANGED acceptPc
            /\ \E r \in Reqs : \/ acceptPc = "accepting" /\ Active' = Active \union {r}
                               \/ r \in Active /\ Active' = Active \ {r}
<1> USE DEF ServeSteps, Listen, ListenFails, SignalReady, ServeCancelled, ServeDrained,
            ServeEnds, BeginServe, ServeFails
<1>1. ASSUME NEW s \in Starters, StartSteps(s) PROVE UNCHANGED req
  BY <1>1 DEF StartSteps, PublishURL, Announce, StartSeesServerEnd,
              StartCancelledEarly, StartCancelled, StartSeesShutdownEnd
<1>2. ASSUME NEW c \in Shutters, ShutdownSteps(c) \/ ShutdownDeadline(c)
      PROVE  UNCHANGED req
  BY <1>2 DEF ShutdownSteps, ShutdownUnserved, ShutdownHTTP, ShutdownDrained,
              CloseLog, ShutdownDeadline
<1>3. ASSUME NEW r \in Reqs, Arrive(r) \/ HandlerSteps(r)
      PROVE  /\ UNCHANGED acceptPc
             /\ \/ acceptPc = "accepting" /\ Active' = Active \union {r}
                \/ r \in Active /\ Active' = Active \ {r}
                \/ Active' = Active
  <2> USE DEF LifeInv, LifeTypeOK, Active
  <2>1. CASE Arrive(r)
    BY <2>1 DEF Arrive
  <2>2. CASE BeginMessage(r)
    BY <2>2 DEF BeginMessage
  <2>3. CASE ServeCard(r)
    BY <2>3 DEF ServeCard
  <2>4. CASE EndMessage(r)
    BY <2>4 DEF EndMessage
  <2> QED
    BY <1>3, <2>1, <2>2, <2>3, <2>4 DEF HandlerSteps
<1>4. ASSUME NEW p \in Probers, ProberSteps(p) PROVE UNCHANGED req
  BY <1>4 DEF ProberSteps, ProbeBegins, RoundEnds, ProbeSucceeds, ProbeFails,
              ProbeTick, ProbeLoopEnds
<1>5. CASE ServeSteps \/ BeginServe \/ ServeFails
  <2>1. UNCHANGED req
    BY <1>5
  <2> QED
    BY <2>1 DEF Active
<1>6. CASE EmbedderNext
  BY <1>6 DEF EmbedderNext, CallStart, CallShutdown, Cancel, Active
<1>7. UNCHANGED req => UNCHANGED Active
  BY DEF Active
<1> QED
  BY <1>1, <1>2, <1>3, <1>4, <1>5, <1>6, <1>7 DEF AgentNext

\* Only closing the log ends the service, with nothing left to serve.
LEMMA DrainedMoves ==
  ASSUME LifeInv, AgentNext \/ EmbedderNext
  PROVE  \/ Drained' = Drained
         \/ /\ ~Drained /\ Drained'
            /\ UNCHANGED <<Active, acceptPc>> /\ Active = {} /\ acceptPc # "accepting"
<1> USE DEF Drained
<1>1. ASSUME NEW s \in Starters, StartSteps(s), ~StartCancelled(s) PROVE UNCHANGED shutResult
  BY <1>1 DEF StartSteps, PublishURL, Announce, StartSeesServerEnd,
              StartCancelledEarly, StartSeesShutdownEnd
<1>2. ASSUME NEW c \in Shutters, EnterShutdown(c) PROVE Drained' = Drained
  BY <1>2 DEF LifeInv, LifeTypeOK, ShutInv
<1>3. ASSUME NEW c \in Shutters,
             ShutdownUnserved(c) \/ ShutdownHTTP(c) \/ ShutdownDrained(c) \/ ShutdownDeadline(c)
      PROVE  Drained' = Drained
  BY <1>3 DEF ShutdownUnserved, ShutdownHTTP, ShutdownDrained, ShutdownDeadline,
              LifeInv, LifeTypeOK, ShutInv
<1>4. ASSUME NEW c \in Shutters, CloseLog(c)
      PROVE  \/ Drained' = Drained
             \/ /\ ~Drained /\ Drained'
                /\ UNCHANGED <<Active, acceptPc>> /\ Active = {} /\ acceptPc # "accepting"
  <2>1. shutPc[c] = "closeLog" /\ UNCHANGED <<req, acceptPc>>
        /\ shutResult' = [shutResult EXCEPT ![c] = "drained"]
    BY <1>4 DEF CloseLog
  <2>2. Drained'
    BY <2>1 DEF LifeInv, LifeTypeOK
  <2>3. Active = {} /\ acceptPc # "accepting"
    BY <2>1 DEF LifeInv, DrainInv
  <2> QED
    BY <2>1, <2>2, <2>3 DEF Active
<1>5. ASSUME NEW r \in Reqs, Arrive(r) \/ HandlerSteps(r) PROVE UNCHANGED shutResult
  BY <1>5 DEF Arrive, HandlerSteps, ServeCard, BeginMessage, EndMessage
<1>6. ASSUME NEW p \in Probers, ProberSteps(p) PROVE UNCHANGED shutResult
  BY <1>6 DEF ProberSteps, ProbeBegins, RoundEnds, ProbeSucceeds, ProbeFails,
              ProbeTick, ProbeLoopEnds
<1>7. ServeSteps \/ BeginServe \/ ServeFails => UNCHANGED shutResult
  BY DEF ServeSteps, Listen, ListenFails, SignalReady, ServeCancelled, ServeDrained,
         ServeEnds, BeginServe, ServeFails
<1>8. (\E s \in Starters : CallStart(s)) \/ Cancel => UNCHANGED shutResult
  BY DEF CallStart, Cancel
<1>9. UNCHANGED shutResult => Drained' = Drained
  OBVIOUS
<1>10. \A s \in Starters : StartCancelled(s) => EnterShutdown(s)
  BY DEF StartCancelled
<1>11. \A c \in Callers : CallShutdown(c) => EnterShutdown(c)
  BY DEF CallShutdown
<1> QED
  BY <1>1, <1>2, <1>3, <1>4, <1>5, <1>6, <1>7, <1>8, <1>9, <1>10, <1>11
     DEF AgentNext, EmbedderNext, ShutdownSteps

LEMMA LifeStepImplements ==
  ASSUME LifeInv, AgentNext \/ EmbedderNext
  PROVE  [AgentService!Next]_(AgentService!svc)
<1> USE DEF acceptPhase, AgentService!svc
<1>0. Drained \in BOOLEAN /\ Drained' \in BOOLEAN
  BY DEF Drained
<1>1. acceptPc \in {"off", "starting", "accepting", "closed", "failed"}
  BY DEF LifeInv, LifeTypeOK
<1>2. CASE ~Drained /\ Drained'
  BY <1>1, <1>2, DrainedMoves DEF AgentService!End, AgentService!Next
<1>3. CASE Drained /\ Drained'
  <2>1. Active = {} /\ acceptPc # "accepting"
    BY <1>3 DEF Drained, LifeInv, DrainInv
  <2>2. UNCHANGED Active
    BY <2>1, ActiveMoves
  <2> QED
    BY <1>3, <2>2
<1>4. CASE ~Drained /\ ~Drained' /\ acceptPc' # acceptPc
  <2>0. Drained = FALSE /\ Drained' = FALSE
    BY <1>0, <1>4
  <2>1. UNCHANGED Active
    BY <1>4, ActiveMoves
  <2>2. \/ AgentService!Open \/ AgentService!Close \/ acceptPhase' = acceptPhase
    BY <1>1, <1>4, <2>0, <2>1, AcceptMoves DEF AgentService!Open, AgentService!Close
  <2> QED
    BY <2>0, <2>1, <2>2 DEF AgentService!Next
<1>5. CASE ~Drained /\ ~Drained' /\ acceptPc' = acceptPc
  <2>0. Drained = FALSE /\ Drained' = FALSE
    BY <1>0, <1>5
  <2>1. acceptPhase' = acceptPhase
    BY <1>5
  <2>2. CASE UNCHANGED Active
    BY <1>5, <2>0, <2>1, <2>2
  <2>3. ASSUME NEW r \in Reqs, acceptPc = "accepting", Active' = Active \union {r}
        PROVE  AgentService!Admit(r)
    BY <1>5, <2>0, <2>1, <2>3 DEF AgentService!Admit
  <2>4. ASSUME NEW r \in Reqs, r \in Active, Active' = Active \ {r}
        PROVE  AgentService!Complete(r)
    BY <1>5, <2>0, <2>1, <2>4 DEF AgentService!Complete
  <2> QED
    BY <1>5, <2>2, <2>3, <2>4, ActiveMoves DEF AgentService!Next
<1>6. ~(Drained /\ ~Drained')
  BY <1>0, DrainedMoves
<1> QED
  BY <1>0, <1>2, <1>3, <1>4, <1>5, <1>6

\* Whoever embeds it, the agent admits nothing once it stopped admitting, and
\* a Shutdown that drained it leaves nothing in progress (agent.go:265-298).
THEOREM AgentIsGracefulHolds == LifeSpec => AgentIsGraceful
<1>1. LifeInit => AgentService!Init
  BY DEF LifeInit, AgentService!Init, acceptPhase, Active, Drained
<1>2. LifeInv /\ [LifeNext]_lifeVars => [AgentService!Next]_(AgentService!svc)
  <2> SUFFICES ASSUME LifeInv, [LifeNext]_lifeVars
               PROVE  [AgentService!Next]_(AgentService!svc)
    OBVIOUS
  <2>1. CASE UNCHANGED lifeVars
    BY <2>1 DEF lifeVars, AgentService!svc, acceptPhase, Active, Drained
  <2> QED
    BY <2>1, LifeStepImplements DEF LifeNext
<1> QED
  BY <1>1, <1>2, LifeInvHolds, PTL DEF LifeSpec, AgentIsGraceful, AgentService!Spec
=============================================================================
