-------------------------- MODULE MCPServer_proofs --------------------------
(***************************************************************************)
(* Proofs about the MCP endpoint, for any number of clients and requests.  *)
(*                                                                         *)
(* The argument: a client's session is never idler than the client has     *)
(* been away, and the session of a request in progress never idler than    *)
(* the request has taken.  The sweep removes what is idle beyond the TTL,  *)
(* so neither a client nor a request loses its session within the TTL.     *)
(* Beyond it both may; a random id is not given out again even then.       *)
(***************************************************************************)
EXTENDS MCPServer, MCPSessions_proofs, TLAPS

\* A client that is back in time finds its session, as fresh as that.
HeaderInv ==
    \A c \in Clients : header[c] # NoId =>
        /\ header[c] \in used
        /\ away[c] <= TTL => header[c] \in live /\ age[header[c]] <= away[c]

\* So does a request, which has its session from the lookup on.
CallInv ==
    \A c \in InProgress :
        /\ sid[c] \in used
        /\ spent[c] <= TTL => sid[c] \in live /\ age[sid[c]] <= spent[c]

SrvInv == SessInv /\ SrvTypeOK /\ HeaderInv /\ CallInv

USE DEF NoAges, store, sweepSt, ticker, sessVars, Ages

\* What a request does before and after it deals with the session manager
\* leaves the sessions alone.
QuietSteps(c) ==
    \/ Arrive(c)
    \/ Forbid(c) \/ Reject(c) \/ MissSession(c)
    \/ Initialize(c) \/ Refuse(c) \/ ListTools(c) \/ RejectCall(c)
    \/ Status(c) \/ Discover(c) \/ Chat(c) \/ Ask(c) \/ EndTool(c) \/ HandlerPanics(c)

LEMMA InitSrvInv == SrvInit => SrvInv
<1> SUFFICES ASSUME SrvInit PROVE SrvInv
  OBVIOUS
<1>1. SessInv
  BY InitSessInv DEF SrvInit
<1>2. InProgress = {}
  BY DEF SrvInit, InProgress
<1>3. SrvTypeOK
  <2>1. /\ ready \in BOOLEAN /\ hasCLI \in BOOLEAN
        /\ pc \in [Clients -> {"idle", "arrived", "create", "dispatch", "tool", "reply"}]
        /\ header \in [Clients -> Ids \union {NoId}] /\ sid \in [Clients -> Ids \union {NoId}]
    BY DEF SrvInit
  <2>2. spent \in [Clients -> Ages] /\ sent \in [Clients -> 0 .. MaxRequests]
    BY ServerAssumption, SessionsAssumption DEF SrvInit
  <2>3. away \in [Clients -> Ages]
    BY SessionsAssumption DEF SrvInit
  <2> QED
    BY <1>1, <1>2, <2>1, <2>2, <2>3 DEF SrvTypeOK, SessInv
<1>4. HeaderInv /\ CallInv
  BY <1>2 DEF SrvInit, HeaderInv, CallInv
<1> QED
  BY <1>1, <1>3, <1>4 DEF SrvInv

LEMMA QuietSrvInv ==
  ASSUME SrvInv, NEW c \in Clients, QuietSteps(c)
  PROVE  SrvInv'
<1>1. UNCHANGED <<sessVars, header, away>>
  BY DEF QuietSteps, Arrive, Forbid, Reject, MissSession, Initialize, Refuse, ListTools,
         RejectCall, Status, Discover, BeginTool, Chat, Ask, EndTool, HandlerPanics, Respond, Done, clientSt
<1>2. SessInv'
  BY <1>1 DEF SrvInv, SessInv, SessTypeOK, SweepUnderestimates
<1>3. /\ ready' \in BOOLEAN /\ hasCLI' \in BOOLEAN
      /\ sent' \in [Clients -> 0 .. MaxRequests]
  <2>1. sent \in [Clients -> 0 .. MaxRequests]
        /\ ready \in BOOLEAN /\ hasCLI \in BOOLEAN
    BY DEF SrvInv, SrvTypeOK
  <2>2. CASE Arrive(c)
    BY <2>1, <2>2, ServerAssumption DEF Arrive, server
  <2>3. CASE Forbid(c) \/ Reject(c) \/ MissSession(c) \/ HandlerPanics(c) \/ Chat(c) \/ Ask(c)
    BY <2>1, <2>3 DEF Forbid, Reject, MissSession, HandlerPanics, BeginTool, Chat, Ask, Done, server, clientSt
  <2>4. CASE Initialize(c) \/ Refuse(c) \/ ListTools(c) \/ RejectCall(c)
              \/ Status(c) \/ Discover(c) \/ EndTool(c)
    BY <2>1, <2>4 DEF Initialize, Refuse, ListTools, RejectCall, Status, Discover, EndTool,
              Respond, clientSt
  <2> QED
    BY <2>1, <2>2, <2>3, <2>4 DEF QuietSteps, server
<1>4. /\ pc' \in [Clients -> {"idle", "arrived", "create", "dispatch", "tool", "reply"}]
      /\ sid' \in [Clients -> Ids \union {NoId}] /\ spent' \in [Clients -> Ages]
      /\ \A d \in InProgress' : d \in InProgress /\ sid'[d] = sid[d] /\ spent'[d] = spent[d]
  BY SessionsAssumption
     DEF QuietSteps, Arrive, Forbid, Reject, MissSession, Initialize, Refuse, ListTools,
         RejectCall, Status, Discover, BeginTool, Chat, Ask, EndTool, HandlerPanics, Respond, Done, Goto, InProgress,
         SrvInv, SrvTypeOK
<1>5. SrvTypeOK'
  BY <1>1, <1>2, <1>3, <1>4 DEF SrvInv, SrvTypeOK, SessInv
<1>6. HeaderInv' /\ CallInv'
  BY <1>1, <1>4 DEF SrvInv, HeaderInv, CallInv
<1> QED
  BY <1>2, <1>5, <1>6 DEF SrvInv

LEMMA ReplySrvInv ==
  ASSUME SrvInv, NEW c \in Clients, Reply(c)
  PROVE  SrvInv'
<1>1. /\ UNCHANGED <<sessVars, server, sent>>
      /\ c \in InProgress /\ sid[c] \in used /\ sid[c] \in Ids
      /\ spent[c] <= TTL => sid[c] \in live /\ age[sid[c]] <= spent[c]
      /\ header' = [header EXCEPT ![c] = sid[c]] /\ away' = [away EXCEPT ![c] = spent[c]]
  BY DEF Reply, Done, Goto, InProgress, SrvInv, CallInv, SessInv, SessTypeOK
<1>2. SessInv'
  BY <1>1 DEF SrvInv, SessInv, SessTypeOK, SweepUnderestimates
<1>3. /\ pc' \in [Clients -> {"idle", "arrived", "create", "dispatch", "tool", "reply"}]
      /\ sid' \in [Clients -> Ids \union {NoId}] /\ spent' \in [Clients -> Ages]
      /\ \A d \in InProgress' : d \in InProgress /\ sid'[d] = sid[d] /\ spent'[d] = spent[d]
  BY SessionsAssumption DEF Reply, Done, Goto, InProgress, SrvInv, SrvTypeOK
<1>4. header' \in [Clients -> Ids \union {NoId}] /\ away' \in [Clients -> Ages]
  <2>1. spent[c] \in Ages
    BY DEF SrvInv, SrvTypeOK
  <2> QED
    BY <1>1, <2>1 DEF SrvInv, SrvTypeOK
<1>5. SrvTypeOK'
  BY <1>1, <1>2, <1>3, <1>4 DEF SrvInv, SrvTypeOK, SessInv, server
<1>6. HeaderInv'
  BY <1>1 DEF SrvInv, SrvTypeOK, HeaderInv
<1>7. CallInv'
  BY <1>1, <1>3 DEF SrvInv, CallInv
<1> QED
  BY <1>2, <1>5, <1>6, <1>7 DEF SrvInv

\* A lookup or a creation makes a session fresh and gives it to the request.
LEMMA SessionSrvInv ==
  ASSUME SrvInv, NEW c \in Clients, NEW id \in Ids, NEW from,
         GetSession(id) \/ CreateSession(id),
         Goto(c, from, "dispatch"), UseSession(c, id)
  PROVE  SrvInv'
<1>1. SessInv'
  BY CallersSessInv DEF SrvInv, Callers
<1>2. /\ live \subseteq live' /\ id \in live' /\ age' = [age EXCEPT ![id] = 0]
      /\ used \subseteq used'
  BY DEF GetSession, CreateSession, Access
<1>3. id # NoId /\ NoId \notin Ids
  BY ServerAssumption
<1>4. /\ sid' = [sid EXCEPT ![c] = id] /\ spent' = [spent EXCEPT ![c] = 0]
      /\ away' = [away EXCEPT ![c] = IF id = header[c] THEN 0 ELSE @]
      /\ UNCHANGED <<server, header, sent>>
      /\ pc' = [pc EXCEPT ![c] = "dispatch"]
  BY DEF UseSession, Goto
<1>5. InProgress' = InProgress \union {c}
  BY <1>4 DEF InProgress, SrvInv, SrvTypeOK
<1>6. SrvTypeOK'
  BY <1>1, <1>3, <1>4, <1>5, ServerAssumption, SessionsAssumption
     DEF SrvInv, SrvTypeOK, SessInv, server
<1>7. \A s \in live : age'[s] <= age[s] /\ age[s] \in Ages /\ age'[id] = 0
  BY <1>2, SessionsAssumption DEF SrvInv, SessInv, SessTypeOK
<1>8. HeaderInv'
  <2> SUFFICES ASSUME NEW d \in Clients, header[d] # NoId
               PROVE  /\ header[d] \in used'
                      /\ away'[d] <= TTL =>
                            header[d] \in live' /\ age'[header[d]] <= away'[d]
    BY <1>4 DEF HeaderInv
  <2>1. header[d] \in used'
    BY <1>2 DEF SrvInv, HeaderInv
  <2>2. CASE header[d] = id
    BY <1>2, <1>4, <1>6, <1>7, <2>1, <2>2, SessionsAssumption DEF SrvInv, SrvTypeOK, SessInv, SessTypeOK
  <2>3. CASE header[d] # id
    BY <1>2, <1>4, <2>1, <2>3 DEF SrvInv, SrvTypeOK, SessInv, SessTypeOK, HeaderInv
  <2> QED
    BY <2>2, <2>3
<1>9. CallInv'
  <2> SUFFICES ASSUME NEW d \in InProgress \union {c}
               PROVE  /\ sid'[d] \in used'
                      /\ spent'[d] <= TTL => sid'[d] \in live' /\ age'[sid'[d]] <= spent'[d]
    BY <1>5 DEF CallInv
  <2>1. CASE d = c
    BY <1>1, <1>2, <1>4, <2>1, SessionsAssumption DEF SrvInv, SrvTypeOK, SessInv, SessTypeOK
  <2>2. CASE d # c
    <3>1. d \in InProgress /\ sid'[d] = sid[d] /\ spent'[d] = spent[d]
      BY <1>4, <2>2 DEF SrvInv, SrvTypeOK
    <3>2. /\ sid[d] \in used /\ sid[d] \in Ids /\ spent[d] \in Nat
          /\ spent[d] <= TTL => sid[d] \in live /\ age[sid[d]] <= spent[d]
      BY <3>1, SessionsAssumption
         DEF SrvInv, SrvTypeOK, CallInv, InProgress, SessInv, SessTypeOK
    <3>3. age'[sid[d]] \in {0, age[sid[d]]}
      BY <1>2, <3>2 DEF SrvInv, SessInv, SessTypeOK
    <3> QED
      BY <1>2, <3>1, <3>2, <3>3
  <2> QED
    BY <2>1, <2>2
<1> QED
  BY <1>1, <1>6, <1>8, <1>9 DEF SrvInv

LEMMA SweepSrvInv ==
  ASSUME SrvInv, SweepSteps
  PROVE  SrvInv'
<1>1. SessInv' /\ UNCHANGED <<server, handling, clientSt>>
  BY CleanupSessInv DEF SweepSteps, SrvInv
<1>2. SrvTypeOK'
  BY <1>1 DEF SrvInv, SrvTypeOK, SessInv, server, handling, clientSt, InProgress
<1>3. used' = used
  BY DEF SweepSteps, Cleanup, BeginSweep, CollectExpired, RemoveExpired, ObserveStop
<1>4. \A id \in live : age[id] <= TTL => id \in live' /\ age'[id] = age[id]
  <2>1. CASE RemoveExpired
    <3>1. /\ live' = live \ {id \in expired \intersect live : seen[id] > TTL}
          /\ age' = [id \in Ids |->
                        IF id \in {x \in expired \intersect live : seen[x] > TTL} THEN 0 ELSE age[id]]
      BY <2>1 DEF RemoveExpired, Drop
    <3>2. \A id \in live : /\ id \in Ids /\ seen[id] <= age[id]
                           /\ seen[id] \in Nat /\ age[id] \in Nat /\ TTL \in Nat
      BY SessionsAssumption DEF SrvInv, SessInv, SessTypeOK, SweepUnderestimates
    <3>3. \A id \in live : age[id] <= TTL => ~(seen[id] > TTL)
      BY <3>2
    <3> QED
      BY <3>1, <3>2, <3>3
  <2>2. CASE BeginSweep \/ CollectExpired \/ ObserveStop
    BY <2>2 DEF BeginSweep, CollectExpired, ObserveStop
  <2> QED
    BY <2>1, <2>2 DEF SweepSteps, Cleanup
<1>5. HeaderInv'
  <2> SUFFICES ASSUME NEW c \in Clients, header[c] # NoId
               PROVE  /\ header[c] \in used
                      /\ away[c] <= TTL => header[c] \in live' /\ age'[header[c]] <= away[c]
    BY <1>1, <1>3 DEF HeaderInv, clientSt
  <2>1. header[c] \in used
    BY DEF SrvInv, HeaderInv
  <2>2. ASSUME away[c] <= TTL PROVE header[c] \in live' /\ age'[header[c]] <= away[c]
    <3>1. header[c] \in live /\ age[header[c]] <= away[c]
      BY <2>2 DEF SrvInv, HeaderInv
    <3>2. age[header[c]] \in Nat /\ away[c] \in Nat /\ TTL \in Nat
      BY <3>1, SessionsAssumption DEF SrvInv, SrvTypeOK, SessInv, SessTypeOK
    <3> QED
      BY <1>4, <2>2, <3>1, <3>2
  <2> QED
    BY <2>1, <2>2
<1>6. CallInv'
  <2> SUFFICES ASSUME NEW c \in InProgress
               PROVE  /\ sid[c] \in used
                      /\ spent[c] <= TTL => sid[c] \in live' /\ age'[sid[c]] <= spent[c]
    BY <1>1, <1>3 DEF CallInv, InProgress, handling
  <2>1. sid[c] \in used /\ spent[c] \in Nat /\ TTL \in Nat
    BY SessionsAssumption DEF SrvInv, SrvTypeOK, CallInv, InProgress
  <2>2. ASSUME spent[c] <= TTL PROVE sid[c] \in live' /\ age'[sid[c]] <= spent[c]
    <3>1. sid[c] \in live /\ age[sid[c]] <= spent[c]
      BY <2>2 DEF SrvInv, CallInv
    <3>2. age[sid[c]] \in Nat
      BY <3>1, SessionsAssumption DEF SrvInv, SessInv, SessTypeOK
    <3> QED
      BY <1>4, <2>1, <2>2, <3>1, <3>2
  <2> QED
    BY <2>1, <2>2
<1> QED
  BY <1>1, <1>2, <1>5, <1>6 DEF SrvInv

LEMMA TimeSrvInv ==
  ASSUME SrvInv, TimePasses
  PROVE  SrvInv'
<1>1. SessInv' /\ UNCHANGED <<server, pc, sid, header, sent, live, used>>
  BY AdvanceTimeSessInv DEF TimePasses, AdvanceTime, SrvInv
<1>2. /\ spent' = [c \in Clients |->
                    IF c \in InProgress /\ spent[c] <= TTL THEN spent[c] + 1 ELSE spent[c]]
      /\ away' = [c \in Clients |-> IF away[c] <= TTL THEN away[c] + 1 ELSE away[c]]
      /\ InProgress' = InProgress /\ InProgress \subseteq Clients
  BY <1>1 DEF TimePasses, InProgress
<1>3. \A c \in Clients : spent'[c] \in Ages /\ away'[c] \in Ages
  BY <1>2, SessionsAssumption DEF SrvInv, SrvTypeOK
<1>4. SrvTypeOK'
  BY <1>1, <1>2, <1>3 DEF SrvInv, SrvTypeOK, SessInv, server
<1>5. \A id \in live : age[id] \in Nat /\ age'[id] <= age[id] + 1 /\ age'[id] \in Nat
  BY SessionsAssumption DEF TimePasses, AdvanceTime, SrvInv, SessInv, SessTypeOK
<1>6. HeaderInv'
  <2> SUFFICES ASSUME NEW c \in Clients, header[c] # NoId
               PROVE  /\ header[c] \in used
                      /\ away'[c] <= TTL => header[c] \in live /\ age'[header[c]] <= away'[c]
    BY <1>1 DEF HeaderInv
  <2>1. header[c] \in used
    BY DEF SrvInv, HeaderInv
  <2>2. ASSUME away'[c] <= TTL PROVE header[c] \in live /\ age'[header[c]] <= away'[c]
    <3>1. away[c] \in Nat /\ TTL \in Nat
      BY SessionsAssumption DEF SrvInv, SrvTypeOK
    <3>2. away[c] <= TTL /\ away'[c] = away[c] + 1
      BY <1>2, <2>2, <3>1
    <3>3. header[c] \in live /\ age[header[c]] <= away[c]
      BY <3>2 DEF SrvInv, HeaderInv
    <3> QED
      BY <1>5, <3>1, <3>2, <3>3
  <2> QED
    BY <2>1, <2>2
<1>7. CallInv'
  <2> SUFFICES ASSUME NEW c \in InProgress
               PROVE  /\ sid[c] \in used
                      /\ spent'[c] <= TTL => sid[c] \in live /\ age'[sid[c]] <= spent'[c]
    BY <1>1, <1>2 DEF CallInv
  <2>1. sid[c] \in used
    BY DEF SrvInv, CallInv
  <2>2. ASSUME spent'[c] <= TTL PROVE sid[c] \in live /\ age'[sid[c]] <= spent'[c]
    <3>1. spent[c] \in Nat /\ TTL \in Nat
      BY <1>2, SessionsAssumption DEF SrvInv, SrvTypeOK
    <3>2. spent[c] <= TTL /\ spent'[c] = spent[c] + 1
      BY <1>2, <2>2, <3>1
    <3>3. sid[c] \in live /\ age[sid[c]] <= spent[c]
      BY <3>2 DEF SrvInv, CallInv
    <3> QED
      BY <1>5, <3>1, <3>2, <3>3
  <2> QED
    BY <2>1, <2>2
<1> QED
  BY <1>1, <1>4, <1>6, <1>7 DEF SrvInv

LEMMA RestartSrvInv ==
  ASSUME SrvInv, Restart
  PROVE  SrvInv'
<1>1. SessInv'
  <2>1. age' \in [Ids -> Ages] /\ seen' \in [Ids -> Ages] /\ untilTick' \in 1 .. Interval
    BY SessionsAssumption DEF Restart
  <2>2. data' \in [Ids -> Values \union {Empty}]
    BY DEF Restart
  <2>3. /\ live' = {} /\ used' = used /\ expired' = {} /\ sweeper' = "select"
        /\ tick' = FALSE /\ stopped' = stopped
    BY DEF Restart
  <2> QED
    BY <2>1, <2>2, <2>3 DEF SrvInv, SessInv, SessTypeOK, SweepUnderestimates
<1>2. InProgress' = {} /\ header' = header /\ used' = used
      /\ away' = [c \in Clients |-> TTL + 1]
  BY DEF Restart, InProgress
<1>3. SrvTypeOK'
  <2>1. /\ ready' \in BOOLEAN /\ hasCLI' \in BOOLEAN
        /\ pc' \in [Clients -> {"idle", "arrived", "create", "dispatch", "tool", "reply"}]
        /\ sid' \in [Clients -> Ids \union {NoId}]
    BY DEF Restart
  <2>2. spent' \in [Clients -> Ages] /\ away' \in [Clients -> Ages]
    BY SessionsAssumption DEF Restart
  <2>3. UNCHANGED <<header, sent>>
    BY DEF Restart
  <2> QED
    BY <1>1, <1>2, <2>1, <2>2, <2>3 DEF SrvInv, SrvTypeOK, SessInv
<1>4. HeaderInv'
  <2>1. ~(TTL + 1 <= TTL)
    BY SessionsAssumption
  <2> QED
    BY <1>2, <2>1 DEF SrvInv, HeaderInv
<1> QED
  BY <1>1, <1>2, <1>3, <1>4 DEF SrvInv, CallInv

LEMMA StepSrvInv ==
  ASSUME SrvInv, SrvNext
  PROVE  SrvInv'
<1>1. ASSUME NEW c \in Clients, HandlerSteps(c) \/ Arrive(c)
      PROVE  SrvInv'
  <2>1. CASE QuietSteps(c)
    BY <2>1, QuietSrvInv
  <2>2. CASE Reply(c)
    BY <2>2, ReplySrvInv
  <2>3. CASE FindSession(c)
    <3>1. header[c] \in Ids
      BY <2>3 DEF FindSession, GetSession, SrvInv, SessInv, SessTypeOK
    <3> QED
      BY <2>3, <3>1, SessionSrvInv DEF FindSession
  <2>4. ASSUME NEW id \in Ids, NewSession(c, id) PROVE SrvInv'
    BY <2>4, SessionSrvInv DEF NewSession
  <2> QED
    BY <1>1, <2>1, <2>2, <2>3, <2>4 DEF HandlerSteps, QuietSteps
<1> QED
  BY <1>1, SweepSrvInv, TimeSrvInv, RestartSrvInv DEF SrvNext

THEOREM SrvInvHolds == SrvSpec => []SrvInv
<1>1. SrvInit => SrvInv
  BY InitSrvInv
<1>2. SrvInv /\ [SrvNext]_srvVars => SrvInv'
  <2> SUFFICES ASSUME SrvInv, [SrvNext]_srvVars
               PROVE  SrvInv'
    OBVIOUS
  <2>1. CASE UNCHANGED srvVars
    BY <2>1 DEF SrvInv, SessInv, SessTypeOK, SweepUnderestimates, SrvTypeOK, HeaderInv, CallInv,
                InProgress, srvVars, server, handling, clientSt
  <2> QED
    BY <2>1, StepSrvInv
<1> QED
  BY <1>1, <1>2, PTL DEF SrvSpec

\* Type correctness of the MCP endpoint (http_transport.go:63-116).
THEOREM SrvTypeCorrect == SrvSpec => []SrvTypeOK
<1>1. SrvInv => SrvTypeOK
  BY DEF SrvInv
<1> QED
  BY <1>1, SrvInvHolds, PTL

\* No client that comes back within the TTL has lost its session, however
\* many others there are and however the sweep falls (session.go:68-95).
THEOREM NoEarlyLogoutHolds == SrvSpec => []NoEarlyLogout
<1>1. SrvInv => NoEarlyLogout
  BY DEF SrvInv, HeaderInv, NoEarlyLogout
<1> QED
  BY <1>1, SrvInvHolds, PTL

\* For every TTL and however long requests take: the id a reply carries,
\* resolved before the tool ran, is still good after it unless the request took
\* longer than the TTL (http_transport.go:91-109, session.go:68-95).
THEOREM ReplyCarriesLiveSessionHolds == SrvSpec => []ReplyCarriesLiveSession
<1>1. SrvInv => ReplyCarriesLiveSession
  <2> SUFFICES ASSUME SrvInv, NEW c \in InProgress
               PROVE  sid[c] \in live \/ spent[c] > TTL
    BY DEF ReplyCarriesLiveSession
  <2>1. spent[c] \in Nat /\ TTL \in Nat
    BY SessionsAssumption DEF SrvInv, SrvTypeOK, InProgress
  <2> QED
    BY <2>1 DEF SrvInv, CallInv
<1> QED
  BY <1>1, SrvInvHolds, PTL
-----------------------------------------------------------------------------
(* Who has which id: random ids have one owner, also beside fallback ids.  *)

OwnerInv ==
    /\ SessionsNotShared
    /\ \A c, d \in InProgress : c # d /\ sid[c] \in RandomIds => sid[c] # sid[d]

LEMMA StepOwnerInv ==
  ASSUME SrvInv, OwnerInv, SrvNext
  PROVE  OwnerInv'
<1>1. ASSUME NEW c \in Clients, QuietSteps(c)
      PROVE  OwnerInv'
  <2>1. /\ header' = header
        /\ \A d \in InProgress' : d \in InProgress /\ sid'[d] = sid[d]
    BY <1>1 DEF QuietSteps, Arrive, Forbid, Reject, MissSession, Initialize, Refuse, ListTools,
           RejectCall, Status, Discover, BeginTool, Chat, Ask, EndTool, HandlerPanics, Respond, Done, Goto,
           InProgress, clientSt, SrvInv, SrvTypeOK
  <2> QED
    BY <2>1 DEF OwnerInv, SessionsNotShared
<1>2. ASSUME NEW c \in Clients, Reply(c)
      PROVE  OwnerInv'
  <2>1. /\ header' = [header EXCEPT ![c] = sid[c]] /\ c \in InProgress
        /\ \A d \in InProgress' : d \in InProgress /\ d # c /\ sid'[d] = sid[d]
    BY <1>2 DEF Reply, Done, Goto, InProgress, SrvInv, SrvTypeOK
  <2>2. InProgress \subseteq Clients /\ header \in [Clients -> Ids \union {NoId}]
    BY DEF InProgress, SrvInv, SrvTypeOK
  <2> QED
    BY <2>1, <2>2 DEF OwnerInv, SessionsNotShared
<1>3. ASSUME NEW c \in Clients, NEW id \in Ids, NEW from,
             Goto(c, from, "dispatch"), UseSession(c, id),
             id \in RandomIds =>
                \A d \in Clients \ {c} : id # header[d] /\ (d \in InProgress => id # sid[d])
      PROVE  OwnerInv'
  <2>1. /\ header' = header /\ sid' = [sid EXCEPT ![c] = id]
        /\ InProgress' \subseteq InProgress \union {c}
    BY <1>3 DEF UseSession, Goto, InProgress, SrvInv, SrvTypeOK
  <2>2. InProgress \subseteq Clients /\ sid \in [Clients -> Ids \union {NoId}]
    BY DEF InProgress, SrvInv, SrvTypeOK
  <2>3. SessionsNotShared'
    BY <1>3, <2>1, <2>2 DEF OwnerInv, SessionsNotShared
  <2>4. ASSUME NEW d \in InProgress', NEW e \in InProgress', d # e
        PROVE  sid'[d] \in RandomIds => sid'[d] # sid'[e]
    BY <1>3, <2>1, <2>2, <2>4 DEF OwnerInv
  <2> QED
    BY <2>3, <2>4 DEF OwnerInv
<1>4. ASSUME NEW c \in Clients, FindSession(c)
      PROVE  OwnerInv'
  <2>1. header[c] \in Ids /\ header[c] # NoId
    BY <1>4, ServerAssumption DEF FindSession, GetSession, SrvInv, SessInv, SessTypeOK
  <2>2. header[c] \in RandomIds =>
        \A d \in Clients \ {c} : header[c] # header[d] /\ (d \in InProgress => header[c] # sid[d])
    BY <2>1 DEF OwnerInv, SessionsNotShared
  <2> QED
    BY <1>3, <1>4, <2>1, <2>2 DEF FindSession
<1>5. ASSUME NEW c \in Clients, NEW id \in Ids, NewSession(c, id)
      PROVE  OwnerInv'
  <2>1. id # NoId /\ (id \in RandomIds => id \notin used)
    BY <1>5, ServerAssumption DEF NewSession, CreateSession, FreshIds, RandomIds
  <2>2. id \in RandomIds =>
        \A d \in Clients \ {c} : id # header[d] /\ (d \in InProgress => id # sid[d])
    BY <2>1 DEF SrvInv, HeaderInv, CallInv, SessInv, SessTypeOK
  <2> QED
    BY <1>3, <1>5, <2>2 DEF NewSession
<1>6. CASE SweepSteps \/ TimePasses
  <2>1. UNCHANGED <<pc, header, sid>>
    BY <1>6 DEF SweepSteps, TimePasses, handling, clientSt
  <2> QED
    BY <2>1 DEF OwnerInv, SessionsNotShared, InProgress
<1>7. CASE Restart
  <2>1. InProgress' = {} /\ header' = header
    BY <1>7 DEF Restart, InProgress
  <2> QED
    BY <2>1 DEF OwnerInv, SessionsNotShared
<1> QED
  BY <1>1, <1>2, <1>4, <1>5, <1>6, <1>7 DEF SrvNext, HandlerSteps, QuietSteps

\* No two clients come to share the session of a random id, also not after a
\* restart that forgot the sessions but not the clients (http_transport.go:94),
\* nor because others were given a repeated fallback id (session.go:180).
THEOREM SessionsNotSharedHolds == SrvSpec => []SessionsNotShared
<1>1. SrvInit => OwnerInv
  BY ServerAssumption DEF RandomIds, SrvInit, OwnerInv, SessionsNotShared, InProgress
<1>2. SrvInv /\ OwnerInv /\ [SrvNext]_srvVars => OwnerInv'
  <2> SUFFICES ASSUME SrvInv, OwnerInv, [SrvNext]_srvVars
               PROVE  OwnerInv'
    OBVIOUS
  <2>1. CASE UNCHANGED srvVars
    BY <2>1 DEF OwnerInv, SessionsNotShared, InProgress, srvVars, handling, clientSt
  <2> QED
    BY <2>1, StepOwnerInv
<1>3. OwnerInv => SessionsNotShared
  BY DEF OwnerInv
<1> QED
  BY <1>1, <1>2, <1>3, SrvInvHolds, PTL DEF SrvSpec
-----------------------------------------------------------------------------
(* The endpoint keeps the promise of the session store.                    *)

USE DEF Abstract!store

LEMMA HandlerUsesStore ==
  ASSUME SrvInv, NEW c \in Clients, HandlerSteps(c)
  PROVE  [Abstract!Next]_(Abstract!store)
<1>1. CASE QuietSteps(c)
  BY <1>1 DEF QuietSteps, Arrive, Forbid, Reject, MissSession, Initialize, Refuse, ListTools,
         RejectCall, Status, Discover, BeginTool, Chat, Ask, EndTool, HandlerPanics, Respond
<1>2. CASE Reply(c)
  BY <1>2 DEF Reply
<1>3. CASE FindSession(c)
  <2>1. header[c] \in Ids
    BY <1>3 DEF FindSession, GetSession, SrvInv, SessInv, SessTypeOK
  <2>2. Callers
    BY <1>3, <2>1 DEF FindSession, Callers
  <2> QED
    BY <2>2, CallersImplement DEF SrvInv
<1>4. ASSUME NEW id \in Ids, NewSession(c, id)
      PROVE  [Abstract!Next]_(Abstract!store)
  <2>1. Callers
    BY <1>4 DEF NewSession, Callers
  <2> QED
    BY <2>1, CallersImplement DEF SrvInv
<1> QED
  BY <1>1, <1>2, <1>3, <1>4 DEF HandlerSteps, QuietSteps

\* As long as the process runs, the requests of any number of clients, the
\* sweep and time move the sessions as the store promises: none is dropped
\* that is in use, none appears that no request created.  A restart, and only
\* that, empties the store (http_transport.go:85-100, session.go:57-160).
THEOREM ServerKeepsStorePromise ==
  SrvSpec => [][Abstract!Next \/ (Restart /\ Abstract!Init')]_(Abstract!store)
<1>1. ASSUME SrvInv, [SrvNext]_srvVars
      PROVE  [Abstract!Next \/ (Restart /\ Abstract!Init')]_(Abstract!store)
  <2>1. CASE UNCHANGED srvVars
    BY <2>1 DEF srvVars
  <2>2. ASSUME NEW c \in Clients, HandlerSteps(c)
        PROVE  [Abstract!Next]_(Abstract!store)
    BY <1>1, <2>2, HandlerUsesStore
  <2>3. ASSUME NEW c \in Clients, Arrive(c)
        PROVE  UNCHANGED Abstract!store
    BY <2>3 DEF Arrive
  <2>4. CASE SweepSteps
    BY <1>1, <2>4, CleanupImplements DEF SrvInv, SweepSteps
  <2>5. CASE TimePasses
    BY <2>5 DEF TimePasses, AdvanceTime, Abstract!Elapse, Abstract!Next
  <2>6. CASE Restart
    BY <2>6 DEF Restart, Abstract!Init
  <2> QED
    BY <1>1, <2>1, <2>2, <2>3, <2>4, <2>5, <2>6 DEF SrvNext
<1> QED
  BY <1>1, SrvInvHolds, PTL DEF SrvSpec
=============================================================================
