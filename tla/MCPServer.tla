----------------------------- MODULE MCPServer -----------------------------
(***************************************************************************)
(* The MCP endpoint: HTTPHandler.ServeHTTP of internal/mcp/                *)
(* http_transport.go with the tool handlers of handlers.go, on top of the  *)
(* session manager of MCPSessions.                                         *)
(*                                                                         *)
(* A client sends one request at a time and returns the Mcp-Session-Id of  *)
(* the last reply, as MCP clients do.  Requests of different clients, the  *)
(* sweep and time interleave; a tool call may take longer than the TTL,    *)
(* for nothing relates the two (agent/validate.go:70).  The process may    *)
(* be restarted, which loses every session and every request in progress,  *)
(* while clients keep the ids they were given.                             *)
(***************************************************************************)
EXTENDS MCPSessions

CONSTANTS
    Clients,
    NoId,          \* no session id
    MaxRequests    \* bound on the requests of one client

ASSUME ServerAssumption ==
    /\ NoId \notin Ids
    /\ MaxRequests \in Nat

VARIABLES
    ready,      \* h.state = StateReady
    hasCLI,     \* the CLI was installed when New ran, so llmExec # nil
    pc,         \* where the handler of a client's request is
    header,     \* the session id a client sends
    sid,        \* the session id the handler resolved it to
    spent,      \* how long the request has had its session; TTL + 1 is any time longer
    away,       \* how long ago the server saw the client use the session of its header
    sent        \* requests sent

server   == <<ready, hasCLI>>
handling == <<pc, sid, spent>>   \* locals of a request's handler
clientSt == <<header, away, sent>>
srvVars  == <<sessVars, server, handling, clientSt>>

SrvInit ==
    /\ SessInit
    /\ ready = FALSE /\ hasCLI \in BOOLEAN
    /\ pc = [c \in Clients |-> "idle"]
    /\ header = [c \in Clients |-> NoId] /\ sid = [c \in Clients |-> NoId]
    /\ spent = [c \in Clients |-> 0] /\ away = [c \in Clients |-> 0]
    /\ sent = [c \in Clients |-> 0]

-----------------------------------------------------------------------------
(* ServeHTTP.                                                              *)

Goto(c, from, to) == pc[c] = from /\ pc' = [pc EXCEPT ![c] = to]

Done(c, from) ==
    /\ Goto(c, from, "idle")
    /\ sid' = [sid EXCEPT ![c] = NoId]
    /\ spent' = [spent EXCEPT ![c] = 0]

\* What a request asks for is chosen where the code looks at it.
Arrive(c) ==
    /\ Goto(c, "idle", "arrived") /\ sent[c] < MaxRequests
    /\ sent' = [sent EXCEPT ![c] = @ + 1]
    /\ UNCHANGED <<sessVars, server, sid, spent, header, away>>

\* LocalhostMiddleware: not from a loopback address.
Forbid(c) ==
    /\ Done(c, "arrived")
    /\ UNCHANGED <<sessVars, server, clientSt>>

\* Wrong method, empty or unparsable body: answered before any session.
Reject(c) ==
    /\ Done(c, "arrived")
    /\ UNCHANGED <<sessVars, server, clientSt>>

UseSession(c, id) ==
    /\ sid'   = [sid EXCEPT ![c] = id]
    /\ spent' = [spent EXCEPT ![c] = 0]
    /\ away'  = [away EXCEPT ![c] = IF id = header[c] THEN 0 ELSE @]
    /\ UNCHANGED <<server, header, sent>>

\* A bug: the id of an existing session is not kept for the reply.
FindSessionUnset(c) ==
    /\ Goto(c, "arrived", "dispatch")
    /\ GetSession(header[c])
    /\ UseSession(c, NoId)

FindSession(c) ==
    /\ Goto(c, "arrived", "dispatch")
    /\ GetSession(header[c])
    /\ UseSession(c, header[c])

\* No id, or the session is gone: between the lookup and the creation the
\* manager is unlocked.
MissSession(c) ==
    /\ Goto(c, "arrived", "create")
    /\ header[c] \notin live
    /\ UNCHANGED <<sessVars, server, sid, spent, clientSt>>

NewSession(c, id) ==
    /\ Goto(c, "create", "dispatch")
    /\ CreateSession(id)
    /\ UseSession(c, id)

Respond(c, from) ==
    /\ Goto(c, from, "reply")
    /\ UNCHANGED <<sessVars, hasCLI, sid, spent, clientSt>>

\* The state is the server's, not the session's.
Initialize(c) ==
    /\ Respond(c, "dispatch")
    /\ ready' = TRUE

\* -32600, "Server not initialized", to whatever is no initialize.
Refuse(c) ==
    /\ ~ready
    /\ Respond(c, "dispatch")
    /\ UNCHANGED ready

ListTools(c) ==
    /\ ready
    /\ Respond(c, "dispatch")
    /\ UNCHANGED ready

\* An unknown method or tool, or params that are none.
RejectCall(c) ==
    /\ ready
    /\ Respond(c, "dispatch")
    /\ UNCHANGED ready

-----------------------------------------------------------------------------
(* Tool handlers.                                                          *)

Status(c) ==
    /\ ready /\ hasCLI
    /\ Respond(c, "dispatch")
    /\ UNCHANGED ready

\* The card cache is read under its lock; nothing else is waited for.
Discover(c) ==
    /\ ready
    /\ Respond(c, "dispatch")
    /\ UNCHANGED ready

BeginTool(c) ==
    /\ ready
    /\ Goto(c, "dispatch", "tool")
    /\ UNCHANGED <<sessVars, server, sid, spent, clientSt>>

\* The claude CLI runs.
Chat(c) == BeginTool(c) /\ hasCLI

\* A peer is waited for.
Ask(c) == BeginTool(c)

\* A result or, with isError set, an error.
EndTool(c) == Respond(c, "tool") /\ UNCHANGED ready

\* In status and chat: executor.IsInstalled() on the nil interface that New
\* passed on. net/http recovers the panic and closes without a reply.
HandlerPanics(c) ==
    /\ ready /\ ~hasCLI
    /\ Done(c, "dispatch")
    /\ UNCHANGED <<sessVars, server, clientSt>>

\* The reply carries the session id, which the client sends from now on.
Reply(c) ==
    /\ Done(c, "reply")
    /\ header'  = [header EXCEPT ![c] = sid[c]]
    /\ away'    = [away EXCEPT ![c] = spent[c]]
    /\ UNCHANGED <<sessVars, server, sent>>

-----------------------------------------------------------------------------
(* Time, and restarts of the process.                                      *)

InProgress == {c \in Clients : pc[c] \in {"dispatch", "tool", "reply"}}

SweepSteps == Cleanup /\ UNCHANGED <<server, handling, clientSt>>

TimePasses ==
    /\ AdvanceTime
    /\ spent' = [c \in Clients |->
                    IF c \in InProgress /\ spent[c] <= TTL THEN spent[c] + 1 ELSE spent[c]]
    /\ away' = [c \in Clients |-> IF away[c] <= TTL THEN away[c] + 1 ELSE away[c]]
    /\ UNCHANGED <<server, pc, sid, header, sent>>

\* NewMCPSessionManager and NewHTTPHandler again; random ids do not repeat.
Restart ==
    /\ live' = {} /\ expired' = {}
    /\ age' = NoAges /\ seen' = NoAges
    /\ data' = [id \in Ids |-> Empty]
    /\ sweeper' = "select" /\ untilTick' = Interval /\ tick' = FALSE
    /\ ready' = FALSE /\ hasCLI' \in BOOLEAN
    /\ pc' = [c \in Clients |-> "idle"]
    /\ sid' = [c \in Clients |-> NoId] /\ spent' = [c \in Clients |-> 0]
    /\ away' = [c \in Clients |-> TTL + 1]
    /\ UNCHANGED <<used, stopped, header, sent>>

HandlerSteps(c) ==
    \/ Forbid(c) \/ Reject(c)
    \/ FindSession(c) \/ MissSession(c) \/ \E id \in Ids : NewSession(c, id)
    \/ Initialize(c) \/ Refuse(c) \/ ListTools(c) \/ RejectCall(c)
    \/ Status(c) \/ Discover(c) \/ Chat(c) \/ Ask(c) \/ EndTool(c) \/ HandlerPanics(c) \/ Reply(c)

SrvNext ==
    \/ \E c \in Clients : Arrive(c) \/ HandlerSteps(c)
    \/ SweepSteps \/ TimePasses \/ Restart

SrvSpec == SrvInit /\ [][SrvNext]_srvVars

-----------------------------------------------------------------------------
(* Properties.                                                             *)

\* Ranges; and a handler past the session lookup has a session id.
SrvTypeOK ==
    /\ SessTypeOK
    /\ ready \in BOOLEAN /\ hasCLI \in BOOLEAN
    /\ pc \in [Clients -> {"idle", "arrived", "create", "dispatch", "tool", "reply"}]
    /\ header \in [Clients -> Ids \union {NoId}] /\ sid \in [Clients -> Ids \union {NoId}]
    /\ spent \in [Clients -> Ages] /\ away \in [Clients -> Ages]
    /\ sent \in [Clients -> 0 .. MaxRequests]
    /\ \A c \in InProgress : sid[c] # NoId

\* mcp-setup.md:322: a client that comes back within the TTL finds its
\* session, whatever the sweep and other clients did meanwhile.
NoEarlyLogout ==
    \A c \in Clients : (header[c] # NoId /\ away[c] <= TTL) => header[c] \in live

\* The id in a reply, resolved before the tool ran, is good after it, whatever
\* the sweep did meanwhile, unless the request itself took longer than the TTL:
\* a handler does not refresh the session it works for (http_transport.go:91).
ReplyCarriesLiveSession == \A c \in InProgress : sid[c] \in live \/ spent[c] > TTL

RandomIds == Ids \ FallbackIds

\* Two clients never come to share a session, also when one returns with an
\* id that the server has forgotten, unless both were given the id that the
\* timestamp fallback repeats within a minute: session.go:180.
SessionsNotShared ==
    \A c, d \in Clients : c # d =>
        /\ header[c] \in RandomIds => header[c] # header[d]
        /\ c \in InProgress /\ sid[c] \in RandomIds => sid[c] # header[d]

\* agent.go:127 says handlers check whether the CLI is installed: no handler
\* breaks off without an answer.
HandlersCheckInstalled == [][\A c \in Clients : ~HandlerPanics(c)]_srvVars

=============================================================================
