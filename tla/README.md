# A TLA+ development of wingmate

wingmate is a Go program in which every process is one *agent*: an HTTP server
that answers A2A JSON-RPC messages (with the `claude` CLI behind it), offers MCP
tools to a local client, probes its peers, and writes everything to a flight log.
This directory holds TLA+ models of its core, the TLC configurations that check
them on small instances, and proofs checked by TLAPS of what holds for all
instances. `PROJECT.json` is the index: which definition models which lines,
which run checks what, which hazards of the code each property is for.

## The system

| Part | State it keeps | Operations | Talks to |
|---|---|---|---|
| process (`cmd/wingmate/main.go`) | exit code, signal and error channels | `runServer`, `loadConfig`, ping and status commands | agent |
| configuration (`internal/agent/config.go`, `validate.go`) | none; a value passed on | `LoadConfig`, `WithEnv`, `WithDefaults`, `Merge`, `Validate` | environment, file, flags |
| agent (`internal/agent/agent.go`) | `started`, `shutdown`, `ready`, the card, `knownPeers` | `New`, `Start`, `WaitUntilReady`, `Shutdown`, `HandleMessage`, `GetPeers`, `GetPeerInfo` | A2A server, flight log, CLI, peers |
| A2A server (`internal/protocol/server.go`) | `server`, `listener`, `ready`, handler, card | `ListenAndServe`, `Shutdown`, `ServeHTTP` | net/http, agent as handler |
| A2A client (`internal/protocol/client.go`, `internal/agent/client.go`) | request counter, cached cards | `SendMessage`, `GetAgentCard`, `Ping`, `DelegateMessage` | peers |
| CLI executor (`internal/llm/cli.go`) | none | `Execute`, `IsInstalled` | the claude process |
| LLM session map (`internal/llm/session.go`) | conversation id to CLI session id | `Get`, `Set`, `Clear`, `ClearAll` | message handler |
| MCP handler and tools (`internal/mcp/http_transport.go`, `handlers.go`) | initialized or not, tools | `ServeHTTP`, four tools | session manager, CLI, agent |
| MCP session manager (`internal/mcp/session.go`) | sessions with last access, a cleanup goroutine | create, get, set, delete, count, `Stop` | MCP handler |
| flight log (`internal/flightlog`) | an open file | `Record`, `Close` | everyone |

How they interact: `runServer` builds the agent, runs `Start` in a goroutine and
waits for it to be ready, then for a signal or the end of `Start`. `Start` runs
the A2A server in another goroutine and two that probe peers. net/http gives
every request a goroutine of its own; these reach the handler, the session
manager, the peers' cards and the flight log at the same time. The shared state
is guarded by mutexes held for single operations, so whatever takes two of them
is open to interleaving.

What is hard: shutdown against requests and probes in flight; the order in which
an agent becomes ready; a sweep that unlocks between looking and deleting; reads
of a session before a long call and writes after it; timeouts that race the
answer; agents that wait for each other, each through a claude process, with only
timers and contexts to end it; caches that outlive what they describe;
configuration values for which "zero" and "missing" are the same. `PROJECT.json` lists each at its line under
`hazards`.

## Modules

| Module | Models | Abstracts |
|---|---|---|
| `TTLStore` | what the session manager promises: entries that expire by idleness, atomically | sweep, ticker, locks |
| `MCPSessions` | `session.go` and its cleanup goroutine | random ids to fresh members of a set |
| `MCPServer` (extends `MCPSessions`) | the MCP handler, the tools, clients and restarts | requests to what is done for them |
| `AgentLifecycle` | `Start`, `Shutdown`, `ListenAndServe`, requests and probes in flight, the log | message contents, probe results |
| `GracefulService` | what a process promises who sends it requests and stops it | everything else |
| `MessageTurn` | what the handler promises of each message: concluded once, recorded, no process left behind | sessions, connections, timers |
| `WingmateMain` (extends `AgentLifecycle`) | `runServer` on top of one agent | log output |
| `PeerDiscovery` | probing rounds, the card cache, name resolution | messages, what happens to a delegation once it is sent |
| `A2AProtocol` | a call from one agent to another, both ends: client, JSON-RPC server, handler and CLI, `ping` and `status`, chains of calls, timers, crashes, both logs | texts, ids, probing, the session map |
| `LLMConversation` | `HandleMessage`, `handleLLMMessage`, `Execute`, the session map, the claude process | texts, tokens |
| `ConfigResolution` | the way from file, environment and flags to a running agent | strings to their origin, URLs to valid or not |

A module `MCx` instantiates module `x` for TLC; `x_proofs` holds its theorems.
`A2AProtocol` and `LLMConversation` meet in the handler of a message: the first has
what surrounds a turn and takes the turn itself as launch, work and end, the
second has the turn's inside and the conversations.

Three abstract specifications say what the components promise, and each is shown
to be implemented, under a refinement mapping given in the implementing module:

| Promise | Implemented by | Mapping |
|---|---|---|
| `TTLStore` | `MCPSessions` (`ImplementsTTLStore`) | the map as it is; ticker, locks and the slice of a sweep are dropped |
| `GracefulService` | `AgentLifecycle` (`AgentIsGraceful`) | phase is the accept loop's, or "ended" once a `Shutdown` has drained |
| `GracefulService` | `WingmateMain` (`ImplementsService`) | the same seen from outside: the process has exited, with code 0 or not |
| `MessageTurn` | `LLMConversation` (`HandledAsPromised`) | `Place`, `Work`, `AnswerTo` and `LogOf` of a turn, `MayCrash` is FALSE |
| `MessageTurn` | `A2AProtocol` (`ServedAsPromised`) | the same of a call whose peer is an agent, with that agent's log; `MayCrash` if crashes are allowed |

### State and actions against the code

*MCPSessions.* `live`, `data` and `age` are the map of `MCPSessionManager`, with
`age` the time since `lastAccess` (not told apart beyond TTL + 1). `GetSession`,
`SetSession`, `CreateSession` and `DeleteSession` are one action each, as each
holds the lock throughout. `cleanupExpired` is two, `CollectExpired` under the
read lock and `RemoveExpired` under the write lock, for that is where a caller
can get in between; `expired` is the slice the first leaves the second. `seen`
is the age each session had when it was collected. The ticker is a countdown and a one-slot channel; the `select` in
`cleanupLoop` is `BeginSweep` or `ObserveStop`.

*MCPServer.* The handler's goroutine for each client goes from `arrived` through
the session lookup (`FindSession`, `MissSession` and `NewSession`, two locks) to
`dispatch`, perhaps `tool`, and `reply`. `ready` is `h.state`. What a request
asks for is chosen by the action that looks at it: `Forbid` and `Reject` on arrival,
`Initialize`, `ListTools`, `RejectCall` or one of the four tools after the session
lookup. The client keeps
the `Mcp-Session-Id` of its last reply (`header`), also over a `Restart` of the
server. `HandlerPanics` is the nil executor. `spent` is how long a request has had its
session, not told apart beyond TTL + 1: a tool call may outlast the session.

*AgentLifecycle.* Each goroutine is a program counter: the callers of `Start`
(`startPc`), the server goroutine (`servePc`), net/http's accept loop
(`acceptPc`), the callers of `Shutdown` (`shutPc`), the two probers and each
request. A step is the code between two points where another goroutine can see
or change what it uses; `errCh`, the two ready channels and the flags are
variables. A prober checks and fetches for any number of peers. `Record` on a
closed log is noted in `lost`; `closeErr` says that closing it failed, with which
`Shutdown` fails although all else is done.

*WingmateMain.* `mainPc` follows `runServer`; the agent's actions are those of
`AgentLifecycle` with one goroutine in `Start` and main in `Shutdown`. After
`Exit` nothing moves.

*PeerDiscovery.* The environment restarts peers under other names. The rounds of
`probePeers` (one from `Start`, one per tick) take a peer at a time: send, wait,
store or fail. `known` is `knownPeers` reduced to the names; `borne` remembers
the names each peer has had. A name in `HttpNames` begins with "http": who asks for
it asks for a URL, and nobody is looked up.

*A2AProtocol.* Everything is indexed by call. `client` is where `SendMessage` or
`GetAgentCard` is, `wire` the HTTP connection, `server` the peer's handler, `cli`
its claude process; `parent` is the call whose claude process made this one with
the ask tool. The two logs hold a call's entries on either side. `AskCancelled`
and `HandlerCancelled` are the contexts: a caller that leaves cuts the wire, a cut
wire cancels the handler, a cancelled handler kills its process, a dead process
cancels the calls it made. `deadline` is a history variable, when a call must be
over given its own timer and its parents'. `Begin` numbers calls as they come,
so a parent has a lower number. A foreign client may stall its body: its call
is `Held` in `io.ReadAll` until the client goes. (One that sends the rest late
is a request accepted when it is complete.) `Crash` takes an agent's handlers and the calls
made through it, and leaves the claude processes, which nothing ends.

*LLMConversation.* A turn is one call of `HandleMessage`. `sessions` is the
session map, `cli` and `exit` the process as `Execute` sees it, `history` what
each CLI session knows of, `trail` the turn's flight-log entries. The `select` of
`Execute` is `TimesOut` against `CLIFails` or `CLIAnswers`, and both may be
enabled at once. An id that is generated is a reading of the clock, kept in `began`;
the clock may move on, stand or be set back, so a turn may read anything (`now`).

*ConfigResolution.* The stages of `loadConfig` and `runServer` in their order,
each choosing what its source says; `WithEnv`, `WithDefaults`, `Merge` and
`Validate` are operators on configurations.

## Runs

Passing runs (TLC explores all reachable states):

| Run | Instance | Shows |
|---|---|---|
| `sessions` | 2 ids, one of them the fallback id; TTL 2, interval 2 | `TTLStore` is implemented: nothing goes that is not idle beyond the TTL when it goes; abandoned sessions go, `Stop` ends the goroutine |
| `lifecycle` | 2 callers of `Start`, 1 of `Shutdown`, 1 request | one start and one shutdown take effect, `GracefulService` is implemented: once drained, quiet for good; records are lost only after a shutdown that found no server, ready means complete; cancelling the context ends the accepting and, once the clients let their requests end, every `Start` and the serving; no deadlock |
| `process` | 2 requests | no request loses a record, exit code 0 means drained, `GracefulService` is implemented, a signal or the agent's own end ends the process |
| `peers` | 2 peers, 2 names, one of which reads like a URL, 2 restarts, 1 delegation | the cache was true, a delegation by name finds a bearer, discovery converges, cancellation ends probing |
| `a2a` | 2 agents with the CLI, a stranger, 2 calls, 1 crash, every kind of request | no CLI works past a deadline of its call or of one above it, a success is in both logs, `MessageTurn` is implemented: only a crash leaves a process behind; every call ends, and every handler whose client does not stall its body |
| `mcp_server` | 2 clients, 3 ids, one of them the fallback id, TTL 2, restarts, with or without the CLI | no early logout, a reply names a live session unless the call outlasted the TTL, sessions with a random id are not shared |
| `turns` | 2 turns, all seven ways the CLI may end | no cross talk but between dialogs whose generated ids are one, no orphan process, continuity, `MessageTurn` is implemented, turns end |
| `config` | 128 files (or none), 160 environments, 48 command lines | precedence, port 0 kept, what runs is what was validated and panics only on a negative interval |

Runs that end in a violation each check one statement of a comment or document
that the code does not keep:

| Run | Statement | What the code does |
|---|---|---|
| `lifecycle_early_stop` | `Shutdown` shuts the server down | not if it is not published yet: it returns nil and the server comes up for good |
| `process_lost` | all activity is logged | a probe that fails after main's shutdown is not |
| `turns_follow_up` | a follow-up uses the session that was stored under the conversation's id, traced or generated | without a trace id each message generates an id of its own, and the stored session is not found |
| `mcp_server_no_cli` | handlers check `IsInstalled` | two of them call it on a nil interface and panic |

### Divergences met while modelling

The models follow the code in these places too, where a comment or document says
otherwise. No run is spent on them: each is visible in a single definition.

- `GetSession` serves, and revives, a session past its TTL that no sweep has met
  (`session.go:119`; its comment says expired sessions are not found).
- `ActiveCount` counts expired sessions (`session.go:157`), and
  `wingmate_status` does not call it but reports 0 (`handlers.go:146`).
- The fallback session id is the first 16 characters of a time, precise to the
  minute (`session.go:180`); a second creation within it replaces the first.
- The card is served from the first accepted connection on, its URL, "required",
  is set by `Start` after `Ready()` (`agent.go:235`).
- `GetPeerInfo` reports every peer ever seen as available (`agent.go:560`).
- Trace ids correlate entries across agents, says `flightlog/entry.go:45`, but no
  request carries one, so the entries of the two ends of a call never share it
  (`protocol/server.go:243`).
- `Start` "blocks until the context is cancelled" (`agent.go:207`) and then until
  the last request is over. The server sets no read timeout
  (`protocol/server.go:73`), so a client that stalls its body holds `io.ReadAll`
  (`protocol/server.go:201`, `mcp/http_transport.go:71`), and with it the
  `Shutdown` without a deadline that `Start` calls. That is why `CancelEndsStart` and
  half of `CancelStopsServing` have the premise `ClientsLetGo`.
- Nothing relates the CLI timeout, bounded only from below (`validate.go:70`), to
  the 30 minutes of the sessions (`agent.go:114`). The reply to a tool call that takes
  longer may name a session that has been swept meanwhile, and the next request
  gets another, while `docs/how/mcp-setup.md:274` advises to raise the timeout.
- A peer whose name begins with "http" cannot be asked by its name
  (`agent/client.go:191`).
- Error 2003 is the timeout, 2006 the parse error (`cli.go:118`, `:148`);
  `README.md:229` says 2003 is the parse error.
- `--port 0` cannot override a port of the environment or the file
  (`main.go:145`); a file that names no port means any free port, not 9000
  (`config.go:159`); port -1 is rejected before it could mean the default
  (`agent.go:47` against `config.go:155`).
- Success responses have a null id (`server.go:271`; `jsonrpc.go:34` says it
  matches the request's), any method name is accepted (`server.go:215`, while
  `CodeMethodNotFound` is never used), and notifications are answered.
- `Ping` records "Received pong" before it looks whether it is one
  (`agent/client.go:61`).
- A JSON answer with neither result nor error counts as a message without text,
  so the ask tool reports an empty success for it (`protocol/client.go:86`).
- The ask tool takes a `session_id` and nobody uses it (`agent/client.go:145`).
- `--verbose` never mirrors the log: `New` sets the writer but not the option
  (`agent.go:57`, `flightlog.go:72`).
- The documents name `WINGMATE_LLM_TIMEOUT`, the code reads
  `WINGMATE_CLAUDE_TIMEOUT` (`config.go:40`).
- A claude process outlives the crash of its agent (`cli.go:97`): in `MessageTurn`
  the crash is the one step that ends a message and not its process.
- A negative probe interval passes `Validate` and panics in a goroutine of
  `Start` (`agent.go:513`); `RunsAsValidated` shows that nothing else gets there.

### Bounds, and why they are enough

- `TTL` and `Interval` of 2 let a session be used at every age up to expiry and
  a tick fall before, on and after it; of two ids one can be swept while the
  other is kept or created, and as one is the fallback id both kinds of
  creation occur. In `mcp_server` how long a request takes is not
  bounded; all that is beyond the TTL is one age.
- `MaxRequests` bounds a client's requests: two reach every order of create,
  reuse and loss.
- Two callers of `Start` and one of `Shutdown`, together with the `Shutdown`
  that `Start` itself calls, give every race on the flags; further callers only
  return early. The proofs cover any number.
- Two calls in `a2a` are one of a person (or of a foreign client) and one that the
  claude process it set to work makes, which may go to the same agent, back to the
  caller's, or to the stranger (`Callees`: the first goes to one of the two agents,
  which are alike until then, or to the stranger): the shortest chain, in which a timer above and a
  timer below can each run out first. `ClientTimeout` 1 is below `CLITimeout` 2 as
  30 s is below 120 s, and `MaxClock` 3 lets a call that begins at 0 or 1 meet
  both; no call begins when its timers could no longer fire. The clock does not
  move while a goroutine has something to do (`Busy`): its unit is seconds, theirs
  is milliseconds. One crash can hit either end at any point. The theorem covers
  chains of any length.
- `MaxRestarts` bounds how often peers come up: two let a peer change its name
  under a probe, or two peers bear one name.
- The clock of `LLMConversation` has two readings (`MaxClock` 1): of two generated
  ids it matters only whether they are equal.
- The values of `ConfigResolution` are those at and beyond each boundary the
  code tests: zero, missing, negative, 65536, unparsable, empty list entries.

`MaxRequests`, `MaxRestarts`, `MaxCrashes` and the `MaxClock` and `Callees` of `A2AProtocol` are the
only caps in guards that the code does not have, and `Busy` is the only assumption
on timing; it spares handlers that their client holds.

### Fairness

Weak fairness stands for the Go scheduler running a goroutine that can run, and
for timers that fire: the HTTP client's 30 s, the CLI timeout, main's two
10 s contexts. Strong fairness is used where a `select` with two ready cases
picks at random (`ObserveStop` and `LoopEnds` against the ticker), and for an
answer of a peer that is up, which may be late but not every time. Handlers,
peers and the claude process owe nothing: they may hang. Signals, cancellation,
requests and restarts are never fair. In `a2a` the clock is fair
besides, as every ending rests on it, and so are each call's client and handler,
which has no step to take while a stalled body holds it; peers, people and claude
processes may do nothing for ever. `mcp_server`, `config` and the
violation runs state safety only and assume no fairness.
In `lifecycle` no handler is fair, for its client may stall it: what needs requests to
end says so by the premise `ClientsLetGo`, and that the accepting stops does not need
it. In `WingmateMain` the shutdown has a deadline and no such premise is needed.

Runs with `CHECK_DEADLOCK FALSE` are of systems that stop: all turns are over,
probing is cancelled, the configuration is resolved. The others must not
deadlock; where an end is legitimate the specification has an explicit
`Finished` or exited step.

## Proofs

All theorems are of the form `Spec => []P`, or of an implementation, and hold for
every value of the constants that satisfies the module's named assumption. Every
invariant and every refinement that a passing run checks is proved.

- *MCPSessions.* `SessInv` is `SessTypeOK /\ SweepUnderestimates`. The second is
  what makes the two-pass sweep safe: the age noted for a session is never above
  its real one unless it was touched, in which case the recheck under the write
  lock sees it. From it each step of the manager is a step of `TTLStore` or
  stutters (`SessionsImplementStore`).
- *MCPServer.* `SrvInv` adds to `SessInv` that a client's session is never idler
  than the client has been away (`HeaderInv`), and that of a request in progress
  never idler than the request has taken (`CallInv`), as long as either is within
  the TTL. What the sweep removes is idle beyond the TTL, so it takes the session
  of a request only when the request itself has outlasted the TTL, which is what
  `ReplyCarriesLiveSession` says and all the code can promise.
  `SessionsNotShared` needs that no two requests in progress hold one random id
  (`OwnerInv`): such ids are never given out twice, `used` being kept over a
  restart. Nothing is assumed of the fallback ids, of which two creations in a
  minute may share one; the property leaves those two clients, and only those, out.
  `ServerKeepsStorePromise` takes the promise of `TTLStore` to the whole endpoint:
  handlers, clients and the sweep touch the map only as the store allows, and a
  restart begins it anew.
- *AgentLifecycle.* The properties are not inductive: `LifeInv` adds who has run
  past the flags (`StartInv`, `ShutInv`), that an accept loop never outlives
  `http.Shutdown` (`DrainInv`), who may have closed the log (`LogInv`) and the
  order of coming up (`ReadyInv`). One lemma per goroutine, one step per action.
  `AgentIsGracefulHolds` says what each step does to the three things the
  abstract service sees (`AcceptMoves`, `ActiveMoves`, `DrainedMoves`), for any
  number of callers: the accept loop may end before `Shutdown` returns, and only
  a drained `Shutdown` is the service's clean end.
- *WingmateMain.* `ProcInv` adds to `LifeInv` that main shuts down only a
  published server, which excludes the early stop that `AgentLifecycle` allows;
  `ProcessIsGraceful` maps every step to `GracefulService`. `ProcessEmbedsAgent`
  is that every behaviour of the process is one of `AgentLifecycle`, so each
  theorem about the agent holds of the process (`ProcessAgentIsGraceful` is one).
- *PeerDiscovery.* `DiscInv` adds that a card in a goroutine's hands was true
  when it was given; names borne never shrink, so it stays so in the cache and
  for a delegation that took its target from it.
- *A2AProtocol.* `A2AInv` adds to the types how the parts of a call hang together
  (who is idle, cut, answered, working) and that a call made for a working one has
  no later deadline. The step that matters is `Tick`: if a late process were at
  work, take the late call with the lowest number (`LeastNumber`, from the
  well-foundedness of the numbers). Its own timer cannot be what it is late for,
  as its client would have had to give up first (`Busy`), so its parent is late
  too and has a lower number. `LogInv` adds what each log holds at each place of
  the handler, `ReplyInv` which replies a handler may have given.
  `ServedAsPromisedHolds` rests on `OneCallMoves`: a step of the protocol moves one call
  and is one move of `MessageTurn` for it, except for a crash, which takes a set of
  messages at once (`CrashAsServed`). `OnlyCrashesOrphanHolds` says the same of the
  processes directly: one without a handler was started by an agent that crashed.
- *LLMConversation.* `ConvInv` adds that whatever refers to a session, or is known
  to one, has the conversation id of the turn that created it, and that an id is
  the dialog's or the clock reading at which its turn began (`KinInv`). So two
  dialogs in one session are two turns with one reading, and nothing is assumed of
  the clock.
  `Continuity` needs more: sessions come into
  being, and grow, only when a process ends with an answer (`BornInv`), and while
  the turns of a conversation do not overlap the stored session knows of everyone
  who stored one, as does what a turn resumes and what it will store
  (`PassOnInv`). A turn in "store" is over for nobody, so all others of its
  conversation were over for it: that is where overlapping turns would fail.
  `HandledAsPromisedHolds` adds what the process, the reply and the records are at
  each end of a turn (`EndInv`) and maps each action by a lemma of its own.
- *ConfigResolution.* `FieldsInv` says stage by stage that a field means what the
  sources read so far mean, where a zero stands for the default up to
  `WithDefaults` and not after it, so that its second application in `New`
  changes nothing. `RunsAsValidated` follows with `DefaultsStayValid` (what is valid
  is valid after `WithDefaults`) and `SlowProbe` (an interval that is not positive
  is a negative one from the file or the environment), for any sources whatever.

Some theorems are about properties no run lists any more, since a stronger
one took their place there: `SweepIsCautious` (part of the argument for
`ImplementsTTLStore`), `DrainedMeansQuietHolds` (for `AgentIsGraceful`) and
`LogTellsTheStoryHolds` (for `HandledAsPromised`), besides the type
invariants of `MCPSessions` and `WingmateMain`. `AnswersStand`, in both
`LLMConversation_proofs` and `A2AProtocol_proofs`, is what `MessageTurn` gives to those
who implement it: a step of it concludes no message twice, so what is answered and
recorded stays so, also when a process ends after its handler gave it up.

The assumptions on constants are what the code fixes: timeouts and the TTL are
numbers, the TTL and the interval of the sweep positive, sets that stand for different things disjoint, calls numbered from 1, flags
cannot say what has no flag, and a probe interval in a file is a number. No set is
assumed to be finite.

Only model-checked is all liveness, as fairness and ENABLED are out of the prover's
reach: `AbandonedSessionsRemoved`, `StopEndsCleanup`, `CancelEndsStart`,
`CancelStopsServing`, `SignalEndsProcess`, `AgentEndEndsProcess`,
`DiscoveryConverges`, `ProbingEnds`, `TurnsEnd`, `CallsEnd` and `HandlersEnd`.
The statements that violation runs refute are refuted by their traces.

## Plan

What is left: the flight log as a module of its own, with its two writers (file
and stdout), the partial failure of one, and the MCP tools that get no logger; and
an abstract specification of discovery for `PeerDiscovery` to implement.

## Not modelled

JSON formatting and the files behind the flight log (pure I/O), `pkg/types`
(data), `internal/agent/conversation.go` (unused), `Clear` and `ClearAll` of the
session map (no caller), argument lists of the CLI, tool descriptions. net/http,
the claude process, peers and MCP clients are environment: modelled by what this
code relies on and marked external in `PROJECT.json`.
