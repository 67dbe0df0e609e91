---------------------------- MODULE MCPSessions ----------------------------
(***************************************************************************)
(* The session manager of internal/mcp/session.go: the map under its       *)
(* mutex, its callers' operations, and the cleanup goroutine, which        *)
(* captures a time, collects expired ids under the read lock, and deletes  *)
(* them under the write lock in a second critical section.                 *)
(*                                                                         *)
(* Time is relative: a session carries its age (time.Now() - lastAccess),  *)
(* and a sweep carries the ages as of the instant it captured.  Both stop  *)
(* growing at TTL + 1, since the code only asks whether an age exceeds the *)
(* TTL, so the clock needs no bound.                                       *)
(***************************************************************************)
EXTENDS Integers

CONSTANTS
    Ids,          \* ids the generator can return; each is used at most once
    FallbackIds,  \* ids of the timestamp fallback, which repeat within a minute
    Values,       \* data a caller may store with SetSession
    Empty,        \* the empty map of a new session
    TTL,          \* m.ttl
    Interval      \* cleanupInterval

ASSUME SessionsAssumption ==
    /\ TTL \in Nat \ {0}
    /\ Interval \in Nat \ {0}
    /\ FallbackIds \subseteq Ids

VARIABLES
    live, age, data,   \* m.sessions: its keys, idle times and data
    used,              \* ids generated so far
    sweeper,           \* where the cleanup goroutine is
    seen,              \* now.Sub(lastAccess) as the running sweep computes it
    expired,           \* ids the sweep's first pass collected
    untilTick, tick,   \* the ticker: time to its next tick, a tick waiting in C
    stopped            \* m.stopped, and m.stopCh closed

store    == <<live, age, data>>
sweepSt  == <<sweeper, seen, expired>>
ticker   == <<untilTick, tick>>
sessVars == <<store, used, sweepSt, ticker, stopped>>

NoAges == [id \in Ids |-> 0]

SessInit ==
    /\ live = {} /\ used = {} /\ expired = {}
    /\ age = NoAges /\ seen = NoAges
    /\ data = [id \in Ids |-> Empty]
    /\ sweeper = "select"
    /\ untilTick = Interval /\ tick = FALSE
    /\ stopped = FALSE

-----------------------------------------------------------------------------
(* The operations of callers, each one critical section.                   *)

\* lastAccess := time.Now(); a running sweep, whose time is earlier, sees it
\* as not idle at all.
Access(id) ==
    /\ age'  = [age EXCEPT ![id] = 0]
    /\ seen' = [seen EXCEPT ![id] = 0]

\* A bug: an id may come back once its session is gone.
FreshIdsReused == Ids \ live

\* generateSessionID: random and never repeated, or the fallback.
FreshIds == (Ids \ used) \union FallbackIds

CreateSession(id) ==
    /\ id \in FreshIds
    /\ live' = live \union {id}
    /\ data' = [data EXCEPT ![id] = Empty]
    /\ used' = used \union {id}
    /\ Access(id)
    /\ UNCHANGED <<sweeper, expired, ticker, stopped>>

\* A bug: the data is returned and the access forgotten.
GetWithoutRefresh(id) ==
    /\ id \in live
    /\ UNCHANGED <<store, used, sweepSt, ticker, stopped>>

\* A hit refreshes the TTL; a miss changes nothing.
GetSession(id) ==
    /\ id \in live
    /\ Access(id)
    /\ UNCHANGED <<live, data, used, sweeper, expired, ticker, stopped>>

SetSession(id, v) ==
    /\ id \in live
    /\ data' = [data EXCEPT ![id] = v]
    /\ Access(id)
    /\ UNCHANGED <<live, used, sweeper, expired, ticker, stopped>>

Drop(S) ==
    /\ live' = live \ S
    /\ age'  = [id \in Ids |-> IF id \in S THEN 0 ELSE age[id]]
    /\ data' = [id \in Ids |-> IF id \in S THEN Empty ELSE data[id]]

DeleteSession(id) ==
    /\ id \in live
    /\ Drop({id})
    /\ UNCHANGED <<used, sweepSt, ticker, stopped>>

Stop ==
    /\ ~stopped
    /\ stopped' = TRUE
    /\ UNCHANGED <<store, used, sweepSt, ticker>>

-----------------------------------------------------------------------------
(* The cleanup goroutine.                                                  *)

\* case <-ticker.C, and now := time.Now()
BeginSweep ==
    /\ sweeper = "select" /\ tick
    /\ tick' = FALSE
    /\ seen' = age
    /\ sweeper' = "collect"
    /\ UNCHANGED <<store, used, expired, untilTick, stopped>>

\* A bug: nothing expired makes the goroutine return, not just the sweep.
CollectThenQuit ==
    /\ sweeper = "collect"
    /\ expired' = {id \in live : seen[id] > TTL}
    /\ sweeper' = IF expired' = {} THEN "returned" ELSE "remove"
    /\ UNCHANGED <<store, used, seen, ticker, stopped>>

\* The first pass, under the read lock.
CollectExpired ==
    /\ sweeper = "collect"
    /\ expired' = {id \in live : seen[id] > TTL}
    /\ IF expired' = {}
       THEN sweeper' = "select" /\ seen' = NoAges
       ELSE sweeper' = "remove" /\ UNCHANGED seen
    /\ UNCHANGED <<store, used, ticker, stopped>>

\* A bug: the second pass trusts the first.
RemoveWithoutRecheck ==
    /\ sweeper = "remove"
    /\ Drop(expired \intersect live)
    /\ expired' = {} /\ seen' = NoAges
    /\ sweeper' = "select"
    /\ UNCHANGED <<used, ticker, stopped>>

\* The second pass, under the write lock, re-checks what it deletes.
RemoveExpired ==
    /\ sweeper = "remove"
    /\ Drop({id \in expired \intersect live : seen[id] > TTL})
    /\ expired' = {} /\ seen' = NoAges
    /\ sweeper' = "select"
    /\ UNCHANGED <<used, ticker, stopped>>

\* A bug: ticks are served first, so a slow sweep hides the stop for ever.
ObserveStopAfterTicks ==
    /\ sweeper = "select" /\ stopped /\ ~tick
    /\ sweeper' = "returned"
    /\ UNCHANGED <<store, used, seen, expired, ticker, stopped>>

\* case <-m.stopCh
ObserveStop ==
    /\ sweeper = "select" /\ stopped
    /\ sweeper' = "returned"
    /\ UNCHANGED <<store, used, seen, expired, ticker, stopped>>

\* Time passes; a tick that finds the last one unread is dropped.
AdvanceTime ==
    /\ age' = [id \in Ids |-> IF id \in live /\ age[id] <= TTL
                              THEN age[id] + 1 ELSE age[id]]
    /\ untilTick' = IF untilTick = 1 THEN Interval ELSE untilTick - 1
    /\ tick' = (tick \/ untilTick = 1)
    /\ UNCHANGED <<live, data, used, sweepSt, stopped>>

Cleanup == BeginSweep \/ CollectExpired \/ RemoveExpired \/ ObserveStop

Callers ==
    \/ \E id \in Ids : CreateSession(id) \/ GetSession(id) \/ DeleteSession(id)
    \/ \E id \in Ids, v \in Values : SetSession(id, v)
    \/ Stop

SessNext == Callers \/ Cleanup \/ AdvanceTime

SessSpec == SessInit /\ [][SessNext]_sessVars

\* Go runs a runnable goroutine eventually, and its select picks at random
\* among ready cases, so a closed stopCh is picked eventually.
SessFairness ==
    /\ WF_sessVars(AdvanceTime)
    /\ WF_sessVars(BeginSweep \/ CollectExpired \/ RemoveExpired)
    /\ SF_sessVars(ObserveStop)

SessFairSpec == SessSpec /\ SessFairness
-----------------------------------------------------------------------------
(* Properties.                                                             *)

Ages == 0 .. TTL + 1

\* Every variable stays in its range, a live id was generated before, and the
\* sweep holds collected ids only between its two passes.
SessTypeOK ==
    /\ used \subseteq Ids
    /\ live \subseteq used
    /\ age \in [Ids -> Ages] /\ seen \in [Ids -> Ages]
    /\ data \in [Ids -> Values \union {Empty}]
    /\ sweeper \in {"select", "collect", "remove", "returned"}
    /\ expired \subseteq Ids
    /\ (expired # {}) <=> (sweeper = "remove")
    /\ untilTick \in 1 .. Interval /\ tick \in BOOLEAN
    /\ stopped \in BOOLEAN

\* A sweep never believes a session idler than it is: what it saw at its
\* captured time can only be too small, also after accesses between passes.
SweepUnderestimates == \A id \in live : seen[id] <= age[id]

Abstract == INSTANCE TTLStore

\* The two-pass sweep, interleaved with callers, removes a session only if it
\* is idle beyond the TTL at the moment of removal: session.go:68-95.
ImplementsTTLStore == Abstract!Spec

\* An abandoned session does not leak: once overdue it is removed, unless it
\* is used again or the manager has been stopped.
AbandonedSessionsRemoved ==
    \A id \in Ids :
        (id \in live /\ age[id] > TTL) ~> (id \notin live \/ age[id] = 0 \/ stopped)

\* Stop ends the cleanup goroutine, whatever it was doing: session.go:162.
StopEndsCleanup == stopped ~> (sweeper = "returned")

=============================================================================
