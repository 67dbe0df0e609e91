------------------------- MODULE MCPSessions_proofs -------------------------
(***************************************************************************)
(* Proofs about the session manager, for every set of ids and values and   *)
(* every TTL and cleanup interval.                                         *)
(*                                                                         *)
(* The argument: a running sweep works with ages computed at the time it   *)
(* captured, and an age seen then can only be smaller than the true one    *)
(* (SweepUnderestimates), because every later access resets both.  What    *)
(* the second pass deletes is therefore overdue now, which is what the     *)
(* abstract store allows.                                                  *)
(***************************************************************************)
EXTENDS MCPSessions, TLAPS

\* The inductive invariant: typing, and the two passes' view of time.
SessInv == SessTypeOK /\ SweepUnderestimates

USE DEF NoAges, store, sweepSt, ticker, sessVars, Ages

LEMMA InitSessInv == SessInit => SessInv
<1> SUFFICES ASSUME SessInit PROVE SessInv
  OBVIOUS
<1>1. age \in [Ids -> Ages] /\ seen \in [Ids -> Ages] /\ untilTick \in 1 .. Interval
  BY SessionsAssumption DEF SessInit
<1>2. data \in [Ids -> Values \union {Empty}]
  BY DEF SessInit
<1>3. /\ live = {} /\ used = {} /\ expired = {} /\ sweeper = "select"
      /\ tick = FALSE /\ stopped = FALSE
  BY DEF SessInit
<1> QED
  BY <1>1, <1>2, <1>3 DEF SessInv, SessTypeOK, SweepUnderestimates

LEMMA CallersSessInv ==
  ASSUME SessInv, Callers
  PROVE  SessInv'
<1>1. ASSUME NEW id \in Ids, CreateSession(id)
      PROVE  SessInv'
  BY <1>1, SessionsAssumption
     DEF SessInv, SessTypeOK, SweepUnderestimates, CreateSession, Access, FreshIds
<1>2. ASSUME NEW id \in Ids, GetSession(id)
      PROVE  SessInv'
  BY <1>2, SessionsAssumption
     DEF SessInv, SessTypeOK, SweepUnderestimates, GetSession, Access
<1>3. ASSUME NEW id \in Ids, DeleteSession(id)
      PROVE  SessInv'
  BY <1>3, SessionsAssumption
     DEF SessInv, SessTypeOK, SweepUnderestimates, DeleteSession, Drop
<1>4. ASSUME NEW id \in Ids, NEW v \in Values, SetSession(id, v)
      PROVE  SessInv'
  BY <1>4, SessionsAssumption
     DEF SessInv, SessTypeOK, SweepUnderestimates, SetSession, Access
<1>5. CASE Stop
  BY <1>5 DEF SessInv, SessTypeOK, SweepUnderestimates, Stop
<1> QED
  BY <1>1, <1>2, <1>3, <1>4, <1>5 DEF Callers

LEMMA CleanupSessInv ==
  ASSUME SessInv, Cleanup
  PROVE  SessInv'
<1>1. CASE BeginSweep
  <2>1. seen' = age /\ seen' \in [Ids -> Ages] /\ live \subseteq Ids
    BY <1>1 DEF BeginSweep, SessInv, SessTypeOK
  <2>2. \A id \in live : seen'[id] <= age[id]
    BY <2>1, SessionsAssumption
  <2>3. UNCHANGED <<store, used, expired, untilTick, stopped>> /\ tick' = FALSE
    BY <1>1 DEF BeginSweep
  <2>4. expired' = {} /\ sweeper' = "collect"
    BY <1>1 DEF BeginSweep, SessInv, SessTypeOK
  <2> QED
    BY <2>1, <2>2, <2>3, <2>4 DEF SessInv, SessTypeOK, SweepUnderestimates
<1>2. CASE CollectExpired
  BY <1>2, SessionsAssumption
     DEF SessInv, SessTypeOK, SweepUnderestimates, CollectExpired
<1>3. CASE RemoveExpired
  <2>1. live' \subseteq live /\ expired' = {} /\ sweeper' = "select"
    BY <1>3 DEF RemoveExpired, Drop
  <2>2. seen' = NoAges /\ seen' \in [Ids -> Ages]
    BY <1>3, SessionsAssumption DEF RemoveExpired
  <2>3. age' \in [Ids -> Ages] /\ data' \in [Ids -> Values \union {Empty}]
    BY <1>3, SessionsAssumption DEF RemoveExpired, Drop, SessInv, SessTypeOK
  <2>4. \A id \in live' : seen'[id] <= age'[id]
    BY <2>1, <2>2, <2>3 DEF SessInv, SessTypeOK
  <2> QED
    BY <1>3, <2>1, <2>2, <2>3, <2>4
       DEF SessInv, SessTypeOK, SweepUnderestimates, RemoveExpired
<1>4. CASE ObserveStop
  BY <1>4 DEF SessInv, SessTypeOK, SweepUnderestimates, ObserveStop
<1> QED
  BY <1>1, <1>2, <1>3, <1>4 DEF Cleanup

LEMMA AdvanceTimeSessInv ==
  ASSUME SessInv, AdvanceTime
  PROVE  SessInv'
BY SessionsAssumption
   DEF SessInv, SessTypeOK, SweepUnderestimates, AdvanceTime

\* The inductive invariant holds in every reachable state.
THEOREM SessInvHolds == SessSpec => []SessInv
<1>1. SessInit => SessInv
  BY InitSessInv
<1>2. SessInv /\ [SessNext]_sessVars => SessInv'
  <2> SUFFICES ASSUME SessInv, [SessNext]_sessVars
               PROVE  SessInv'
    OBVIOUS
  <2>1. CASE UNCHANGED sessVars
    BY <2>1 DEF SessInv, SessTypeOK, SweepUnderestimates
  <2> QED
    BY <2>1, CallersSessInv, CleanupSessInv, AdvanceTimeSessInv DEF SessNext
<1> QED
  BY <1>1, <1>2, PTL DEF SessSpec

\* Type correctness of the session manager (session.go:16-28).
THEOREM SessTypeCorrect == SessSpec => []SessTypeOK
<1>1. SessInv => SessTypeOK
  BY DEF SessInv
<1> QED
  BY <1>1, SessInvHolds, PTL

\* A sweep never sees a session idler than it is (session.go:70-90).
THEOREM SweepIsCautious == SessSpec => []SweepUnderestimates
<1>1. SessInv => SweepUnderestimates
  BY DEF SessInv
<1> QED
  BY <1>1, SessInvHolds, PTL
-----------------------------------------------------------------------------
(* The session manager implements the abstract store.                      *)

USE DEF Abstract!store

LEMMA CallersImplement ==
  ASSUME SessInv, Callers
  PROVE  [Abstract!Next]_(Abstract!store)
<1>1. ASSUME NEW id \in Ids, CreateSession(id)
      PROVE  Abstract!Create(id)
  BY <1>1 DEF CreateSession, Access, Abstract!Create
<1>2. ASSUME NEW id \in Ids, GetSession(id)
      PROVE  Abstract!Touch(id)
  BY <1>2 DEF GetSession, Access, Abstract!Touch
<1>3. ASSUME NEW id \in Ids, DeleteSession(id)
      PROVE  Abstract!Delete(id)
  BY <1>3 DEF DeleteSession, Drop, Abstract!Delete, Abstract!Forget
<1>4. ASSUME NEW id \in Ids, NEW v \in Values, SetSession(id, v)
      PROVE  Abstract!Put(id, v)
  BY <1>4 DEF SetSession, Access, Abstract!Put
<1>5. CASE Stop
  BY <1>5 DEF Stop
<1> QED
  BY <1>1, <1>2, <1>3, <1>4, <1>5 DEF Callers, Abstract!Next

\* The heart of the refinement: what the second pass removes is overdue now.
LEMMA RemovalIsExpiry ==
  ASSUME SessInv, RemoveExpired
  PROVE  \E S \in SUBSET Ids : Abstract!Expire(S)
<1> DEFINE S == {id \in expired \intersect live : seen[id] > TTL}
<1>1. S \in SUBSET Ids
  BY DEF SessInv, SessTypeOK
<1>2. ASSUME NEW id \in S
      PROVE  id \in Abstract!Overdue
  <2>1. id \in Ids /\ seen[id] <= age[id] /\ seen[id] > TTL
    BY <1>1 DEF SessInv, SweepUnderestimates
  <2>2. age[id] \in Int /\ seen[id] \in Int /\ TTL \in Int
    BY <2>1, SessionsAssumption DEF SessInv, SessTypeOK
  <2> QED
    BY <2>1, <2>2 DEF Abstract!Overdue
<1>3. Abstract!Forget(S)
  BY DEF RemoveExpired, Drop, Abstract!Forget
<1> QED
  BY <1>1, <1>2, <1>3 DEF Abstract!Expire

LEMMA CleanupImplements ==
  ASSUME SessInv, Cleanup
  PROVE  [Abstract!Next]_(Abstract!store)
<1>1. CASE BeginSweep
  BY <1>1 DEF BeginSweep
<1>2. CASE CollectExpired
  BY <1>2 DEF CollectExpired
<1>3. CASE RemoveExpired
  BY <1>3, RemovalIsExpiry DEF Abstract!Next
<1>4. CASE ObserveStop
  BY <1>4 DEF ObserveStop
<1> QED
  BY <1>1, <1>2, <1>3, <1>4 DEF Cleanup

\* Every behaviour of the two-pass, ticker-driven session manager is one of
\* the store that expires idle sessions atomically.
THEOREM SessionsImplementStore == SessSpec => ImplementsTTLStore
<1>1. SessInit => Abstract!Init
  BY DEF SessInit, Abstract!Init
<1>2. SessInv /\ [SessNext]_sessVars => [Abstract!Next]_(Abstract!store)
  <2> SUFFICES ASSUME SessInv, [SessNext]_sessVars
               PROVE  [Abstract!Next]_(Abstract!store)
    OBVIOUS
  <2>1. CASE UNCHANGED sessVars
    BY <2>1
  <2>2. CASE AdvanceTime
    BY <2>2 DEF AdvanceTime, Abstract!Elapse, Abstract!Next
  <2> QED
    BY <2>1, <2>2, CallersImplement, CleanupImplements DEF SessNext
<1> QED
  BY <1>1, <1>2, SessInvHolds, PTL DEF SessSpec, ImplementsTTLStore, Abstract!Spec
=============================================================================
