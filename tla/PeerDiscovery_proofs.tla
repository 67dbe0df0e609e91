------------------------ MODULE PeerDiscovery_proofs ------------------------
(***************************************************************************)
(* Proofs about peer discovery, for any number of peers, names, probes and *)
(* delegations, and any order of the configured list.                      *)
(*                                                                         *)
(* The argument: a running peer has borne its name (UpIsBorne), so the     *)
(* card a probe receives bears a name of the peer it asked, and the probe  *)
(* stays at that entry of the list until it stores the card                *)
(* (CardWasTrue).  What peers have borne only grows, so the cache stays    *)
(* true of them, and so does every delegation resolved in it.              *)
(***************************************************************************)
EXTENDS PeerDiscovery, TLAPS

UpIsBorne == \A p \in Peers : up[p] => name[p] \in Names /\ name[p] \in borne[p]

CardWasTrue ==
    \A w \in Probers : pc[w] = "storing" =>
        card[w] \in Names /\ card[w] \in borne[Target(w)]

IdleUnresolved ==
    \A c \in Askers : askPc[c] = "idle" => asked[c] = Unknown /\ dest[c] = Unknown

DiscInv == /\ DiscTypeOK /\ UpIsBorne /\ CardWasTrue /\ KnownWasTrue
           /\ AskFindsBearer /\ IdleUnresolved

USE DEF Probers, NoCard, world, probes, asks, discVars

LEMMA TargetIsPeer ==
  ASSUME DiscTypeOK, NEW w \in Probers, at[w] <= Len(PeerList)
  PROVE  Target(w) \in Peers
<1>1. at[w] \in 1 .. Len(PeerList) + 1 /\ PeerList \in Seq(Peers)
  BY DiscoveryAssumption DEF DiscTypeOK
<1> QED
  BY <1>1 DEF Target

LEMMA InitDiscInv == DiscInit => DiscInv
<1> SUFFICES ASSUME DiscInit PROVE DiscInv
  OBVIOUS
<1>1. Len(PeerList) \in Nat /\ MaxRestarts \in Nat
  BY DiscoveryAssumption
<1>2. DiscTypeOK
  <2>1. at \in [Probers -> 1 .. Len(PeerList) + 1] /\ restarts \in 0 .. MaxRestarts
    BY <1>1 DEF DiscInit
  <2>2. pc \in [Probers -> {"wait", "next", "asking", "storing", "returned"}]
    BY DEF DiscInit
  <2>3. \A w \in Probers : pc[w] \notin {"asking", "storing"}
    BY DEF DiscInit
  <2> QED
    BY <2>1, <2>2, <2>3 DEF DiscInit, DiscTypeOK
<1>3. UpIsBorne /\ CardWasTrue /\ KnownWasTrue /\ AskFindsBearer /\ IdleUnresolved
  BY DEF DiscInit, IdleUnresolved, UpIsBorne, CardWasTrue, KnownWasTrue, AskFindsBearer
<1> QED
  BY <1>2, <1>3 DEF DiscInv

\* The peers: only what has been borne grows.
LEMMA EnvironmentDiscInv ==
  ASSUME DiscInv, Environment
  PROVE  DiscInv'
<1>1. ASSUME NEW p \in Peers, NEW n \in Names, ComesUp(p, n)
      PROVE  DiscInv'
  <2>1. DiscTypeOK'
    BY <1>1, DiscoveryAssumption DEF DiscInv, DiscTypeOK, ComesUp
  <2>2. /\ \A q \in Peers : borne[q] \subseteq borne'[q]
        /\ up' = [up EXCEPT ![p] = TRUE] /\ name' = [name EXCEPT ![p] = n]
        /\ n \in borne'[p]
        /\ UNCHANGED <<known, probes, asks>>
    BY <1>1 DEF ComesUp, DiscInv, DiscTypeOK
  <2>3. UpIsBorne'
    BY <2>2 DEF UpIsBorne, DiscInv, DiscTypeOK
  <2>4. ASSUME NEW w \in Probers, pc'[w] = "storing"
        PROVE  card'[w] \in Names /\ card'[w] \in borne'[Target(w)']
    <3>1. pc[w] = "storing" /\ card'[w] = card[w] /\ Target(w)' = Target(w)
      BY <2>2, <2>4 DEF Target
    <3>2. Target(w) \in Peers
      BY <3>1, TargetIsPeer DEF DiscInv, DiscTypeOK
    <3> QED
      BY <2>2, <3>1, <3>2 DEF DiscInv, CardWasTrue
  <2>5. KnownWasTrue'
    BY <2>2 DEF KnownWasTrue, DiscInv
  <2>6. AskFindsBearer' /\ IdleUnresolved'
    BY <2>2 DEF AskFindsBearer, IdleUnresolved, DiscInv, DiscTypeOK
  <2> QED
    BY <2>1, <2>3, <2>4, <2>5, <2>6 DEF DiscInv, CardWasTrue
<1>2. ASSUME NEW p \in Peers, GoesDown(p)
      PROVE  DiscInv'
  BY <1>2 DEF GoesDown, DiscInv, DiscTypeOK, UpIsBorne, CardWasTrue, KnownWasTrue,
              AskFindsBearer, IdleUnresolved, Target
<1>3. CASE Cancel
  BY <1>3 DEF Cancel, DiscInv, DiscTypeOK, UpIsBorne, CardWasTrue, KnownWasTrue,
              AskFindsBearer, IdleUnresolved, Target
<1> QED
  BY <1>1, <1>2, <1>3 DEF Environment

LEMMA ProberDiscInv ==
  ASSUME DiscInv, NEW w \in Probers, ProberSteps(w)
  PROVE  DiscInv'
<1>0. Len(PeerList) \in Nat
  BY DiscoveryAssumption
<1>1. CASE SendProbe(w)
  BY <1>0, <1>1 DEF SendProbe, Goto, DiscInv, DiscTypeOK, UpIsBorne, CardWasTrue,
                    KnownWasTrue, AskFindsBearer, IdleUnresolved, Target
<1>2. CASE RoundEnds(w)
  BY <1>2 DEF RoundEnds, Goto, DiscInv, DiscTypeOK, UpIsBorne, CardWasTrue,
              KnownWasTrue, AskFindsBearer, IdleUnresolved, Target
<1>3. CASE PeerAnswers(w)
  <2>1. Target(w) \in Peers
    BY <1>3, TargetIsPeer DEF PeerAnswers, DiscInv, DiscTypeOK
  <2>2. name[Target(w)] \in Names /\ name[Target(w)] \in borne[Target(w)]
    BY <1>3, <2>1 DEF PeerAnswers, DiscInv, UpIsBorne
  <2> QED
    BY <1>3, <2>1, <2>2 DEF PeerAnswers, Goto, DiscInv, DiscTypeOK, UpIsBorne,
                            CardWasTrue, KnownWasTrue, AskFindsBearer, IdleUnresolved, Target
<1>4. CASE ProbeFails(w)
  BY <1>0, <1>4 DEF ProbeFails, NextPeer, Goto, DiscInv, DiscTypeOK, UpIsBorne,
                    CardWasTrue, KnownWasTrue, AskFindsBearer, IdleUnresolved, Target
<1>5. CASE StoreCard(w)
  <2>1. Target(w) \in Peers
    BY <1>5, TargetIsPeer DEF StoreCard, DiscInv, DiscTypeOK
  <2>2. card[w] \in Names /\ card[w] \in borne[Target(w)]
    BY <1>5 DEF StoreCard, DiscInv, CardWasTrue
  <2>3. KnownWasTrue'
    BY <1>5, <2>1, <2>2 DEF StoreCard, DiscInv, DiscTypeOK, KnownWasTrue
  <2>4. DiscTypeOK' /\ UpIsBorne' /\ CardWasTrue' /\ AskFindsBearer' /\ IdleUnresolved'
    BY <1>0, <1>5, <2>1, <2>2 DEF StoreCard, NextPeer, Goto, DiscInv, DiscTypeOK,
                       UpIsBorne, CardWasTrue, AskFindsBearer, IdleUnresolved, Target
  <2> QED
    BY <2>3, <2>4 DEF DiscInv
<1> QED
  BY <1>1, <1>2, <1>3, <1>4, <1>5 DEF ProberSteps

LEMMA LoopDiscInv ==
  ASSUME DiscInv, Tick \/ LoopEnds
  PROVE  DiscInv'
<1>0. Len(PeerList) \in Nat
  BY DiscoveryAssumption
<1> QED
  BY <1>0 DEF Tick, LoopEnds, Goto, DiscInv, DiscTypeOK, UpIsBorne, CardWasTrue,
              KnownWasTrue, AskFindsBearer, IdleUnresolved, Target

LEMMA AskDiscInv ==
  ASSUME DiscInv, NEW c \in Askers, AskSteps(c)
  PROVE  DiscInv'
<1>1. UpIsBorne' /\ CardWasTrue' /\ KnownWasTrue'
  BY DEF AskSteps, AskByName, AskByHttpName, AskByURL, AskGoto, DiscInv,
         UpIsBorne, CardWasTrue, KnownWasTrue, Target
<1>2. ASSUME NEW n \in Names, AskByName(c, n)
      PROVE  DiscTypeOK' /\ AskFindsBearer' /\ IdleUnresolved'
  <2>1. CASE Candidates(n) # {}
    <3>1. PICK p \in Candidates(n) :
               AskGoto(c, "idle", "sent") /\ dest' = [dest EXCEPT ![c] = p]
      BY <1>2, <2>1 DEF AskByName
    <3>2. asked' = [asked EXCEPT ![c] = n]
      BY <1>2, <2>1 DEF AskByName
    <3>3. p \in Peers /\ n \in borne[p]
      BY <3>1, DiscoveryAssumption DEF Candidates, DiscInv, KnownWasTrue
    <3> QED
      BY <3>1, <3>2, <3>3 DEF AskGoto, DiscInv, DiscTypeOK, AskFindsBearer, IdleUnresolved
  <2>2. CASE Candidates(n) = {}
    BY <1>2, <2>2 DEF AskByName, AskGoto, DiscInv, DiscTypeOK, AskFindsBearer, IdleUnresolved
  <2> QED
    BY <2>1, <2>2
<1>3. ASSUME NEW p \in Peers, AskByURL(c, p)
      PROVE  DiscTypeOK' /\ AskFindsBearer' /\ IdleUnresolved'
  BY <1>3 DEF AskByURL, AskGoto, DiscInv, DiscTypeOK, AskFindsBearer, IdleUnresolved
<1>4. ASSUME NEW n \in Names, AskByHttpName(c, n)
      PROVE  DiscTypeOK' /\ AskFindsBearer' /\ IdleUnresolved'
  BY <1>4 DEF AskByHttpName, AskGoto, DiscInv, DiscTypeOK, AskFindsBearer, IdleUnresolved
<1> QED
  BY <1>1, <1>2, <1>3, <1>4 DEF AskSteps, DiscInv

\* The inductive invariant holds in every reachable state.
THEOREM DiscInvHolds == DiscSpec => []DiscInv
<1>1. DiscInit => DiscInv
  BY InitDiscInv
<1>2. DiscInv /\ [DiscNext]_discVars => DiscInv'
  <2> SUFFICES ASSUME DiscInv, [DiscNext]_discVars
               PROVE  DiscInv'
    OBVIOUS
  <2>1. CASE UNCHANGED discVars
    BY <2>1 DEF DiscInv, DiscTypeOK, UpIsBorne, CardWasTrue, KnownWasTrue,
                AskFindsBearer, IdleUnresolved, Target
  <2> QED
    BY <2>1, EnvironmentDiscInv, ProberDiscInv, LoopDiscInv, AskDiscInv DEF DiscNext
<1> QED
  BY <1>1, <1>2, PTL DEF DiscSpec

\* Type correctness of peer discovery (agent.go:498-571).
THEOREM DiscTypeCorrect == DiscSpec => []DiscTypeOK
<1>1. DiscInv => DiscTypeOK
  BY DEF DiscInv
<1> QED
  BY <1>1, DiscInvHolds, PTL

\* The peer cache never holds a name its peer has not borne (client.go:122-134).
THEOREM KnownWasTrueHolds == DiscSpec => []KnownWasTrue
<1>1. DiscInv => KnownWasTrue
  BY DEF DiscInv
<1> QED
  BY <1>1, DiscInvHolds, PTL

\* A delegation by name goes to a peer that has borne it (client.go:145-206).
THEOREM AskFindsBearerHolds == DiscSpec => []AskFindsBearer
<1>1. DiscInv => AskFindsBearer
  BY DEF DiscInv
<1> QED
  BY <1>1, DiscInvHolds, PTL
=============================================================================
