---------------------------- MODULE PeerDiscovery ----------------------------
(***************************************************************************)
(* How an agent learns about its peers and reaches them by name: the two   *)
(* probing goroutines of internal/agent/agent.go, which fetch the card of  *)
(* one configured peer after another, the cache knownPeers they fill, and  *)
(* DelegateMessage of internal/agent/client.go, which resolves a name in   *)
(* that cache.  What becomes of the message it sends is in A2AProtocol.    *)
(*                                                                         *)
(* The peers are the environment.  A peer answers with the name it has at  *)
(* that moment; the answer is stored later, and everything between may     *)
(* change: the peer may stop, or come back under another name.             *)
(***************************************************************************)
EXTENDS Naturals, Sequences

CONSTANTS
    Peers,        \* peer URLs
    PeerList,     \* config.Peers, in order
    Names,        \* agent names
    HttpNames,    \* those that start with "http"
    Unknown,      \* no entry in knownPeers
    Askers,       \* concurrent calls of DelegateMessage
    MaxRestarts   \* bound on how often peers come up

ASSUME DiscoveryAssumption ==
    /\ PeerList \in Seq(Peers)
    /\ HttpNames \subseteq Names /\ Unknown \notin Names
    /\ MaxRestarts \in Nat

VARIABLES
    up, name,     \* which peers run, and under which name
    borne,        \* every name a peer has run under
    restarts,     \* how often peers came up
    known,        \* a.knownPeers: the name on the cached card
    cancelled,    \* the context of Start has been cancelled
    pc,           \* where each probing goroutine is
    at,           \* which entry of the peer list it is at
    card,         \* the name on the card it has received
    askPc,        \* where each DelegateMessage call is
    asked, dest   \* the peer it names, the URL it has resolved that to

world    == <<up, name, borne, restarts>>
probes   == <<pc, at, card>>
asks     == <<askPc, asked, dest>>
discVars == <<world, known, cancelled, probes, asks>>

Probers  == {"initial", "periodic"}   \* go a.probePeers, go a.backgroundProbe
NoCard   == Unknown

\* The goroutines start when the agent is ready; peers come up around them.
DiscInit ==
    /\ up = [p \in Peers |-> FALSE]
    /\ name = [p \in Peers |-> Unknown]
    /\ borne = [p \in Peers |-> {}]
    /\ restarts = 0
    /\ known = [p \in Peers |-> Unknown]
    /\ cancelled = FALSE
    /\ pc = [w \in Probers |-> IF w = "initial" THEN "next" ELSE "wait"]
    /\ at = [w \in Probers |-> 1]
    /\ card = [w \in Probers |-> NoCard]
    /\ askPc = [c \in Askers |-> "idle"]
    /\ asked = [c \in Askers |-> Unknown]
    /\ dest = [c \in Askers |-> Unknown]

-----------------------------------------------------------------------------
(* The peers.                                                              *)

ComesUp(p, n) ==
    /\ ~up[p] /\ restarts < MaxRestarts
    /\ up' = [up EXCEPT ![p] = TRUE]
    /\ name' = [name EXCEPT ![p] = n]
    /\ borne' = [borne EXCEPT ![p] = @ \union {n}]
    /\ restarts' = restarts + 1
    /\ UNCHANGED <<known, cancelled, probes, asks>>

GoesDown(p) ==
    /\ up[p]
    /\ up' = [up EXCEPT ![p] = FALSE]
    /\ UNCHANGED <<name, borne, restarts, known, cancelled, probes, asks>>

-----------------------------------------------------------------------------
(* The probing goroutines.                                                 *)

Goto(w, l) == pc' = [pc EXCEPT ![w] = l]

Target(w) == PeerList[at[w]]

\* case <-ticker.C: a round from the start of the list.
Tick ==
    /\ pc["periodic"] = "wait"
    /\ Goto("periodic", "next")
    /\ at' = [at EXCEPT !["periodic"] = 1]
    /\ UNCHANGED <<world, known, cancelled, card, asks>>

\* A bug: only a round that got to its end looks at the context.
LoopEndsAfterRound ==
    /\ pc["periodic"] = "wait" /\ cancelled /\ at["periodic"] > Len(PeerList)
    /\ Goto("periodic", "returned")
    /\ UNCHANGED <<world, known, cancelled, at, card, asks>>

\* case <-ctx.Done() of backgroundProbe
LoopEnds ==
    /\ pc["periodic"] = "wait" /\ cancelled
    /\ Goto("periodic", "returned")
    /\ UNCHANGED <<world, known, cancelled, at, card, asks>>

\* A bug: the loop over the peers goes one too far.
SendProbePastEnd(w) ==
    /\ pc[w] = "next" /\ at[w] <= Len(PeerList) + 1 /\ ~cancelled
    /\ Goto(w, "asking")
    /\ UNCHANGED <<world, known, cancelled, at, card, asks>>

\* The request is sent, unless the context is already cancelled.
SendProbe(w) ==
    /\ pc[w] = "next" /\ at[w] <= Len(PeerList) /\ ~cancelled
    /\ Goto(w, "asking")
    /\ UNCHANGED <<world, known, cancelled, at, card, asks>>

RoundEnds(w) ==
    /\ pc[w] = "next" /\ (at[w] > Len(PeerList) \/ cancelled)
    /\ Goto(w, IF w = "periodic" THEN "wait" ELSE "returned")
    /\ UNCHANGED <<world, known, cancelled, at, card, asks>>

\* The peer answers with its card as it is now.
PeerAnswers(w) ==
    /\ pc[w] = "asking" /\ up[Target(w)]
    /\ Goto(w, "storing")
    /\ card' = [card EXCEPT ![w] = name[Target(w)]]
    /\ UNCHANGED <<world, known, cancelled, at, asks>>

\* On to the next peer, whatever came of this one.
NextPeer(w) ==
    /\ Goto(w, "next")
    /\ at' = [at EXCEPT ![w] = @ + 1]
    /\ card' = [card EXCEPT ![w] = NoCard]

\* A bug: the first peer that fails ends the round.
ProbeFailsRound(w) ==
    /\ pc[w] \in {"asking", "storing"}
    /\ Goto(w, "next")
    /\ at' = [at EXCEPT ![w] = Len(PeerList) + 1]
    /\ card' = [card EXCEPT ![w] = NoCard]
    /\ UNCHANGED <<world, known, cancelled, asks>>

\* No connection, a bad status or body, or 30 seconds without an answer.
ProbeFails(w) ==
    /\ pc[w] \in {"asking", "storing"}
    /\ NextPeer(w)
    /\ UNCHANGED <<world, known, cancelled, asks>>

\* A bug: the loop variable has moved on when the card is stored.
StoreCardLate(w) ==
    /\ pc[w] = "storing"
    /\ known' = [known EXCEPT ![PeerList[IF at[w] < Len(PeerList) THEN at[w] + 1 ELSE at[w]]] = card[w]]
    /\ NextPeer(w)
    /\ UNCHANGED <<world, cancelled, asks>>

\* a.knownPeers[peerURL] = card
StoreCard(w) ==
    /\ pc[w] = "storing"
    /\ known' = [known EXCEPT ![Target(w)] = card[w]]
    /\ NextPeer(w)
    /\ UNCHANGED <<world, cancelled, asks>>

Cancel ==
    /\ ~cancelled /\ cancelled' = TRUE
    /\ UNCHANGED <<world, known, probes, asks>>

-----------------------------------------------------------------------------
(* DelegateMessage, up to the sending.                                     *)

AskGoto(c, from, to) ==
    /\ askPc[c] = from
    /\ askPc' = [askPc EXCEPT ![c] = to]
    /\ UNCHANGED <<world, known, cancelled, probes>>

\* A bug: the first peer of the map is taken.
AnyCandidate(n) == {p \in Peers : known[p] # Unknown}

\* resolvePeer by name: any cached card with that name, in map order.
Candidates(n) == {p \in Peers : known[p] = n}

AskByName(c, n) ==
    /\ n \notin HttpNames
    /\ \/ /\ asked' = [asked EXCEPT ![c] = n]
          /\ \E p \in Candidates(n) :
                AskGoto(c, "idle", "sent") /\ dest' = [dest EXCEPT ![c] = p]
       \/ /\ Candidates(n) = {}
          /\ AskGoto(c, "idle", "notFound") /\ UNCHANGED <<asked, dest>>

\* Such a name is taken for a URL, and no peer is looked for that bears it.
AskByHttpName(c, n) ==
    /\ n \in HttpNames
    /\ AskGoto(c, "idle", "sent")
    /\ asked' = [asked EXCEPT ![c] = n]
    /\ UNCHANGED dest

\* A peer given by URL needs no entry in knownPeers.
AskByURL(c, p) ==
    /\ AskGoto(c, "idle", "sent")
    /\ dest' = [dest EXCEPT ![c] = p]
    /\ UNCHANGED asked

ProberSteps(w) == SendProbe(w) \/ RoundEnds(w) \/ PeerAnswers(w) \/ ProbeFails(w) \/ StoreCard(w)

Environment == Cancel \/ \E p \in Peers : GoesDown(p) \/ \E n \in Names : ComesUp(p, n)

AskSteps(c) ==
    \/ \E n \in Names : AskByName(c, n) \/ AskByHttpName(c, n)
    \/ \E p \in Peers : AskByURL(c, p)

DiscNext ==
    \/ Environment
    \/ Tick \/ LoopEnds \/ \E w \in Probers : ProberSteps(w)
    \/ \E c \in Askers : AskSteps(c)

DiscSpec == DiscInit /\ [][DiscNext]_discVars

\* Goroutines and the ticker run, a select picks at random, requests end by the
\* client's timeout, and an answer of a peer that is up gets through in time
\* again and again.
DiscFairness ==
    /\ WF_discVars(Tick) /\ SF_discVars(LoopEnds)
    /\ \A w \in Probers : WF_discVars(SendProbe(w) \/ RoundEnds(w) \/ ProbeFails(w) \/ StoreCard(w))
    /\ \A p \in Peers : /\ SF_discVars(PeerAnswers("periodic") /\ Target("periodic") = p)
                        /\ SF_discVars(StoreCard("periodic") /\ Target("periodic") = p)

DiscFairSpec == DiscSpec /\ DiscFairness
-----------------------------------------------------------------------------
(* Properties.                                                             *)

\* Ranges; and a goroutine holds a card only between answer and storing.
DiscTypeOK ==
    /\ up \in [Peers -> BOOLEAN] /\ name \in [Peers -> Names \union {Unknown}]
    /\ borne \in [Peers -> SUBSET Names] /\ restarts \in 0 .. MaxRestarts
    /\ known \in [Peers -> Names \union {Unknown}]
    /\ cancelled \in BOOLEAN
    /\ pc \in [Probers -> {"wait", "next", "asking", "storing", "returned"}]
    /\ at \in [Probers -> 1 .. Len(PeerList) + 1]
    /\ card \in [Probers -> Names \union {NoCard}]
    /\ askPc \in [Askers -> {"idle", "sent", "notFound"}]
    /\ asked \in [Askers -> Names \union {Unknown}]
    /\ dest \in [Askers -> Peers \union {Unknown}]
    /\ \A w \in Probers : pc[w] \in {"asking", "storing"} => at[w] <= Len(PeerList)

\* The cache never makes a peer up: whatever two probing rounds and restarts
\* interleave to, the name cached for a URL was served by that URL.
KnownWasTrue == \A p \in Peers : known[p] # Unknown => known[p] \in borne[p]

\* A message delegated by name is sent only to a peer that has borne it.
AskFindsBearer ==
    \A c \in Askers :
        (asked[c] # Unknown /\ dest[c] # Unknown) => asked[c] \in borne[dest[c]]

\* Discovery converges: a configured peer that stays up under one name is
\* finally known under it, whatever the other peers do and although an old
\* card may still be stored over a newer one (agent.go:540, client.go:129).
DiscoveryConverges ==
    \A i \in 1 .. Len(PeerList), n \in Names :
        LET p == PeerList[i] IN
        <>[](up[p] /\ name[p] = n /\ ~cancelled) => <>[](known[p] = n)

\* Cancelling the context ends both goroutines, whatever they wait for.
ProbingEnds == cancelled ~> \A w \in Probers : pc[w] = "returned"

=============================================================================
