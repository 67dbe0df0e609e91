-------------------------- MODULE A2AProtocol_proofs --------------------------
(***************************************************************************)
(* Proofs about calls between agents, for any number of agents, of calls,  *)
(* and of levels on which agents ask each other, and for any timeouts.     *)
(*                                                                         *)
(* The argument for WorkWithinDeadline: a step of the clock that took some *)
(* claude process past a deadline would take a first one in the numbering  *)
(* of calls, and a call is numbered after its parent.  For that one either *)
(* the client's timer or the CLI's is due, or the context of a live parent *)
(* has ended; each makes somebody busy, so the clock stands.               *)
(***************************************************************************)
EXTENDS A2AProtocol, WellFoundedInduction, SequenceTheorems, TLAPS

\* What a call is when it has not begun, and how its parts move together.
TreeInv ==
    \A c \in Calls :
        /\ client[c] = "idle" => server[c] = "none" /\ cli[c] = "none" /\ parent[c] = NoCall
        /\ client[c] = "waiting" => wire[c] # "none"
        /\ parent[c] # NoCall =>
              parent[c] \in Calls /\ parent[c] < c /\ cli[parent[c]] # "none"
        /\ cli[c] # "none" => server[c] \notin {"none", "accepted"}
        /\ cli[c] = "running" => server[c] \in {"working", "dead"}
        /\ (client[c] = "ended" /\ server[c] \in {"accepted", "working"}) => wire[c] = "cut"
        /\ wire[c] = "broken" => server[c] = "dead"

\* When a call's own timer ends it.
OwnDeadline(c) == IF caller[c] = "foreign" THEN MaxClock ELSE began[c] + ClientTimeout

\* The deadline of a call under way is its own, or that of its parent at work,
\* or its parent's work is over.
DeadlineInv ==
    \A c \in Calls : client[c] = "waiting" =>
        \/ deadline[c] = OwnDeadline(c)
        \/ /\ parent[c] # NoCall
           /\ \/ cli[parent[c]] # "running"
              \/ /\ server[parent[c]] = "working"
                 /\ deadline[c] \in {deadline[parent[c]], launched[parent[c]] + CLITimeout}

\* A call is taken up in time, if its body arrives.
AcceptedInTime ==
    \A c \in Calls : (server[c] = "accepted" /\ peer[c] \in Agents /\ body[c] # "stalled") =>
        clock <= deadline[c]

A2AInv == A2ATypeOK /\ TreeInv /\ DeadlineInv /\ WorkWithinDeadline /\ AcceptedInTime

USE DEF request, process, logs, a2aVars, NoCall, Nobody, AllBodies
-----------------------------------------------------------------------------
\* Every set of numbers that is not empty has a least element.
LEMMA LeastNumber ==
  ASSUME NEW T \in SUBSET Nat, T # {}
  PROVE  \E x \in T : \A y \in T : x <= y
<1> DEFINE R == OpToRel(<, Nat)
<1>1. IsWellFoundedOn(R, Nat)
  BY NatLessThanWellFounded
<1>2. \A x, y \in Nat : y < x => <<y, x>> \in R
  BY DEF OpToRel
<1> HIDE DEF R
<1>3. PICK x \in T : \A y \in T : ~(<<y, x>> \in R)
  BY <1>1, WFMin
<1>4. \A y \in T : x <= y
  <2> TAKE y \in T
  <2>1. x \in Nat /\ y \in Nat
    OBVIOUS
  <2>2. ~(y < x)
    BY <1>2, <1>3, <2>1
  <2> QED
    BY <2>1, <2>2
<1> QED
  BY <1>4

LEMMA MinIsLeast ==
  ASSUME NEW T \in SUBSET Nat, T # {}
  PROVE  Min(T) \in T /\ \A y \in T : Min(T) <= y
<1>1. \E x \in T : \A y \in T : x =< y
  BY LeastNumber
<1> QED
  BY <1>1 DEF Min

\* The deadline given to a new call.
LEMMA DeadlineOfNew ==
  ASSUME A2ATypeOK, WorkWithinDeadline, NEW who, NEW p \in Calls \union {NoCall},
         p # NoCall => cli[p] = "running",
         clock + ClientTimeout <= MaxClock, clock + CLITimeout <= MaxClock,
         NEW own, own = IF who = "foreign" THEN MaxClock ELSE clock + ClientTimeout
  PROVE  /\ DeadlineOf(who, p) \in 0 .. MaxClock
         /\ clock <= DeadlineOf(who, p)
         /\ \/ DeadlineOf(who, p) = own
            \/ /\ p # NoCall /\ server[p] = "working"
               /\ DeadlineOf(who, p) \in {deadline[p], launched[p] + CLITimeout}
<1> DEFINE T == {own} \union IF p # NoCall /\ server[p] = "working"
                             THEN {deadline[p], launched[p] + CLITimeout} ELSE {}
<1>1. /\ clock \in Nat /\ MaxClock \in Nat /\ ClientTimeout \in Nat /\ CLITimeout \in Nat
      /\ clock <= MaxClock
  BY ProtocolAssumption DEF A2ATypeOK
<1>2. own \in Nat /\ clock <= own /\ own <= MaxClock
  BY <1>1
<1>3. ASSUME p # NoCall, server[p] = "working"
      PROVE  /\ deadline[p] \in Nat /\ launched[p] + CLITimeout \in Nat
             /\ clock <= deadline[p] /\ clock <= launched[p] + CLITimeout
  BY <1>1, <1>3 DEF A2ATypeOK, WorkWithinDeadline
<1>4. T \subseteq Nat /\ own \in T /\ \A y \in T : clock <= y
  BY <1>2, <1>3
<1>5. DeadlineOf(who, p) = Min(T)
  BY DEF DeadlineOf
<1> HIDE DEF T
<1>6. Min(T) \in T /\ \A y \in T : Min(T) <= y
  BY <1>4, MinIsLeast
<1>7. Min(T) \in Nat /\ Min(T) <= own /\ clock <= Min(T)
  BY <1>4, <1>6
<1>8. Min(T) \in 0 .. MaxClock
  BY <1>1, <1>2, <1>7
<1> QED
  BY <1>5, <1>6, <1>7, <1>8 DEF T
-----------------------------------------------------------------------------
LEMMA InitA2AInv == A2AInit => A2AInv
<1> SUFFICES ASSUME A2AInit PROVE A2AInv
  OBVIOUS
<1>1. MaxClock \in Nat /\ MaxCrashes \in Nat
  BY ProtocolAssumption
<1> USE DEF A2AInit
<1>2. A2ATypeOK
  BY <1>1 DEF A2ATypeOK
<1>3. TreeInv
  BY DEF TreeInv
<1>4. DeadlineInv /\ WorkWithinDeadline /\ AcceptedInTime
  BY DEF DeadlineInv, WorkWithinDeadline, AcceptedInTime
<1> QED
  BY <1>2, <1>3, <1>4 DEF A2AInv

\* A new call, made by a person or by a claude process at work.
LEMMA BeginA2AInv ==
  ASSUME A2AInv, NEW c \in Calls, NEW who \in {"ping", "status", "ask", "foreign"},
         NEW what \in AllBodies, NEW p \in Calls \union {NoCall},
         p # NoCall => p < c /\ cli[p] = "running",
         Begin(c, who, what, p)
  PROVE  A2AInv'
<1> DEFINE own == IF who = "foreign" THEN MaxClock ELSE clock + ClientTimeout
<1>1. /\ DeadlineOf(who, p) \in 0 .. MaxClock
      /\ clock <= DeadlineOf(who, p)
      /\ \/ DeadlineOf(who, p) = own
         \/ /\ p # NoCall /\ server[p] = "working"
            /\ DeadlineOf(who, p) \in {deadline[p], launched[p] + CLITimeout}
  BY DeadlineOfNew DEF A2AInv, Begin
<1> DEFINE due == DeadlineOf(who, p)
<1>2. deadline' = [deadline EXCEPT ![c] = due]
  BY DEF Begin
<1> HIDE DEF due
<1>0. Callees[c] \subseteq Agents \union Strangers
  BY ProtocolAssumption
<1>3. PICK to \in Agents \union Strangers :
        /\ peer' = [peer EXCEPT ![c] = to]
        /\ \/ /\ client' = [client EXCEPT ![c] = "waiting"]
              /\ wire' = [wire EXCEPT ![c] = "open"]
              /\ server' = [server EXCEPT ![c] = "accepted"]
              /\ UNCHANGED outcome
           \/ /\ Ends(c, "failed")
              /\ UNCHANGED <<wire, server>>
  BY <1>0 DEF Begin
<1>4. client[c] = "idle" /\ server[c] = "none" /\ cli[c] = "none"
  BY DEF Begin, A2AInv, TreeInv
<1>5. A2ATypeOK'
  <2>1. caller' \in [Calls -> {Nobody, "ping", "status", "ask", "foreign"}]
        /\ parent' \in [Calls -> Calls \union {NoCall}]
        /\ body' \in [Calls -> AllBodies \union {"none"}]
        /\ began' \in [Calls -> 0 .. MaxClock]
    BY DEF Begin, A2AInv, A2ATypeOK
  <2>2. peer' \in [Calls -> Agents \union Strangers \union {Nobody}]
        /\ deadline' \in [Calls -> 0 .. MaxClock]
    BY <1>1, <1>2, <1>3 DEF due, A2AInv, A2ATypeOK
  <2>3. /\ client' \in [Calls -> {"idle", "waiting", "ended"}]
        /\ outcome' \in [Calls -> {"none", "success", "failed", "gaveUp"}]
        /\ wire' \in [Calls -> {"none", "open", "answered", "cut", "broken"}]
        /\ server' \in [Calls -> {"none", "accepted", "working", "replying", "done", "dead"}]
        /\ \A d \in Calls :
            /\ server'[d] = "replying" => reply[d] # "none"
            /\ wire'[d] = "answered" => server'[d] = "done"
            /\ ~(client'[d] = "waiting" /\ wire'[d] = "cut")
    BY <1>3, <1>4 DEF Ends, A2AInv, A2ATypeOK
  <2> QED
    BY <2>1, <2>2, <2>3 DEF Begin, A2AInv, A2ATypeOK
<1>6. parent' = [parent EXCEPT ![c] = p] /\ UNCHANGED <<clock, cli, launched>>
      /\ caller' = [caller EXCEPT ![c] = who] /\ began' = [began EXCEPT ![c] = clock]
      /\ body' = [body EXCEPT ![c] = what]
  BY DEF Begin
<1>7. \A d \in Calls : parent[d] # NoCall => parent[d] \in Calls /\ parent[d] # c
  BY <1>4 DEF A2AInv, TreeInv
<1>8. TreeInv'
  BY <1>3, <1>4, <1>6, <1>7 DEF Ends, A2AInv, A2ATypeOK, TreeInv
<1>9. DeadlineInv'
  <2> SUFFICES ASSUME NEW d \in Calls, client'[d] = "waiting"
               PROVE  \/ deadline'[d] = OwnDeadline(d)'
                      \/ /\ parent'[d] # NoCall
                         /\ \/ cli'[parent'[d]] # "running"
                            \/ /\ server'[parent'[d]] = "working"
                               /\ deadline'[d] \in {deadline'[parent'[d]],
                                                    launched'[parent'[d]] + CLITimeout}
    BY DEF DeadlineInv
  <2>1. CASE d = c
    <3>1. OwnDeadline(c)' = own /\ deadline'[c] = due /\ parent'[c] = p
      BY <1>2, <1>6 DEF OwnDeadline, A2AInv, A2ATypeOK
    <3>2. ASSUME p # NoCall
          PROVE  p \in Calls /\ p # c /\ server'[p] = server[p] /\ deadline'[p] = deadline[p]
      <4>1. p \in Calls /\ p # c
        BY <1>4, <3>2
      <4> QED
        BY <1>2, <1>3, <4>1 DEF A2AInv, A2ATypeOK
    <3> QED
      BY <1>1, <1>6, <2>1, <3>1, <3>2 DEF due
  <2>2. CASE d # c
    <3>1. /\ client[d] = "waiting" /\ deadline'[d] = deadline[d] /\ parent'[d] = parent[d]
          /\ OwnDeadline(d)' = OwnDeadline(d)
      BY <1>2, <1>3, <1>6, <2>2 DEF Ends, OwnDeadline, A2AInv, A2ATypeOK
    <3>2. parent[d] # NoCall => /\ deadline'[parent[d]] = deadline[parent[d]]
                                /\ server'[parent[d]] = server[parent[d]]
      BY <1>2, <1>3, <1>7 DEF A2AInv, A2ATypeOK
    <3> QED
      BY <1>6, <3>1, <3>2 DEF A2AInv, DeadlineInv
  <2> QED
    BY <2>1, <2>2
<1>10. WorkWithinDeadline' /\ AcceptedInTime'
  <2>1. WorkWithinDeadline'
    BY <1>1, <1>2, <1>3, <1>4, <1>6 DEF due, A2AInv, A2ATypeOK, WorkWithinDeadline
  <2>2. ASSUME NEW d \in Calls, server'[d] = "accepted", peer'[d] \in Agents, body'[d] # "stalled"
        PROVE  clock' <= deadline'[d]
    <3>1. CASE d = c
      BY <1>1, <1>2, <1>6, <3>1 DEF due, A2AInv, A2ATypeOK
    <3>2. CASE d # c
      <4>1. /\ server'[d] = server[d] /\ peer'[d] = peer[d] /\ body'[d] = body[d]
            /\ deadline'[d] = deadline[d]
        BY <1>2, <1>3, <1>6, <3>2 DEF A2AInv, A2ATypeOK
      <4> QED
        BY <1>6, <2>2, <4>1 DEF A2AInv, AcceptedInTime
    <3> QED
      BY <3>1, <3>2
  <2> QED
    BY <2>1, <2>2 DEF AcceptedInTime
<1> QED
  BY <1>5, <1>8, <1>9, <1>10 DEF A2AInv

\* A step of a call whose tree, deadlines and clock stay as they are, seen from
\* the calls below and above it.
LEMMA QuietStepKeepsDeadlines ==
  ASSUME A2AInv, UNCHANGED <<clock, caller, parent, peer, body, began, deadline, launched, cli>>,
         \A d \in Calls : client'[d] = "waiting" => client[d] = "waiting",
         \A d \in Calls : server[d] # "working" \/ cli[d] # "running" \/ server'[d] = "working",
         \A d \in Calls : server'[d] \in {"accepted", "working"} => server[d] = server'[d]
  PROVE  DeadlineInv' /\ WorkWithinDeadline' /\ AcceptedInTime'
<1>1. WorkWithinDeadline' /\ AcceptedInTime'
  BY DEF A2AInv, WorkWithinDeadline, AcceptedInTime
<1>2. \A d \in Calls : OwnDeadline(d)' = OwnDeadline(d)
  BY DEF OwnDeadline
<1>3. \A d \in Calls : parent[d] # NoCall => parent[d] \in Calls
  BY DEF A2AInv, TreeInv
<1> QED
  BY <1>1, <1>2, <1>3 DEF A2AInv, DeadlineInv

LEMMA ClientA2AInv ==
  ASSUME A2AInv, NEW c \in Calls, ClientSteps(c) \/ WalksAway(c)
  PROVE  A2AInv'
<1>1. CASE Receive(c)
  <2>1. A2ATypeOK' /\ TreeInv'
    BY <1>1 DEF Receive, Ends, A2AInv, A2ATypeOK, TreeInv
  <2>2. DeadlineInv' /\ WorkWithinDeadline' /\ AcceptedInTime'
    BY <1>1, QuietStepKeepsDeadlines DEF Receive, Ends, A2AInv, A2ATypeOK
  <2> QED
    BY <2>1, <2>2 DEF A2AInv
<1>2. CASE ReceiveFails(c)
  <2>1. A2ATypeOK' /\ TreeInv'
    BY <1>2 DEF ReceiveFails, Ends, A2AInv, A2ATypeOK, TreeInv
  <2>2. DeadlineInv' /\ WorkWithinDeadline' /\ AcceptedInTime'
    BY <1>2, QuietStepKeepsDeadlines DEF ReceiveFails, Ends, A2AInv, A2ATypeOK
  <2> QED
    BY <2>1, <2>2 DEF A2AInv
<1>3. CASE GivesUp(c)
  <2>1. A2ATypeOK' /\ TreeInv'
    BY <1>3 DEF GivesUp, Ends, A2AInv, A2ATypeOK, TreeInv
  <2>2. DeadlineInv' /\ WorkWithinDeadline' /\ AcceptedInTime'
    BY <1>3, QuietStepKeepsDeadlines DEF GivesUp, Ends, A2AInv, A2ATypeOK
  <2> QED
    BY <2>1, <2>2 DEF A2AInv
<1> QED
  BY <1>1, <1>2, <1>3 DEF ClientSteps, TimesOut, WalksAway

\* A handler that has just taken a call up starts a CLI, or not.
LEMMA LaunchA2AInv ==
  ASSUME A2AInv, NEW c \in Calls, Launch(c)
  PROVE  A2AInv'
<1>1. A2ATypeOK'
  BY DEF Launch, ServerGoto, A2AInv, A2ATypeOK
<1>2. cli[c] = "none" /\ \A d \in Calls : parent[d] # c
  BY ProtocolAssumption DEF Launch, ServerGoto, A2AInv, A2ATypeOK, TreeInv
<1>3. TreeInv'
  BY <1>2 DEF Launch, ServerGoto, A2AInv, A2ATypeOK, TreeInv
<1>4. DeadlineInv'
  <2> SUFFICES ASSUME NEW d \in Calls, client[d] = "waiting"
               PROVE  \/ deadline[d] = OwnDeadline(d)
                      \/ /\ parent[d] # NoCall
                         /\ \/ cli'[parent[d]] # "running"
                            \/ /\ server'[parent[d]] = "working"
                               /\ deadline[d] \in {deadline[parent[d]],
                                                   launched'[parent[d]] + CLITimeout}
    BY DEF DeadlineInv, OwnDeadline, Launch, ServerGoto
  <2>1. ASSUME parent[d] # NoCall
        PROVE  /\ cli'[parent[d]] = cli[parent[d]] /\ server'[parent[d]] = server[parent[d]]
               /\ launched'[parent[d]] = launched[parent[d]]
    <3>1. parent[d] \in Calls /\ parent[d] # c
      BY <1>2, <2>1 DEF A2AInv, TreeInv
    <3> QED
      BY <3>1 DEF Launch, ServerGoto, A2AInv, A2ATypeOK
  <2> QED
    BY <2>1 DEF A2AInv, DeadlineInv
<1>5. WorkWithinDeadline' /\ AcceptedInTime'
  <2>1. clock \in Nat /\ CLITimeout \in Nat /\ clock <= deadline[c]
    BY ProtocolAssumption DEF Launch, ServerGoto, A2AInv, A2ATypeOK, AcceptedInTime
  <2> QED
    BY <2>1 DEF Launch, ServerGoto, A2AInv, A2ATypeOK, WorkWithinDeadline, AcceptedInTime
<1> QED
  BY <1>1, <1>3, <1>4, <1>5 DEF A2AInv

\* Every other step of a handler ends its part of the work.
LEMMA HandlerA2AInv ==
  ASSUME A2AInv, NEW c \in Calls, HandlerSteps(c)
  PROVE  A2AInv'
<1>1. CASE AnswerAtOnce(c) \/ AnswerPing(c) \/ RejectMessage(c) \/ LaunchFails(c) \/ Finish(c)
  <2>1. /\ server[c] \in {"accepted", "working"} /\ server' = [server EXCEPT ![c] = "replying"]
        /\ reply' \in [Calls -> Replies \union {"none"}]
        /\ reply'[c] # "none" /\ \A d \in Calls \ {c} : reply'[d] = reply[d]
        /\ server[c] = "working" => cli[c] # "running"
        /\ UNCHANGED <<clock, up, crashes, request, client, outcome, wire, process, pilotLog>>
    <3>1. CASE AnswerAtOnce(c)
      <4>1. \A b \in DOMAIN Immediate : Immediate[b] \in Replies /\ Immediate[b] # "none"
        BY DEF Immediate, Replies, Refusals, Unparsed
      <4> QED
        BY <3>1, <4>1 DEF AnswerAtOnce, ServerGoto, Reply, A2AInv, A2ATypeOK
    <3> USE DEF Replies, Refusals, Messages
    <3>2. CASE AnswerPing(c)
      BY <3>2 DEF AnswerPing, ServerGoto, Reply, A2AInv, A2ATypeOK
    <3>3. CASE RejectMessage(c)
      BY <3>3 DEF RejectMessage, ServerGoto, Reply, A2AInv, A2ATypeOK
    <3>4. CASE LaunchFails(c)
      BY <3>4 DEF LaunchFails, ServerGoto, Reply, A2AInv, A2ATypeOK
    <3>5. CASE Finish(c)
      <4>1. CASE cli[c] = "answered" /\ Reply(c, "answer", <<"cli_response", "sent">>)
        BY <3>5, <4>1 DEF Finish, ServerGoto, Reply, A2AInv, A2ATypeOK
      <4>2. CASE cli[c] = "failed" /\ Reply(c, "2002", <<"cli_error">>)
        BY <3>5, <4>2 DEF Finish, ServerGoto, Reply, A2AInv, A2ATypeOK
      <4> QED
        BY <3>5, <4>1, <4>2 DEF Finish
    <3> QED
      BY <1>1, <3>1, <3>2, <3>3, <3>4, <3>5
  <2>2. A2ATypeOK' /\ TreeInv'
    BY <2>1 DEF A2AInv, A2ATypeOK, TreeInv
  <2>3. DeadlineInv' /\ WorkWithinDeadline' /\ AcceptedInTime'
    BY <2>1, QuietStepKeepsDeadlines DEF A2AInv, A2ATypeOK
  <2> QED
    BY <2>2, <2>3 DEF A2AInv
<1>2. CASE Launch(c)
  BY <1>2, LaunchA2AInv
<1>3. CASE Stop(c)
  <2>1. /\ server[c] = "working" /\ server' = [server EXCEPT ![c] = "replying"]
        /\ cli' = [cli EXCEPT ![c] = IF @ = "running" THEN "killed" ELSE @]
        /\ reply' = [reply EXCEPT ![c] = "2003"] /\ "2003" \in Replies
        /\ UNCHANGED <<clock, up, crashes, request, client, outcome, wire, launched, pilotLog>>
    BY <1>3 DEF Stop, ServerGoto, Reply, Replies, Refusals
  <2>2. A2ATypeOK' /\ TreeInv'
    BY <2>1 DEF A2AInv, A2ATypeOK, TreeInv
  <2>3. WorkWithinDeadline' /\ AcceptedInTime'
    BY <2>1 DEF A2AInv, A2ATypeOK, WorkWithinDeadline, AcceptedInTime
  <2>4. \A d \in Calls : (cli'[d] = "running" /\ server[d] = "working")
                         => cli[d] = "running" /\ server'[d] = "working"
    BY <2>1 DEF A2AInv, A2ATypeOK
  <2>5. \A d \in Calls : cli'[d] = "running" => cli[d] = "running"
    BY <2>1 DEF A2AInv, A2ATypeOK
  <2>6. \A d \in Calls : parent[d] # NoCall => parent[d] \in Calls
    BY DEF A2AInv, TreeInv
  <2>7. DeadlineInv'
    BY <2>1, <2>4, <2>5, <2>6 DEF A2AInv, DeadlineInv, OwnDeadline
  <2> QED
    BY <2>2, <2>3, <2>7 DEF A2AInv
<1>4. CASE WriteReply(c)
  <2>1. A2ATypeOK' /\ TreeInv'
    BY <1>4 DEF WriteReply, ServerGoto, A2AInv, A2ATypeOK, TreeInv
  <2>2. DeadlineInv' /\ WorkWithinDeadline' /\ AcceptedInTime'
    BY <1>4, QuietStepKeepsDeadlines DEF WriteReply, ServerGoto, A2AInv, A2ATypeOK
  <2> QED
    BY <2>1, <2>2 DEF A2AInv
<1> QED
  BY <1>1, <1>2, <1>3, <1>4 DEF HandlerSteps

\* A claude process ends by itself; a stranger answers.
LEMMA ExitA2AInv ==
  ASSUME A2AInv, NEW c \in Calls, NEW how \in {"answered", "failed"}, CLIExits(c, how)
  PROVE  A2AInv'
<1>1. A2ATypeOK' /\ TreeInv'
  BY DEF CLIExits, A2AInv, A2ATypeOK, TreeInv
<1>2. WorkWithinDeadline' /\ AcceptedInTime'
  BY DEF CLIExits, A2AInv, A2ATypeOK, WorkWithinDeadline, AcceptedInTime
<1>3. \A d \in Calls : cli'[d] = "running" => cli[d] = "running"
  BY DEF CLIExits, A2AInv, A2ATypeOK
<1>4. \A d \in Calls : parent[d] # NoCall => parent[d] \in Calls
  BY DEF A2AInv, TreeInv
<1>5. DeadlineInv'
  BY <1>3, <1>4 DEF CLIExits, A2AInv, DeadlineInv, OwnDeadline
<1> QED
  BY <1>1, <1>2, <1>5 DEF A2AInv

LEMMA StrangerA2AInv ==
  ASSUME A2AInv, NEW c \in Calls, NEW what \in StrangersBodies, StrangerAnswers(c, what)
  PROVE  A2AInv'
<1>1. what \in Replies /\ what # "none"
  BY DEF StrangersBodies, Replies, Messages, Refusals, Unparsed
<1>2. A2ATypeOK' /\ TreeInv'
  BY <1>1 DEF StrangerAnswers, A2AInv, A2ATypeOK, TreeInv
<1>3. DeadlineInv' /\ WorkWithinDeadline' /\ AcceptedInTime'
  BY QuietStepKeepsDeadlines DEF StrangerAnswers, A2AInv, A2ATypeOK
<1> QED
  BY <1>2, <1>3 DEF A2AInv

\* With an agent go its handlers and the calls its claude processes make; so
\* no call under way loses the deadline of a parent at work.
LEMMA CrashA2AInv ==
  ASSUME A2AInv, NEW a \in Agents, Crash(a)
  PROVE  A2AInv'
<1> DEFINE served == {c \in Calls : peer[c] = a /\ Alive(c)}
           asking == {c \in Calls : /\ parent[c] # NoCall /\ peer[parent[c]] = a
                                    /\ client[c] = "waiting"}
<1>1. /\ server' = [c \in Calls |-> IF c \in served THEN "dead" ELSE server[c]]
      /\ client' = [c \in Calls |-> IF c \in asking THEN "ended" ELSE client[c]]
      /\ outcome' = [c \in Calls |-> IF c \in asking THEN "gaveUp" ELSE outcome[c]]
      /\ wire' = [c \in Calls |-> IF wire[c] # "open" THEN wire[c]
                                  ELSE IF c \in asking THEN "cut"
                                  ELSE IF c \in served THEN "broken" ELSE "open"]
      /\ up' = up \ {a} /\ crashes < MaxCrashes /\ crashes' = crashes + 1
      /\ UNCHANGED <<clock, request, process, reply, logs>>
  BY DEF Crash
<1>2. \A c \in Calls : c \in served => server[c] \in {"accepted", "working", "replying"}
  BY DEF Alive
<1>3. \A c \in Calls : c \in asking => client[c] = "waiting"
  OBVIOUS
<1>4. \A c \in Calls : client'[c] = "waiting" => c \notin asking /\ client[c] = "waiting"
  BY <1>1
<1>5. \A c, d \in Calls : (client'[c] = "waiting" /\ parent[c] = d /\ d # NoCall
                           /\ server[d] = "working") => server'[d] = "working"
  BY <1>1, <1>4
<1> HIDE DEF served, asking
<1>6. A2ATypeOK'
  <2>1. crashes' \in 0 .. MaxCrashes
    BY <1>1, ProtocolAssumption DEF A2AInv, A2ATypeOK
  <2>2. /\ client' \in [Calls -> {"idle", "waiting", "ended"}]
        /\ outcome' \in [Calls -> {"none", "success", "failed", "gaveUp"}]
        /\ wire' \in [Calls -> {"none", "open", "answered", "cut", "broken"}]
        /\ server' \in [Calls -> {"none", "accepted", "working", "replying", "done", "dead"}]
    BY <1>1 DEF A2AInv, A2ATypeOK
  <2>3. \A c \in Calls :
            /\ server'[c] = "replying" => reply'[c] # "none"
            /\ wire'[c] = "answered" => server'[c] = "done"
            /\ ~(client'[c] = "waiting" /\ wire'[c] = "cut")
    BY <1>1, <1>2, <1>3 DEF A2AInv, A2ATypeOK
  <2> QED
    BY <1>1, <2>1, <2>2, <2>3 DEF A2AInv, A2ATypeOK
<1>7. TreeInv'
  BY <1>1, <1>2, <1>3 DEF A2AInv, A2ATypeOK, TreeInv
<1>8. DeadlineInv'
  <2>1. \A c \in Calls : parent[c] # NoCall => parent[c] \in Calls
    BY DEF A2AInv, TreeInv
  <2> QED
    BY <1>1, <1>4, <1>5, <2>1 DEF A2AInv, DeadlineInv, OwnDeadline
<1>9. WorkWithinDeadline' /\ AcceptedInTime'
  BY <1>1 DEF A2AInv, WorkWithinDeadline, AcceptedInTime
<1> QED
  BY <1>6, <1>7, <1>8, <1>9 DEF A2AInv

\* While nobody is busy, every claude process at work for a live handler has
\* time left.
LEMMA TimeLeft ==
  ASSUME A2AInv, clock < MaxClock, \A c \in Calls : ~Busy(c)
  PROVE  \A c \in Calls : (server[c] = "working" /\ cli[c] = "running") =>
            clock < deadline[c] /\ clock < launched[c] + CLITimeout
<1>1. /\ clock \in Nat /\ MaxClock \in Nat /\ ClientTimeout \in Nat /\ CLITimeout \in Nat
      /\ Calls \subseteq Nat
      /\ \A c \in Calls : deadline[c] \in Nat /\ launched[c] \in Nat /\ began[c] \in Nat
  BY ProtocolAssumption DEF A2AInv, A2ATypeOK
<1>2. \A c \in Calls : (server[c] = "working" /\ cli[c] = "running") =>
            clock < launched[c] + CLITimeout
  BY <1>1 DEF Busy, CLIDue
<1> DEFINE Late == {c \in Calls : server[c] = "working" /\ cli[c] = "running"
                                  /\ deadline[c] <= clock}
<1>3. ASSUME Late # {} PROVE FALSE
  <2>1. Late \in SUBSET Nat
    BY <1>1
  <2>2. PICK c \in Late : \A d \in Late : c <= d
    <3> HIDE DEF Late
    <3> QED
      BY <1>3, <2>1, LeastNumber
  <2>3. c \in Calls /\ server[c] = "working" /\ cli[c] = "running" /\ deadline[c] <= clock
    OBVIOUS
  <2>4. client[c] = "waiting"
    <3>1. wire[c] # "cut"
      BY <2>3 DEF Busy, HandlerCancelled
    <3> QED
      BY <2>3, <3>1 DEF A2AInv, A2ATypeOK, TreeInv
  <2>5. ~ClientDue(c) /\ ~AskCancelled(c)
    BY <2>3, <2>4 DEF Busy
  <2>6. clock < OwnDeadline(c)
    BY <1>1, <2>3, <2>5 DEF ClientDue, OwnDeadline
  <2>7. parent[c] # NoCall /\ server[parent[c]] = "working" /\ cli[parent[c]] = "running"
        /\ deadline[c] \in {deadline[parent[c]], launched[parent[c]] + CLITimeout}
    BY <1>1, <2>3, <2>4, <2>5, <2>6 DEF A2AInv, DeadlineInv, AskCancelled, OwnDeadline
  <2>8. parent[c] \in Calls /\ parent[c] < c
    BY <2>3, <2>7 DEF A2AInv, TreeInv
  <2>9. deadline[c] = deadline[parent[c]]
    <3>1. clock < launched[parent[c]] + CLITimeout
      BY <1>2, <2>7, <2>8
    <3>2. launched[parent[c]] \in Nat /\ CLITimeout \in Nat
      BY <1>1, <2>8
    <3> QED
      BY <1>1, <2>3, <2>7, <3>1, <3>2
  <2>10. parent[c] \in Late
    BY <2>3, <2>7, <2>8, <2>9
  <2>11. c <= parent[c]
    BY <2>2, <2>10
  <2>12. c \in Nat /\ parent[c] \in Nat
    BY <1>1, <2>3, <2>8
  <2> QED
    BY <2>8, <2>11, <2>12
<1>4. \A c \in Calls : (server[c] = "working" /\ cli[c] = "running") => clock < deadline[c]
  BY <1>1, <1>3
<1> QED
  BY <1>2, <1>4

LEMMA TickA2AInv == A2AInv /\ Tick => A2AInv'
<1> SUFFICES ASSUME A2AInv, Tick PROVE A2AInv'
  OBVIOUS
<1>1. /\ clock \in Nat /\ MaxClock \in Nat /\ CLITimeout \in Nat
      /\ \A c \in Calls : deadline[c] \in Nat /\ launched[c] \in Nat
  BY ProtocolAssumption DEF A2AInv, A2ATypeOK
<1>2. clock < MaxClock /\ clock' = clock + 1 /\ \A c \in Calls : ~Busy(c)
  BY DEF Tick
<1>3. A2ATypeOK' /\ TreeInv' /\ DeadlineInv'
  BY <1>1, <1>2 DEF Tick, A2AInv, A2ATypeOK, TreeInv, DeadlineInv, OwnDeadline
<1>4. WorkWithinDeadline'
  BY <1>1, <1>2, TimeLeft DEF Tick, WorkWithinDeadline
<1>5. AcceptedInTime'
  BY <1>1, <1>2 DEF Tick, Busy, Held, AcceptedInTime
<1> QED
  BY <1>3, <1>4, <1>5 DEF A2AInv

\* The inductive invariant holds in every reachable state.
THEOREM A2AInvHolds == A2ASpec => []A2AInv
<1>1. A2AInit => A2AInv
  BY InitA2AInv
<1>2. A2AInv /\ [A2ANext]_a2aVars => A2AInv'
  <2> SUFFICES ASSUME A2AInv, [A2ANext]_a2aVars
               PROVE  A2AInv'
    OBVIOUS
  <2>1. CASE UNCHANGED a2aVars
    BY <2>1 DEF A2AInv, A2ATypeOK, TreeInv, DeadlineInv, OwnDeadline, WorkWithinDeadline,
                AcceptedInTime
  <2>2. CASE Tick
    BY <2>2, TickA2AInv
  <2>3. ASSUME NEW a \in Agents, Crash(a) PROVE A2AInv'
    BY <2>3, CrashA2AInv
  <2>4. ASSUME NEW a \in Agents, ComesBack(a) PROVE A2AInv'
    BY <2>4 DEF ComesBack, A2AInv, A2ATypeOK, TreeInv, DeadlineInv, OwnDeadline,
                WorkWithinDeadline, AcceptedInTime
  <2>5. ASSUME NEW c \in Calls, PingCommand(c) \/ StatusCommand(c) PROVE A2AInv'
    BY <2>5, BeginA2AInv DEF PingCommand, StatusCommand
  <2>6. ASSUME NEW c \in Calls, NEW what \in Bodies, ForeignCall(c, what) PROVE A2AInv'
    BY <2>6, BeginA2AInv, ProtocolAssumption DEF ForeignCall
  <2>7. ASSUME NEW c \in Calls, NEW what \in {"ping", "text"}, Ask(c, what) PROVE A2AInv'
    BY <2>7, BeginA2AInv DEF Ask
  <2>8. ASSUME NEW c \in Calls, NEW what \in {"ping", "text"}, NEW p \in Calls,
               CLIAsks(c, what, p)
        PROVE  A2AInv'
    BY <2>8, BeginA2AInv DEF CLIAsks
  <2>9. ASSUME NEW c \in Calls, ClientSteps(c) \/ WalksAway(c) PROVE A2AInv'
    BY <2>9, ClientA2AInv
  <2>10. ASSUME NEW c \in Calls, HandlerSteps(c) PROVE A2AInv'
    BY <2>10, HandlerA2AInv
  <2>11. ASSUME NEW c \in Calls, NEW how \in {"answered", "failed"}, CLIExits(c, how)
         PROVE  A2AInv'
    BY <2>11, ExitA2AInv
  <2>12. ASSUME NEW c \in Calls, NEW what \in StrangersBodies, StrangerAnswers(c, what)
         PROVE  A2AInv'
    BY <2>12, StrangerA2AInv
  <2> QED
    BY <2>1, <2>2, <2>3, <2>4, <2>5, <2>6, <2>7, <2>8, <2>9, <2>10, <2>11, <2>12 DEF A2ANext
<1> QED
  BY <1>1, <1>2, PTL DEF A2ASpec

\* Type correctness of the calls between agents (client.go:45, server.go:194).
THEOREM A2ATypeCorrect == A2ASpec => []A2ATypeOK
<1>1. A2AInv => A2ATypeOK
  BY DEF A2AInv
<1> QED
  BY <1>1, A2AInvHolds, PTL

\* No claude process of a live agent works past a deadline of its call or of a
\* call above it, on however many levels agents ask each other (client.go:33,
\* cli.go:94, server.go:243).
THEOREM WorkWithinDeadlineHolds == A2ASpec => []WorkWithinDeadline
<1>1. A2AInv => WorkWithinDeadline
  BY DEF A2AInv
<1> QED
  BY <1>1, A2AInvHolds, PTL
-----------------------------------------------------------------------------
(* The two logs of a call.                                                 *)

PilotInv ==
    \A c \in Calls :
        /\ outcome[c] = "success" => client[c] = "ended" /\ server[c] = "done"
        /\ caller[c] = "ping" => body[c] = "ping"
        /\ caller[c] = "ask" => body[c] \in {"ping", "text"}
        /\ (client[c] = "waiting" /\ caller[c] \in {"ping", "ask"}) => pilotLog[c] = <<"out">>

\* What an agent has answered it has recorded.
MateInv ==
    \A c \in Calls :
        /\ server[c] \in {"none", "accepted"} => mateLog[c] = <<>>
        /\ peer[c] \in Agents =>
            /\ server[c] = "working" =>
                  body[c] = "text" /\ mateLog[c] = <<"received", "cli_request">>
            /\ server[c] \in {"replying", "done"} =>
                  /\ reply[c] \notin {"otherText", "noResult"}
                  /\ reply[c] = "pong" => body[c] = "ping" /\ mateLog[c] = <<"received", "sent">>
                  /\ reply[c] = "answer" =>
                        /\ body[c] = "text"
                        /\ mateLog[c] = <<"received", "cli_request", "cli_response", "sent">>

LogsAreFunctions ==
    pilotLog = [c \in Calls |-> pilotLog[c]] /\ mateLog = [c \in Calls |-> mateLog[c]]

LogInv == LogsAreFunctions /\ PilotInv /\ MateInv /\ SuccessIsLogged

USE DEF LogsAreFunctions

LEMMA OutThenIn == Append(<<"out">>, "in") = <<"out", "in">>
<1> DEFINE S == {"out", "in"}
           s == <<"out">>
           u == Append(s, "in")
           v == <<"out", "in">>
<1>1. s \in Seq(S) /\ v \in Seq(S) /\ "in" \in S
  OBVIOUS
<1>2. Len(s) = 1 /\ s[1] = "out" /\ Len(v) = 2 /\ v[1] = "out" /\ v[2] = "in"
  OBVIOUS
<1> HIDE DEF S, s, v
<1>3. /\ u \in Seq(S) /\ Len(u) = Len(s) + 1 /\ u[Len(s) + 1] = "in"
      /\ \A i \in 1 .. Len(s) : u[i] = s[i]
  BY <1>1, AppendProperties
<1> HIDE DEF u
<1>4. Len(u) = Len(v) /\ \A i \in 1 .. Len(u) : u[i] = v[i]
  BY <1>2, <1>3
<1>5. u = v
  BY <1>1, <1>3, <1>4, SeqEqual
<1> QED
  BY <1>5 DEF u, s, v

LEMMA RequestThenResponse ==
  <<"received", "cli_request">> \o <<"cli_response", "sent">>
    = <<"received", "cli_request", "cli_response", "sent">>
<1> DEFINE S == {"received", "cli_request", "cli_response", "sent"}
           s == <<"received", "cli_request">>
           t == <<"cli_response", "sent">>
           u == s \o t
           v == <<"received", "cli_request", "cli_response", "sent">>
<1>1. s \in Seq(S) /\ t \in Seq(S) /\ v \in Seq(S)
  OBVIOUS
<1>2. /\ Len(s) = 2 /\ s[1] = "received" /\ s[2] = "cli_request"
      /\ Len(t) = 2 /\ t[1] = "cli_response" /\ t[2] = "sent"
      /\ Len(v) = 4 /\ v[1] = "received" /\ v[2] = "cli_request"
      /\ v[3] = "cli_response" /\ v[4] = "sent"
  OBVIOUS
<1> HIDE DEF S, s, t, v
<1>3. /\ u \in Seq(S) /\ Len(u) = Len(s) + Len(t)
      /\ \A i \in 1 .. Len(s) + Len(t) : u[i] = IF i <= Len(s) THEN s[i] ELSE t[i - Len(s)]
  BY <1>1, ConcatProperties
<1> HIDE DEF u
<1>4. Len(u) = Len(v) /\ \A i \in 1 .. Len(u) : u[i] = v[i]
  BY <1>2, <1>3
<1>5. u = v
  BY <1>1, <1>3, <1>4, SeqEqual
<1> QED
  BY <1>5 DEF u, s, t, v

LEMMA InitLogInv == A2AInit => LogInv
  BY DEF A2AInit, LogInv, PilotInv, MateInv, SuccessIsLogged

LEMMA BeginLogInv ==
  ASSUME A2AInv, LogInv, NEW c \in Calls, NEW who \in {"ping", "status", "ask", "foreign"},
         NEW what \in AllBodies, NEW p \in Calls \union {NoCall},
         who = "ping" => what = "ping", who = "ask" => what \in {"ping", "text"},
         Begin(c, who, what, p)
  PROVE  LogInv'
<1>1. client[c] = "idle" /\ server[c] = "none" /\ outcome[c] # "success"
  BY DEF Begin, A2AInv, TreeInv, LogInv, PilotInv
<1>0. Callees[c] \subseteq Agents \union Strangers
  BY ProtocolAssumption
<1>2. PICK to \in Agents \union Strangers :
        /\ peer' = [peer EXCEPT ![c] = to]
        /\ \/ /\ client' = [client EXCEPT ![c] = "waiting"]
              /\ wire' = [wire EXCEPT ![c] = "open"]
              /\ server' = [server EXCEPT ![c] = "accepted"]
              /\ UNCHANGED outcome
           \/ /\ Ends(c, "failed")
              /\ UNCHANGED <<wire, server>>
  BY <1>0 DEF Begin
<1>3. /\ caller' = [caller EXCEPT ![c] = who] /\ body' = [body EXCEPT ![c] = what]
      /\ pilotLog' = [pilotLog EXCEPT ![c] = IF who \in {"ping", "ask"} THEN <<"out">> ELSE @]
      /\ UNCHANGED <<mateLog, reply>>
  BY DEF Begin
<1>4. \A d \in Calls \ {c} : /\ client'[d] = client[d] /\ server'[d] = server[d]
                             /\ outcome'[d] = outcome[d] /\ peer'[d] = peer[d]
                             /\ caller'[d] = caller[d] /\ body'[d] = body[d]
                             /\ pilotLog'[d] = pilotLog[d]
  BY <1>2, <1>3 DEF Ends, A2AInv, A2ATypeOK, LogInv
<1>5. /\ caller'[c] = who /\ body'[c] = what /\ outcome'[c] # "success"
      /\ server'[c] \in {"none", "accepted"}
      /\ who \in {"ping", "ask"} => pilotLog'[c] = <<"out">>
  BY <1>1, <1>2, <1>3 DEF Ends, A2AInv, A2ATypeOK, LogInv
<1>6. LogsAreFunctions'
  BY <1>3 DEF LogInv
<1>7. PilotInv'
  BY <1>4, <1>5 DEF LogInv, PilotInv
<1>8. MateInv'
  <2>1. mateLog[c] = <<>>
    BY <1>1 DEF LogInv, MateInv
  <2>2. ASSUME NEW d \in Calls, d # c
        PROVE  MateInv!(d)'
    BY <1>3, <1>4, <2>2 DEF LogInv, MateInv
  <2>3. MateInv!(c)'
    BY <1>3, <1>5, <2>1 DEF LogInv, MateInv
  <2> QED
    BY <2>2, <2>3 DEF MateInv
<1>9. SuccessIsLogged'
  BY <1>3, <1>4, <1>5 DEF LogInv, SuccessIsLogged
<1> QED
  BY <1>6, <1>7, <1>8, <1>9 DEF LogInv

LEMMA ClientLogInv ==
  ASSUME A2AInv, LogInv, NEW c \in Calls, ClientSteps(c) \/ WalksAway(c)
  PROVE  LogInv'
<1>1. CASE Receive(c)
  <2>1. /\ client[c] = "waiting" /\ server[c] = "done"
        /\ UNCHANGED <<caller, peer, body, server, reply, mateLog>>
        /\ client' = [client EXCEPT ![c] = "ended"]
        /\ outcome' = [outcome EXCEPT ![c] = IF Accepts(c) THEN "success" ELSE "failed"]
        /\ pilotLog' = [pilotLog EXCEPT ![c] = IF Recorded(c) THEN Append(@, "in") ELSE @]
    BY <1>1 DEF Receive, Ends, A2AInv, A2ATypeOK
  <2>2. ASSUME outcome'[c] = "success", caller[c] \in {"ping", "ask"}
        PROVE  /\ pilotLog'[c] = <<"out", "in">>
               /\ reply[c] \in Messages
               /\ caller[c] = "ping" => reply[c] = "pong"
    <3>1. Accepts(c)
      BY <2>1, <2>2 DEF A2AInv, A2ATypeOK
    <3>2. /\ reply[c] \in Messages
          /\ caller[c] = "ping" => reply[c] = "pong"
      BY <2>2, <3>1 DEF Accepts, Messages
    <3>3. Recorded(c)
      BY <2>2, <3>1 DEF Accepts, Recorded, Messages, Unparsed
    <3>4. pilotLog[c] = <<"out">>
      BY <2>1, <2>2 DEF LogInv, PilotInv
    <3>5. pilotLog'[c] = Append(<<"out">>, "in")
      BY <2>1, <3>3, <3>4 DEF LogInv
    <3> QED
      BY <3>2, <3>5, OutThenIn
  <2>3. \A d \in Calls \ {c} : /\ client'[d] = client[d] /\ outcome'[d] = outcome[d]
                               /\ pilotLog'[d] = pilotLog[d]
    BY <2>1 DEF A2AInv, A2ATypeOK, LogInv
  <2>4. client'[c] = "ended"
    BY <2>1 DEF A2AInv, A2ATypeOK
  <2>5. LogsAreFunctions' /\ PilotInv' /\ MateInv'
    <3>1. LogsAreFunctions'
      BY <2>1 DEF LogInv
    <3>2. PilotInv'
      <4>1. ASSUME NEW d \in Calls, d # c
            PROVE  PilotInv!(d)'
        BY <2>1, <2>3, <4>1 DEF LogInv, PilotInv
      <4>2. PilotInv!(c)'
        BY <2>1, <2>4 DEF LogInv, PilotInv
      <4> QED
        BY <4>1, <4>2 DEF PilotInv
    <3>3. MateInv'
      BY <2>1 DEF LogInv, MateInv
    <3> QED
      BY <3>1, <3>2, <3>3
  <2>6. ASSUME NEW d \in Calls, outcome'[d] = "success", caller[d] \in {"ping", "ask"}
        PROVE  /\ pilotLog'[d] = <<"out", "in">>
               /\ peer[d] \in Agents =>
                    mateLog[d] = IF body[d] = "ping" THEN <<"received", "sent">>
                                 ELSE <<"received", "cli_request", "cli_response", "sent">>
               /\ caller[d] = "ping" => reply[d] = "pong"
    <3>1. CASE d # c
      BY <2>3, <2>6, <3>1 DEF LogInv, SuccessIsLogged
    <3>2. CASE d = c
      <4>1. /\ pilotLog'[c] = <<"out", "in">>
            /\ reply[c] \in Messages
            /\ caller[c] = "ping" => reply[c] = "pong"
        BY <2>2, <2>6, <3>2
      <4>2. ASSUME peer[c] \in Agents
            PROVE  mateLog[c] = IF body[c] = "ping" THEN <<"received", "sent">>
                                ELSE <<"received", "cli_request", "cli_response", "sent">>
        <5>1. reply[c] \in {"pong", "answer"}
          BY <2>1, <4>1, <4>2 DEF LogInv, MateInv, Messages
        <5> QED
          BY <2>1, <4>2, <5>1 DEF LogInv, MateInv
      <4> QED
        BY <3>2, <4>1, <4>2
    <3> QED
      BY <3>1, <3>2
  <2>7. SuccessIsLogged'
    BY <2>1, <2>6 DEF SuccessIsLogged
  <2> QED
    BY <2>5, <2>7 DEF LogInv
<1>2. CASE ReceiveFails(c) \/ GivesUp(c)
  <2>1. /\ UNCHANGED <<caller, peer, body, server, reply, logs>>
        /\ client' = [client EXCEPT ![c] = "ended"] /\ client[c] = "waiting"
        /\ \E result \in {"failed", "gaveUp"} : outcome' = [outcome EXCEPT ![c] = result]
    BY <1>2 DEF ReceiveFails, GivesUp, Ends
  <2>2. /\ \A d \in Calls : outcome'[d] = "success" => outcome[d] = "success" /\ d # c
        /\ \A d \in Calls : client'[d] = "waiting" => client[d] = "waiting"
        /\ \A d \in Calls : client[d] = "ended" => client'[d] = "ended"
    BY <2>1 DEF A2AInv, A2ATypeOK
  <2> QED
    BY <2>1, <2>2 DEF LogInv, PilotInv, MateInv, SuccessIsLogged
<1> QED
  BY <1>1, <1>2 DEF ClientSteps, TimesOut, WalksAway

LEMMA HandlerLogInv ==
  ASSUME A2AInv, LogInv, NEW c \in Calls, HandlerSteps(c)
  PROVE  LogInv'
<1>1. /\ server[c] \in {"accepted", "working", "replying"} /\ peer[c] \in Agents
      /\ UNCHANGED <<caller, peer, body, client, outcome, pilotLog>>
      /\ \A d \in Calls \ {c} : /\ server'[d] = server[d] /\ reply'[d] = reply[d]
                                /\ mateLog'[d] = mateLog[d]
      /\ server'[c] \in {"working", "replying", "done"}
      /\ mateLog' = [d \in Calls |-> mateLog'[d]]
  BY DEF HandlerSteps, AnswerAtOnce, AnswerPing, RejectMessage, Launch, LaunchFails, Finish,
         Stop, WriteReply, ServerGoto, Reply, A2AInv, A2ATypeOK, LogInv
<1>2. outcome[c] # "success"
  BY <1>1 DEF LogInv, PilotInv
<1>3. LogsAreFunctions' /\ PilotInv' /\ SuccessIsLogged'
  BY <1>1, <1>2 DEF LogInv, PilotInv, SuccessIsLogged
<1> DEFINE Kept ==
        /\ server'[c] = "working" =>
              body[c] = "text" /\ mateLog'[c] = <<"received", "cli_request">>
        /\ server'[c] \in {"replying", "done"} =>
              /\ reply'[c] \notin {"otherText", "noResult"}
              /\ reply'[c] = "pong" => body[c] = "ping" /\ mateLog'[c] = <<"received", "sent">>
              /\ reply'[c] = "answer" =>
                    /\ body[c] = "text"
                    /\ mateLog'[c] = <<"received", "cli_request", "cli_response", "sent">>
<1>4. server[c] = "accepted" => mateLog[c] = <<>>
  BY DEF LogInv, MateInv
<1>5. Kept
  <2>1. CASE AnswerAtOnce(c)
    <3>1. reply'[c] \in {"card", "405", "-32603", "-32700", "-32600", "-32602"}
      BY <2>1 DEF AnswerAtOnce, Immediate, Reply, A2AInv, A2ATypeOK
    <3>2. server'[c] = "replying"
      BY <2>1 DEF AnswerAtOnce, ServerGoto, A2AInv, A2ATypeOK
    <3> QED
      BY <3>1, <3>2
  <2>2. CASE AnswerPing(c)
    <3>1. body[c] = "ping" /\ server'[c] = "replying" /\ reply'[c] = "pong"
          /\ mateLog'[c] = <<>> \o <<"received", "sent">>
      BY <1>4, <2>2 DEF AnswerPing, ServerGoto, Reply, A2AInv, A2ATypeOK, LogInv
    <3>2. <<>> \o <<"received", "sent">> = <<"received", "sent">>
      OBVIOUS
    <3> QED
      BY <3>1, <3>2
  <2>3. CASE RejectMessage(c) \/ LaunchFails(c)
    <3>1. server'[c] = "replying" /\ reply'[c] \in {"-32602", "2001"}
      BY <2>3 DEF RejectMessage, LaunchFails, ServerGoto, Reply, A2AInv, A2ATypeOK
    <3> QED
      BY <3>1
  <2>4. CASE Launch(c)
    <3>1. body[c] = "text" /\ server'[c] = "working"
          /\ mateLog'[c] = <<>> \o <<"received", "cli_request">>
      BY <1>4, <2>4 DEF Launch, ServerGoto, A2AInv, A2ATypeOK, LogInv
    <3>2. <<>> \o <<"received", "cli_request">> = <<"received", "cli_request">>
      OBVIOUS
    <3> QED
      BY <3>1, <3>2
  <2>5. CASE Finish(c)
    <3>1. /\ server[c] = "working" /\ server'[c] = "replying" /\ body[c] = "text"
          /\ mateLog[c] = <<"received", "cli_request">>
      BY <1>1, <2>5 DEF Finish, ServerGoto, A2AInv, A2ATypeOK, LogInv, MateInv
    <3>2. CASE Reply(c, "answer", <<"cli_response", "sent">>)
      <4>1. reply'[c] = "answer"
            /\ mateLog'[c] = <<"received", "cli_request">> \o <<"cli_response", "sent">>
        BY <3>1, <3>2 DEF Reply, A2AInv, A2ATypeOK, LogInv
      <4> QED
        BY <3>1, <4>1, RequestThenResponse
    <3>3. CASE Reply(c, "2002", <<"cli_error">>)
      <4>1. reply'[c] = "2002"
        BY <3>3 DEF Reply, A2AInv, A2ATypeOK
      <4> QED
        BY <3>1, <4>1
    <3> QED
      BY <2>5, <3>2, <3>3 DEF Finish
  <2>6. CASE Stop(c)
    <3>1. server'[c] = "replying" /\ reply'[c] = "2003"
      BY <2>6 DEF Stop, ServerGoto, Reply, A2AInv, A2ATypeOK
    <3> QED
      BY <3>1
  <2>7. CASE WriteReply(c)
    <3>1. server[c] = "replying" /\ server'[c] = "done" /\ UNCHANGED <<reply, mateLog>>
      BY <2>7 DEF WriteReply, ServerGoto, A2AInv, A2ATypeOK
    <3> QED
      BY <1>1, <3>1 DEF LogInv, MateInv
  <2> QED
    BY <2>1, <2>2, <2>3, <2>4, <2>5, <2>6, <2>7 DEF HandlerSteps
<1>6. MateInv'
  BY <1>1, <1>5 DEF LogInv, MateInv
<1> QED
  BY <1>3, <1>6 DEF LogInv

LEMMA EnvironmentLogInv ==
  ASSUME A2AInv, LogInv,
         \/ Tick
         \/ \E a \in Agents : Crash(a) \/ ComesBack(a)
         \/ \E c \in Calls, how \in {"answered", "failed"} : CLIExits(c, how)
         \/ \E c \in Calls, what \in StrangersBodies : StrangerAnswers(c, what)
  PROVE  LogInv'
<1>1. CASE Tick \/ (\E a \in Agents : ComesBack(a))
           \/ (\E c \in Calls, how \in {"answered", "failed"} : CLIExits(c, how))
  <2>1. UNCHANGED <<caller, peer, body, client, outcome, server, reply, logs>>
    BY <1>1 DEF Tick, ComesBack, CLIExits
  <2> QED
    BY <2>1 DEF LogInv, PilotInv, MateInv, SuccessIsLogged
<1>2. ASSUME NEW a \in Agents, Crash(a) PROVE LogInv'
  <2>1. UNCHANGED <<caller, peer, body, reply, logs>>
    BY <1>2 DEF Crash
  <2>2. \A c \in Calls :
          /\ server'[c] # server[c] => server'[c] = "dead" /\ server[c] # "done"
          /\ client'[c] # client[c] => client'[c] = "ended"
          /\ outcome'[c] = "success" => outcome[c] = "success"
    BY <1>2 DEF Crash, Alive, A2AInv, A2ATypeOK
  <2> QED
    BY <2>1, <2>2 DEF LogInv, PilotInv, MateInv, SuccessIsLogged
<1>3. ASSUME NEW c \in Calls, NEW what \in StrangersBodies, StrangerAnswers(c, what)
      PROVE  LogInv'
  <2>1. /\ UNCHANGED <<caller, peer, body, client, outcome, logs>>
        /\ peer[c] \notin Agents /\ server[c] = "accepted" /\ server'[c] = "done"
        /\ \A d \in Calls \ {c} : server'[d] = server[d] /\ reply'[d] = reply[d]
    BY <1>3, ProtocolAssumption DEF StrangerAnswers, A2AInv, A2ATypeOK
  <2> QED
    BY <2>1 DEF LogInv, PilotInv, MateInv, SuccessIsLogged
<1> QED
  BY <1>1, <1>2, <1>3

\* What the logs hold is an invariant.
LEMMA LogInvHolds == A2ASpec => []LogInv
<1>1. A2AInit => LogInv
  BY InitLogInv
<1>2. A2AInv /\ LogInv /\ [A2ANext]_a2aVars => LogInv'
  <2> SUFFICES ASSUME A2AInv, LogInv, [A2ANext]_a2aVars
               PROVE  LogInv'
    OBVIOUS
  <2>1. CASE UNCHANGED a2aVars
    BY <2>1 DEF LogInv, PilotInv, MateInv, SuccessIsLogged
  <2>2. ASSUME NEW c \in Calls, PingCommand(c) \/ StatusCommand(c) PROVE LogInv'
    BY <2>2, BeginLogInv DEF PingCommand, StatusCommand
  <2>3. ASSUME NEW c \in Calls, NEW what \in Bodies, ForeignCall(c, what) PROVE LogInv'
    BY <2>3, BeginLogInv, ProtocolAssumption DEF ForeignCall
  <2>4. ASSUME NEW c \in Calls, NEW what \in {"ping", "text"}, Ask(c, what) PROVE LogInv'
    BY <2>4, BeginLogInv DEF Ask
  <2>5. ASSUME NEW c \in Calls, NEW what \in {"ping", "text"}, NEW p \in Calls,
               CLIAsks(c, what, p)
        PROVE  LogInv'
    BY <2>5, BeginLogInv DEF CLIAsks
  <2>6. ASSUME NEW c \in Calls, ClientSteps(c) \/ WalksAway(c) PROVE LogInv'
    BY <2>6, ClientLogInv
  <2>7. ASSUME NEW c \in Calls, HandlerSteps(c) PROVE LogInv'
    BY <2>7, HandlerLogInv
  <2>8. CASE \/ Tick
             \/ \E a \in Agents : Crash(a) \/ ComesBack(a)
             \/ \E c \in Calls, how \in {"answered", "failed"} : CLIExits(c, how)
             \/ \E c \in Calls, what \in StrangersBodies : StrangerAnswers(c, what)
    BY <2>8, EnvironmentLogInv
  <2> QED
    BY <2>1, <2>2, <2>3, <2>4, <2>5, <2>6, <2>7, <2>8 DEF A2ANext
<1> QED
  BY <1>1, <1>2, A2AInvHolds, PTL DEF A2ASpec

\* Nobody is told of a success that both logs do not hold completely, whatever
\* crashes in between (agent/client.go:15-119, agent.go:397-483).
THEOREM SuccessIsLoggedHolds == A2ASpec => []SuccessIsLogged
<1>1. LogInv => SuccessIsLogged
  BY DEF LogInv
<1> QED
  BY <1>1, LogInvHolds, PTL
-----------------------------------------------------------------------------
(* What is promised of a message, call by call.                            *)

\* There is no reply before a handler, or a stranger, has one.
ReplyInv ==
    \A c \in Calls : server[c] \in {"none", "accepted", "working"} => reply[c] = "none"

LEMMA ReplyInvHolds == A2ASpec => []ReplyInv
<1>1. A2AInit => ReplyInv
  BY DEF A2AInit, ReplyInv
<1>2. A2AInv /\ ReplyInv /\ [A2ANext]_a2aVars => ReplyInv'
  <2> SUFFICES ASSUME A2AInv, ReplyInv, [A2ANext]_a2aVars PROVE ReplyInv'
    OBVIOUS
  <2>1. CASE UNCHANGED <<server, reply>>
    BY <2>1 DEF ReplyInv
  <2>2. CASE UNCHANGED a2aVars \/ Tick \/ \E a \in Agents : ComesBack(a)
    BY <2>1, <2>2 DEF Tick, ComesBack
  <2>3. ASSUME NEW a \in Agents, Crash(a) PROVE ReplyInv'
    BY <2>3 DEF Crash, A2AInv, A2ATypeOK, ReplyInv
  <2>4. ASSUME NEW c \in Calls, NEW who, NEW what, NEW p, Begin(c, who, what, p)
        PROVE  ReplyInv'
    <3>1. server[c] = "none" /\ reply' = reply
      BY <2>4 DEF Begin, A2AInv, TreeInv
    <3>2. \A d \in Calls \ {c} : server'[d] = server[d]
      BY <2>4 DEF Begin, A2AInv, A2ATypeOK
    <3> QED
      BY <3>1, <3>2 DEF ReplyInv
  <2>5. ASSUME NEW c \in Calls,
               \/ ClientSteps(c) \/ WalksAway(c)
               \/ \E how \in {"answered", "failed"} : CLIExits(c, how)
        PROVE  ReplyInv'
    BY <2>1, <2>5 DEF ClientSteps, WalksAway, Receive, ReceiveFails, TimesOut, GivesUp, CLIExits
  <2>6. ASSUME NEW c \in Calls,
               \/ HandlerSteps(c) \/ \E what \in StrangersBodies : StrangerAnswers(c, what)
        PROVE  ReplyInv'
    <3>1. /\ \A d \in Calls \ {c} : server'[d] = server[d] /\ reply'[d] = reply[d]
          /\ \/ server'[c] \in {"replying", "done"}
             \/ server[c] = "accepted" /\ reply' = reply
      BY <2>6 DEF HandlerSteps, AnswerAtOnce, AnswerPing, RejectMessage, Launch, LaunchFails,
                  Finish, Stop, WriteReply, StrangerAnswers, ServerGoto, Reply, A2AInv, A2ATypeOK
    <3> QED
      BY <3>1 DEF ReplyInv
  <2> QED
    BY <2>2, <2>3, <2>4, <2>5, <2>6 DEF A2ANext, PingCommand, StatusCommand, ForeignCall, Ask,
                                        CLIAsks
<1> QED
  BY <1>1, <1>2, A2AInvHolds, PTL DEF A2ASpec

LEMMA RequestThenError ==
  <<"received", "cli_request">> \o <<"cli_error">> = <<"received", "cli_request", "cli_error">>
<1> DEFINE S == {"received", "cli_request", "cli_error"}
           s == <<"received", "cli_request">>
           t == <<"cli_error">>
           u == s \o t
           v == <<"received", "cli_request", "cli_error">>
<1>1. s \in Seq(S) /\ t \in Seq(S) /\ v \in Seq(S)
  OBVIOUS
<1>2. /\ Len(s) = 2 /\ s[1] = "received" /\ s[2] = "cli_request"
      /\ Len(t) = 1 /\ t[1] = "cli_error"
      /\ Len(v) = 3 /\ v[1] = "received" /\ v[2] = "cli_request" /\ v[3] = "cli_error"
  OBVIOUS
<1> HIDE DEF S, s, t, v
<1>3. /\ u \in Seq(S) /\ Len(u) = Len(s) + Len(t)
      /\ \A i \in 1 .. Len(s) + Len(t) : u[i] = IF i <= Len(s) THEN s[i] ELSE t[i - Len(s)]
  BY <1>1, ConcatProperties
<1> HIDE DEF u
<1>4. Len(u) = Len(v) /\ \A i \in 1 .. Len(u) : u[i] = v[i]
  BY <1>2, <1>3
<1>5. u = v
  BY <1>1, <1>3, <1>4, SeqEqual
<1> QED
  BY <1>5 DEF u, s, t, v

\* What the handler of one call does leaves the others as they are.
LEMMA OneCallMoves ==
  ASSUME NEW c \in Calls, peer' = peer,
         \A d \in Calls \ {c} : /\ server'[d] = server[d] /\ cli'[d] = cli[d]
                                /\ reply'[d] = reply[d]
  PROVE  /\ [d \in Calls |-> Place(d)'] = [[d \in Calls |-> Place(d)] EXCEPT ![c] = Place(c)']
         /\ [d \in Calls |-> Work(d)'] = [[d \in Calls |-> Work(d)] EXCEPT ![c] = Work(c)']
         /\ [d \in Calls |-> AnswerTo(d)']
               = [[d \in Calls |-> AnswerTo(d)] EXCEPT ![c] = AnswerTo(c)']
<1>1. \A d \in Calls \ {c} : /\ Place(d)' = Place(d) /\ Work(d)' = Work(d)
                             /\ AnswerTo(d)' = AnswerTo(d)
  BY DEF Place, Work, AnswerTo
<1> QED
  BY <1>1

\* A handler that never asks the CLI, or cannot.
LEMMA AtOnceAsServed ==
  ASSUME A2AInv, LogInv, NEW c \in Calls,
         AnswerAtOnce(c) \/ AnswerPing(c) \/ RejectMessage(c) \/ LaunchFails(c)
  PROVE  Promise!AnswerAtOnce(c)
<1>1. /\ server[c] = "accepted" /\ peer[c] \in Agents /\ peer' = peer /\ cli' = cli
      /\ server'[c] = "replying"
      /\ \A d \in Calls \ {c} : server'[d] = server[d] /\ reply'[d] = reply[d]
  BY DEF AnswerAtOnce, AnswerPing, RejectMessage, LaunchFails, ServerGoto, Reply, A2AInv, A2ATypeOK
<1>2. mateLog[c] = <<>>
  BY <1>1 DEF LogInv, MateInv
<1>3. \/ /\ reply'[c] = "pong"
         /\ mateLog' = [mateLog EXCEPT ![c] = <<"received", "sent">>]
      \/ /\ reply'[c] \notin {"none", "pong", "answer"}
         /\ \E e \in {<<>>, <<"received">>, <<"received", "cli_request", "cli_error">>} :
                mateLog' = [mateLog EXCEPT ![c] = e]
  <2>1. CASE AnswerAtOnce(c)
    <3>1. reply'[c] \notin {"none", "pong", "answer"}
      BY <2>1 DEF AnswerAtOnce, Immediate, Reply, A2AInv, A2ATypeOK
    <3>2. mateLog' = [mateLog EXCEPT ![c] = <<>> \o <<>>] /\ <<>> \o <<>> = <<>>
      BY <1>2, <2>1 DEF AnswerAtOnce, Reply
    <3> QED
      BY <3>1, <3>2
  <2>2. CASE AnswerPing(c)
    <3>1. /\ reply'[c] = "pong"
          /\ mateLog' = [mateLog EXCEPT ![c] = <<>> \o <<"received", "sent">>]
      BY <1>2, <2>2 DEF AnswerPing, Reply, A2AInv, A2ATypeOK
    <3>2. <<>> \o <<"received", "sent">> = <<"received", "sent">>
      OBVIOUS
    <3> QED
      BY <3>1, <3>2
  <2>3. CASE RejectMessage(c)
    <3>1. /\ reply'[c] \in {"-32602", "2001"}
          /\ mateLog' = [mateLog EXCEPT ![c] = <<>> \o <<"received">>]
      BY <1>2, <2>3 DEF RejectMessage, Reply, A2AInv, A2ATypeOK
    <3>2. <<>> \o <<"received">> = <<"received">>
      OBVIOUS
    <3> QED
      BY <3>1, <3>2
  <2>4. CASE LaunchFails(c)
    <3>1. /\ reply'[c] = "2001"
          /\ mateLog' = [mateLog EXCEPT ![c] = <<>> \o <<"received", "cli_request", "cli_error">>]
      BY <1>2, <2>4 DEF LaunchFails, Reply, A2AInv, A2ATypeOK
    <3>2. <<>> \o <<"received", "cli_request", "cli_error">>
            = <<"received", "cli_request", "cli_error">>
      OBVIOUS
    <3> QED
      BY <3>1, <3>2
  <2> QED
    BY <2>1, <2>2, <2>3, <2>4
<1>4. /\ Place(c) = "new" /\ Place(c)' = "over"
      /\ reply'[c] = "pong" => AnswerTo(c)' = "pong"
      /\ reply'[c] \notin {"none", "pong", "answer"} => AnswerTo(c)' = "other"
  BY <1>1 DEF Place, AnswerTo
<1>5. [d \in Calls |-> Work(d)'] = [d \in Calls |-> Work(d)]
  BY <1>1 DEF Work
<1>6. /\ [d \in Calls |-> Place(d)'] = [[d \in Calls |-> Place(d)] EXCEPT ![c] = Place(c)']
      /\ [d \in Calls |-> AnswerTo(d)']
            = [[d \in Calls |-> AnswerTo(d)] EXCEPT ![c] = AnswerTo(c)']
  BY <1>1, OneCallMoves
<1> QED
  BY <1>3, <1>4, <1>5, <1>6 DEF Promise!AnswerAtOnce, Promise!Conclude, Promise!Move

\* The CLI is asked, by starting it.
LEMMA LaunchAsServed ==
  ASSUME A2AInv, LogInv, ReplyInv, NEW c \in Calls, Launch(c)
  PROVE  Promise!Ask(c)
<1>1. /\ server[c] = "accepted" /\ peer[c] \in Agents /\ peer' = peer /\ reply' = reply
      /\ server'[c] = "working" /\ cli[c] = "none" /\ cli'[c] = "running"
      /\ \A d \in Calls \ {c} : server'[d] = server[d] /\ cli'[d] = cli[d]
  BY DEF Launch, ServerGoto, A2AInv, A2ATypeOK, TreeInv
<1>2. mateLog' = [mateLog EXCEPT ![c] = <<"received", "cli_request">>]
  <2>1. mateLog[c] = <<>>
    BY <1>1 DEF LogInv, MateInv
  <2>2. mateLog' = [mateLog EXCEPT ![c] = <<>> \o <<"received", "cli_request">>]
    BY <2>1 DEF Launch
  <2>3. <<>> \o <<"received", "cli_request">> = <<"received", "cli_request">>
    OBVIOUS
  <2> QED
    BY <2>2, <2>3
<1>3. /\ Place(c) = "new" /\ Place(c)' = "asked" /\ Work(c)' = "running"
      /\ AnswerTo(c)' = AnswerTo(c)
  BY <1>1 DEF Place, Work, AnswerTo
<1>4. /\ [d \in Calls |-> Place(d)'] = [[d \in Calls |-> Place(d)] EXCEPT ![c] = Place(c)']
      /\ [d \in Calls |-> Work(d)'] = [[d \in Calls |-> Work(d)] EXCEPT ![c] = Work(c)']
      /\ [d \in Calls |-> AnswerTo(d)'] = [d \in Calls |-> AnswerTo(d)]
  BY <1>1, <1>3, OneCallMoves
<1> QED
  BY <1>2, <1>3, <1>4 DEF Promise!Ask, Promise!Move

\* The CLI has ended, or is told to.
LEMMA EndAsServed ==
  ASSUME A2AInv, LogInv, NEW c \in Calls, Finish(c) \/ Stop(c)
  PROVE  Promise!Answer(c) \/ Promise!Fail(c)
<1>1. /\ server[c] = "working" /\ peer[c] \in Agents /\ peer' = peer
      /\ server'[c] = "replying"
      /\ \A d \in Calls \ {c} : /\ server'[d] = server[d] /\ reply'[d] = reply[d]
                                /\ cli'[d] = cli[d]
  BY DEF Finish, Stop, ServerGoto, Reply, A2AInv, A2ATypeOK
<1>2. mateLog[c] = <<"received", "cli_request">>
  BY <1>1 DEF LogInv, MateInv
<1>3. Place(c) = "asked" /\ Place(c)' = "over"
  BY <1>1 DEF Place
<1>4. /\ [d \in Calls |-> Place(d)'] = [[d \in Calls |-> Place(d)] EXCEPT ![c] = Place(c)']
      /\ [d \in Calls |-> Work(d)'] = [[d \in Calls |-> Work(d)] EXCEPT ![c] = Work(c)']
      /\ [d \in Calls |-> AnswerTo(d)']
            = [[d \in Calls |-> AnswerTo(d)] EXCEPT ![c] = AnswerTo(c)']
  BY <1>1, OneCallMoves
<1>5. CASE cli[c] = "answered" /\ cli' = cli /\ Reply(c, "answer", <<"cli_response", "sent">>)
  <2>1. mateLog' = [mateLog EXCEPT ![c] = <<"received", "cli_request", "cli_response", "sent">>]
    <3>1. mateLog' = [mateLog EXCEPT ![c] =
                        <<"received", "cli_request">> \o <<"cli_response", "sent">>]
      BY <1>2, <1>5 DEF Reply
    <3> QED
      BY <3>1, RequestThenResponse
  <2>2. Work(c) = "ended" /\ AnswerTo(c)' = "answer"
    BY <1>3, <1>5 DEF Work, AnswerTo, Reply, A2AInv, A2ATypeOK
  <2>3. [d \in Calls |-> Work(d)'] = [d \in Calls |-> Work(d)]
    BY <1>5 DEF Work
  <2> QED
    BY <1>3, <1>4, <2>1, <2>2, <2>3 DEF Promise!Answer, Promise!Conclude, Promise!Move
<1>6. ASSUME NEW what \in {"2002", "2003"}, Reply(c, what, <<"cli_error">>),
             Work(c)' = IF Work(c) = "running" THEN "ended" ELSE Work(c)
      PROVE  Promise!Fail(c)
  <2>1. mateLog' = [mateLog EXCEPT ![c] = <<"received", "cli_request", "cli_error">>]
    <3>1. mateLog' = [mateLog EXCEPT ![c] = <<"received", "cli_request">> \o <<"cli_error">>]
      BY <1>2, <1>6 DEF Reply
    <3> QED
      BY <3>1, RequestThenError
  <2>2. AnswerTo(c)' = "other"
    BY <1>3, <1>6 DEF AnswerTo, Reply, A2AInv, A2ATypeOK
  <2> QED
    BY <1>3, <1>4, <1>6, <2>1, <2>2 DEF Promise!Fail, Promise!Conclude, Promise!Move
<1>7. CASE cli[c] = "failed" /\ cli' = cli /\ Reply(c, "2002", <<"cli_error">>)
  BY <1>6, <1>7 DEF Work
<1>8. CASE Stop(c)
  <2>1. Work(c)' = IF Work(c) = "running" THEN "ended" ELSE Work(c)
    BY <1>8 DEF Stop, Work, A2AInv, A2ATypeOK
  <2> QED
    BY <1>6, <1>8, <2>1 DEF Stop
<1> QED
  BY <1>5, <1>7, <1>8 DEF Finish

LEMMA CLIExitsAsServed ==
  ASSUME A2AInv, NEW c \in Calls, NEW how \in {"answered", "failed"}, CLIExits(c, how)
  PROVE  Promise!ProcessEnds(c)
<1>1. /\ UNCHANGED <<peer, server, reply, mateLog>>
      /\ cli[c] = "running" /\ cli'[c] = how /\ \A d \in Calls \ {c} : cli'[d] = cli[d]
  BY DEF CLIExits, A2AInv, A2ATypeOK
<1>2. /\ Work(c) = "running" /\ Work(c)' = "ended"
      /\ [d \in Calls |-> Place(d)'] = [d \in Calls |-> Place(d)]
      /\ [d \in Calls |-> AnswerTo(d)'] = [d \in Calls |-> AnswerTo(d)]
  BY <1>1 DEF Place, Work, AnswerTo
<1>3. [d \in Calls |-> Work(d)'] = [[d \in Calls |-> Work(d)] EXCEPT ![c] = Work(c)']
  BY <1>1, OneCallMoves
<1> QED
  BY <1>1, <1>2, <1>3 DEF Promise!ProcessEnds

\* A crash ends what the agent had under way, and leaves its processes.
LEMMA CrashAsServed ==
  ASSUME A2AInv, ReplyInv, NEW a \in Agents, Crash(a)
  PROVE  \E S \in SUBSET Calls : Promise!Crash(S)
<1> DEFINE served == {c \in Calls : peer[c] = a /\ Alive(c)}
<1>1. /\ server' = [c \in Calls |-> IF c \in served THEN "dead" ELSE server[c]]
      /\ crashes < MaxCrashes
      /\ UNCHANGED <<peer, cli, reply, mateLog>>
  BY DEF Crash
<1>2. MaxCrashes > 0
  BY <1>1, ProtocolAssumption DEF A2AInv, A2ATypeOK
<1>3. \A c \in served : peer[c] \in Agents /\ server[c] \in {"accepted", "working", "replying"}
  BY DEF Alive
<1>4. served \in SUBSET Calls
  OBVIOUS
<1> HIDE DEF served
<1>5. \A c \in Calls : /\ Place(c)' = IF c \in served THEN "over" ELSE Place(c)
                      /\ Work(c)' = Work(c)
                      /\ AnswerTo(c)' = AnswerTo(c)
  <2> TAKE c \in Calls
  <2>1. CASE c \in served
    BY <1>1, <1>3, <2>1 DEF Place, Work, AnswerTo, ReplyInv
  <2>2. CASE c \notin served
    BY <1>1, <2>2 DEF Place, Work, AnswerTo
  <2> QED
    BY <2>1, <2>2
<1>6. Promise!Crash(served)
  BY <1>1, <1>2, <1>4, <1>5 DEF Promise!Crash
<1> QED
  BY <1>4, <1>6

\* The promise says nothing of callers, connections, strangers and time.
LEMMA QuietAsServed ==
  ASSUME A2AInv,
         \/ UNCHANGED a2aVars \/ Tick \/ \E a \in Agents : ComesBack(a)
         \/ \E c \in Calls : \/ \E who, what, p : Begin(c, who, what, p)
                             \/ ClientSteps(c) \/ WalksAway(c) \/ WriteReply(c)
                             \/ \E what \in StrangersBodies : StrangerAnswers(c, what)
  PROVE  UNCHANGED Promise!turn
<1>1. ASSUME mateLog' = mateLog,
             \A c \in Calls : /\ Place(c)' = Place(c) /\ Work(c)' = Work(c)
                             /\ AnswerTo(c)' = AnswerTo(c)
      PROVE  UNCHANGED Promise!turn
  BY <1>1 DEF Promise!turn
<1>2. CASE UNCHANGED <<peer, server, cli, reply, mateLog>>
  BY <1>1, <1>2 DEF Place, Work, AnswerTo
<1>3. CASE UNCHANGED a2aVars \/ Tick \/ \E a \in Agents : ComesBack(a)
  BY <1>2, <1>3 DEF Tick, ComesBack
<1>4. ASSUME NEW c \in Calls, NEW who, NEW what, NEW p, Begin(c, who, what, p)
      PROVE  UNCHANGED Promise!turn
  <2>1. UNCHANGED <<cli, reply, mateLog>>
    BY <1>4 DEF Begin
  <2>2. server[c] = "none" /\ server'[c] \in {"none", "accepted"}
    BY <1>4 DEF Begin, A2AInv, A2ATypeOK, TreeInv
  <2>3. \A d \in Calls \ {c} : server'[d] = server[d] /\ peer'[d] = peer[d]
    BY <1>4 DEF Begin, A2AInv, A2ATypeOK
  <2>4. \A d \in Calls : /\ Place(d)' = Place(d) /\ Work(d)' = Work(d)
                        /\ AnswerTo(d)' = AnswerTo(d)
    BY <2>1, <2>2, <2>3 DEF Place, Work, AnswerTo
  <2> QED
    BY <1>1, <2>1, <2>4
<1>5. ASSUME NEW c \in Calls, ClientSteps(c) \/ WalksAway(c)
      PROVE  UNCHANGED Promise!turn
  BY <1>2, <1>5 DEF ClientSteps, WalksAway, Receive, ReceiveFails, TimesOut, GivesUp
<1>6. ASSUME NEW c \in Calls, WriteReply(c) PROVE UNCHANGED Promise!turn
  <2>1. /\ UNCHANGED <<peer, cli, reply, mateLog>>
        /\ \A d \in Calls : server'[d] = server[d] \/ (server[d] = "replying" /\ server'[d] = "done")
    BY <1>6 DEF WriteReply, ServerGoto, A2AInv, A2ATypeOK
  <2>2. \A d \in Calls : /\ Place(d)' = Place(d) /\ Work(d)' = Work(d)
                        /\ AnswerTo(d)' = AnswerTo(d)
    BY <2>1 DEF Place, Work, AnswerTo
  <2> QED
    BY <1>1, <2>1, <2>2
<1>7. ASSUME NEW c \in Calls, NEW what \in StrangersBodies, StrangerAnswers(c, what)
      PROVE  UNCHANGED Promise!turn
  <2>1. /\ UNCHANGED <<peer, cli, mateLog>> /\ peer[c] \notin Agents
        /\ \A d \in Calls \ {c} : server'[d] = server[d] /\ reply'[d] = reply[d]
    BY <1>7, ProtocolAssumption DEF StrangerAnswers, A2AInv, A2ATypeOK
  <2>2. \A d \in Calls : /\ Place(d)' = Place(d) /\ Work(d)' = Work(d)
                        /\ AnswerTo(d)' = AnswerTo(d)
    BY <2>1 DEF Place, Work, AnswerTo
  <2> QED
    BY <1>1, <2>1, <2>2
<1> QED
  BY <1>3, <1>4, <1>5, <1>6, <1>7

\* Connections cut, agents crashing, deadlines up and down the calls, every
\* agent handles each message as promised, and only a crash leaves a claude
\* process behind (server.go:229-262, cli.go:91-134).
THEOREM ServedAsPromisedHolds == A2ASpec => ServedAsPromised
<1>1. A2AInit => Promise!Init
  BY DEF A2AInit, Promise!Init, Place, Work, AnswerTo
<1>2. A2AInv /\ LogInv /\ ReplyInv /\ [A2ANext]_a2aVars => [Promise!Next]_(Promise!turn)
  <2> SUFFICES ASSUME A2AInv, LogInv, ReplyInv, [A2ANext]_a2aVars
               PROVE  Promise!Next \/ UNCHANGED Promise!turn
    OBVIOUS
  <2>1. ASSUME NEW c \in Calls, HandlerSteps(c)
        PROVE  Promise!Next \/ UNCHANGED Promise!turn
    <3>1. CASE AnswerAtOnce(c) \/ AnswerPing(c) \/ RejectMessage(c) \/ LaunchFails(c)
      BY <3>1, AtOnceAsServed DEF Promise!Next
    <3>2. CASE Launch(c)
      BY <3>2, LaunchAsServed DEF Promise!Next
    <3>3. CASE Finish(c) \/ Stop(c)
      BY <3>3, EndAsServed DEF Promise!Next
    <3>4. CASE WriteReply(c)
      BY <3>4, QuietAsServed
    <3> QED
      BY <2>1, <3>1, <3>2, <3>3, <3>4 DEF HandlerSteps
  <2>2. ASSUME NEW c \in Calls, NEW how \in {"answered", "failed"}, CLIExits(c, how)
        PROVE  Promise!Next
    BY <2>2, CLIExitsAsServed DEF Promise!Next
  <2>3. ASSUME NEW a \in Agents, Crash(a) PROVE Promise!Next
    BY <2>3, CrashAsServed DEF Promise!Next
  <2>4. ASSUME NEW c \in Calls,
               \/ PingCommand(c) \/ StatusCommand(c)
               \/ \E what \in Bodies : ForeignCall(c, what)
               \/ \E what \in {"ping", "text"} :
                     Ask(c, what) \/ \E p \in Calls : CLIAsks(c, what, p)
        PROVE  UNCHANGED Promise!turn
    <3>1. \E who, what, p : Begin(c, who, what, p)
      BY <2>4 DEF PingCommand, StatusCommand, ForeignCall, Ask, CLIAsks
    <3> QED
      BY <3>1, QuietAsServed
  <2>5. CASE \/ UNCHANGED a2aVars \/ Tick \/ \E a \in Agents : ComesBack(a)
             \/ \E c \in Calls : \/ ClientSteps(c) \/ WalksAway(c)
                                 \/ \E what \in StrangersBodies : StrangerAnswers(c, what)
    BY <2>5, QuietAsServed
  <2> QED
    BY <2>1, <2>2, <2>3, <2>4, <2>5 DEF A2ANext
<1> QED
  BY <1>1, <1>2, A2AInvHolds, LogInvHolds, ReplyInvHolds, PTL
     DEF A2ASpec, ServedAsPromised, Promise!Spec

\* A step of MessageTurn concludes no message twice.
LEMMA PromiseSettles ==
  ASSUME LogsAreFunctions, Promise!Next, NEW c \in Calls, Place(c) = "over"
  PROVE  Promise!Stands(c)
<1> DEFINE place == [d \in Calls |-> Place(d)]
<1>0. place[c] = "over"
  OBVIOUS
<1>1. ASSUME NEW d \in Calls, NEW from \in {"new", "asked"}, NEW how, NEW entries,
             Promise!Conclude(d, from, how, entries)
      PROVE  Promise!Stands(c)
  <2>1. d # c
    BY <1>0, <1>1 DEF Promise!Conclude, Promise!Move
  <2> QED
    BY <1>1, <2>1 DEF Promise!Conclude, Promise!Move, Promise!Stands, LogsAreFunctions
<1>2. ASSUME NEW d \in Calls,
             Promise!Ask(d) \/ Promise!Run(d) \/ Promise!ProcessEnds(d)
      PROVE  Promise!Stands(c)
  <2>1. CASE Promise!Ask(d)
    <3>1. d # c
      BY <1>0, <2>1 DEF Promise!Ask, Promise!Move
    <3> QED
      BY <2>1, <3>1 DEF Promise!Ask, Promise!Move, Promise!Stands, LogsAreFunctions
  <2>2. CASE Promise!Run(d) \/ Promise!ProcessEnds(d)
    BY <2>2 DEF Promise!Run, Promise!ProcessEnds, Promise!Stands
  <2> QED
    BY <1>2, <2>1, <2>2
<1>3. ASSUME NEW S \in SUBSET Calls, Promise!Crash(S)
      PROVE  Promise!Stands(c)
  BY <1>3 DEF Promise!Crash, Promise!Stands
<1>4. ASSUME NEW d \in Calls,
             Promise!AnswerAtOnce(d) \/ Promise!Answer(d) \/ Promise!Fail(d)
      PROVE  \E from \in {"new", "asked"} : \E how, entries : Promise!Conclude(d, from, how, entries)
  BY <1>4 DEF Promise!AnswerAtOnce, Promise!Answer, Promise!Fail
<1> QED
  BY <1>1, <1>2, <1>3, <1>4 DEF Promise!Next

\* Once an agent has answered a message, or crashed, it adds nothing to what it
\* answered and recorded (server.go:229-262).
THEOREM AnswersStand == A2ASpec => Promise!Settled
<1>1. LogInv /\ [Promise!Next]_(Promise!turn) => [Promise!ConcludedStand]_(Promise!turn)
  BY PromiseSettles DEF Promise!ConcludedStand, LogInv
<1> QED
  BY <1>1, ServedAsPromisedHolds, LogInvHolds, PTL DEF ServedAsPromised, Promise!Settled, Promise!Spec

\* What is left at work without a handler was started by an agent that crashed,
\* and by no other (cli.go:97).
OnlyCrashesOrphan ==
    \A c \in Calls : cli[c] = "running" /\ server[c] # "working" =>
                        server[c] = "dead" /\ crashes > 0

THEOREM OnlyCrashesOrphanHolds == A2ASpec => []OnlyCrashesOrphan
<1> DEFINE DeadCrashed == \A c \in Calls : server[c] = "dead" => crashes > 0
<1>1. A2AInit => DeadCrashed
  BY DEF A2AInit
<1>2. A2AInv /\ DeadCrashed /\ [A2ANext]_a2aVars => DeadCrashed'
  <2> SUFFICES ASSUME A2AInv, DeadCrashed, [A2ANext]_a2aVars PROVE DeadCrashed'
    OBVIOUS
  <2>1. CASE UNCHANGED <<server, crashes>>
    BY <2>1
  <2>2. CASE UNCHANGED a2aVars \/ Tick \/ \E a \in Agents : ComesBack(a)
    BY <2>1, <2>2 DEF Tick, ComesBack, a2aVars
  <2>3. ASSUME NEW a \in Agents, Crash(a) PROVE DeadCrashed'
    <3>1. crashes' > 0
      BY <2>3, ProtocolAssumption DEF Crash, A2AInv, A2ATypeOK
    <3> QED
      BY <3>1
  <2>4. ASSUME NEW c \in Calls, NEW who, NEW what, NEW p, Begin(c, who, what, p)
        PROVE  DeadCrashed'
    BY <2>4 DEF Begin, A2AInv, A2ATypeOK
  <2>5. ASSUME NEW c \in Calls,
               \/ ClientSteps(c) \/ WalksAway(c)
               \/ \E how \in {"answered", "failed"} : CLIExits(c, how)
        PROVE  DeadCrashed'
    BY <2>1, <2>5 DEF ClientSteps, WalksAway, Receive, ReceiveFails, TimesOut, GivesUp, CLIExits
  <2>6. ASSUME NEW c \in Calls,
               \/ HandlerSteps(c) \/ \E what \in StrangersBodies : StrangerAnswers(c, what)
        PROVE  DeadCrashed'
    <3>1. /\ crashes' = crashes /\ server'[c] \in {"working", "replying", "done"}
          /\ \A d \in Calls \ {c} : server'[d] = server[d]
      BY <2>6 DEF HandlerSteps, AnswerAtOnce, AnswerPing, RejectMessage, Launch, LaunchFails,
                  Finish, Stop, WriteReply, StrangerAnswers, ServerGoto, A2AInv, A2ATypeOK
    <3> QED
      BY <3>1
  <2> QED
    BY <2>2, <2>3, <2>4, <2>5, <2>6 DEF A2ANext, PingCommand, StatusCommand, ForeignCall, Ask,
                                        CLIAsks
<1>3. A2AInv /\ DeadCrashed => OnlyCrashesOrphan
  BY DEF A2AInv, TreeInv, OnlyCrashesOrphan
<1> QED
  BY <1>1, <1>2, <1>3, A2AInvHolds, PTL DEF A2ASpec
=============================================================================
