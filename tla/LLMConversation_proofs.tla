----------------------- MODULE LLMConversation_proofs -----------------------
(***************************************************************************)
(* Proofs about the turns of conversations, for any number of turns and    *)
(* dialogs and every way the CLI may end.                                  *)
(*                                                                         *)
(* The argument for NoCrossTalk: a session is named by the turn that       *)
(* created it, and whatever refers to it has the conversation id of that   *)
(* turn.  An id that is a trace id names the dialog.  One that is a time   *)
(* is that at which it was chosen, so turns that share it chose theirs at  *)
(* the same reading of the clock.  No step has to wait for the clock.      *)
(*                                                                         *)
(* The argument for Continuity: a session forgets nothing, and in a        *)
(* conversation whose turns do not overlap nobody stores a session that    *)
(* was not told of every turn that had stored before.                      *)
(***************************************************************************)
EXTENDS LLMConversation, SequenceTheorems, TLAPS

Talking == {"lookup", "launch", "waiting", "failed", "store", "respond"}

Asked   == <<"received", "cli_request">>

\* Each turn by itself: its process and its records at each place.
TurnInv ==
    /\ trail \in [Turns -> Seq(LogEntries)]
    /\ \A t \in Turns :
        /\ pc[t] = "idle" => dialog[t] = None /\ trail[t] = <<>>
        /\ pc[t] \in Talking => dialog[t] \in Dialogs /\ conv[t] \in ConvIds
        /\ cli[t] = "running" => pc[t] = "waiting"
        /\ pc[t] = "lookup" => trail[t] = <<"received">>
        /\ pc[t] \in Talking \ {"lookup"} => trail[t] = Asked
        /\ pc[t] = "failed" => reply[t] # "answer"

\* Turns that talk under the same conversation id.
Kin(t, u) == dialog[t] # None /\ dialog[u] # None /\ conv[t] = conv[u]

\* What refers to a session, and what a session knows of, has its id.
KinInv ==
    /\ \A c \in ConvIds : sessions[c] # None =>
        dialog[sessions[c]] # None /\ conv[sessions[c]] = c
    /\ \A t \in Turns :
        /\ dialog[t] # None => conv[t] \in {dialog[t], began[t]}
        /\ resumed[t] # None => Kin(t, resumed[t])
        /\ session[t] # None => Kin(t, session[t])
        /\ \A u \in history[t] : Kin(t, u)

ConvInv == ConvTypeOK /\ TurnInv /\ KinInv /\ LogTellsTheStory

USE DEF Talking

-----------------------------------------------------------------------------
(* Sequences of records.                                                   *)

LEMMA EmptyAnd == \A s \in Seq(LogEntries) : <<>> \o s = s
<1> SUFFICES ASSUME NEW s \in Seq(LogEntries) PROVE <<>> \o s = s
  OBVIOUS
<1> QED
  BY ConcatEmptySeq

LEMMA OneAndOne == <<"received">> \o <<"cli_request">> = Asked
<1> DEFINE r == <<"received">>
           q == <<"cli_request">>
           u == r \o q
           v == <<"received", "cli_request">>
<1>1. r \in Seq(LogEntries) /\ q \in Seq(LogEntries) /\ v \in Seq(LogEntries)
  BY DEF LogEntries
<1>2. /\ Len(r) = 1 /\ r[1] = "received" /\ Len(q) = 1 /\ q[1] = "cli_request"
      /\ Len(v) = 2 /\ v[1] = "received" /\ v[2] = "cli_request"
  OBVIOUS
<1> HIDE DEF r, q, v
<1>3. /\ u \in Seq(LogEntries) /\ Len(u) = Len(r) + Len(q)
      /\ \A i \in 1 .. Len(r) + Len(q) : u[i] = IF i <= Len(r) THEN r[i] ELSE q[i - Len(r)]
  BY <1>1, ConcatProperties
<1> HIDE DEF u
<1>4. Len(u) = Len(v) /\ \A i \in 1 .. Len(u) : u[i] = v[i]
  BY <1>2, <1>3
<1>5. u = v
  BY <1>1, <1>3, <1>4, SeqEqual
<1> QED
  BY <1>5 DEF u, v, r, q, Asked

LEMMA AskedAndError == Asked \o <<"cli_error">> = <<"received", "cli_request", "cli_error">>
<1> DEFINE r == <<"received", "cli_request">>
           q == <<"cli_error">>
           u == r \o q
           v == <<"received", "cli_request", "cli_error">>
<1>1. r \in Seq(LogEntries) /\ q \in Seq(LogEntries) /\ v \in Seq(LogEntries)
  BY DEF LogEntries
<1>2. /\ Len(r) = 2 /\ r[1] = "received" /\ r[2] = "cli_request"
      /\ Len(q) = 1 /\ q[1] = "cli_error"
      /\ Len(v) = 3 /\ v[1] = "received" /\ v[2] = "cli_request" /\ v[3] = "cli_error"
  OBVIOUS
<1> HIDE DEF r, q, v
<1>3. /\ u \in Seq(LogEntries) /\ Len(u) = Len(r) + Len(q)
      /\ \A i \in 1 .. Len(r) + Len(q) : u[i] = IF i <= Len(r) THEN r[i] ELSE q[i - Len(r)]
  BY <1>1, ConcatProperties
<1> HIDE DEF u
<1>4. Len(u) = Len(v) /\ \A i \in 1 .. Len(u) : u[i] = v[i]
  BY <1>2, <1>3
<1>5. u = v
  BY <1>1, <1>3, <1>4, SeqEqual
<1> QED
  BY <1>5 DEF u, v, r, q, Asked

LEMMA AskedAndAnswer ==
  Asked \o <<"cli_response", "sent">> = <<"received", "cli_request", "cli_response", "sent">>
<1> DEFINE r == <<"received", "cli_request">>
           q == <<"cli_response", "sent">>
           u == r \o q
           v == <<"received", "cli_request", "cli_response", "sent">>
<1>1. r \in Seq(LogEntries) /\ q \in Seq(LogEntries) /\ v \in Seq(LogEntries)
  BY DEF LogEntries
<1>2. /\ Len(r) = 2 /\ r[1] = "received" /\ r[2] = "cli_request"
      /\ Len(q) = 2 /\ q[1] = "cli_response" /\ q[2] = "sent"
      /\ Len(v) = 4 /\ v[1] = "received" /\ v[2] = "cli_request"
      /\ v[3] = "cli_response" /\ v[4] = "sent"
  OBVIOUS
<1> HIDE DEF r, q, v
<1>3. /\ u \in Seq(LogEntries) /\ Len(u) = Len(r) + Len(q)
      /\ \A i \in 1 .. Len(r) + Len(q) : u[i] = IF i <= Len(r) THEN r[i] ELSE q[i - Len(r)]
  BY <1>1, ConcatProperties
<1> HIDE DEF u
<1>4. Len(u) = Len(v) /\ \A i \in 1 .. Len(u) : u[i] = v[i]
  BY <1>2, <1>3
<1>5. u = v
  BY <1>1, <1>3, <1>4, SeqEqual
<1> QED
  BY <1>5 DEF u, v, r, q, Asked

\* Recording adds entries to the turn's own trail.
LEMMA Recorded ==
  ASSUME TurnInv, NEW t \in Turns, NEW entries \in Seq(LogEntries), Record(t, entries)
  PROVE  /\ trail' \in [Turns -> Seq(LogEntries)]
         /\ trail'[t] = trail[t] \o entries
         /\ \A u \in Turns \ {t} : trail'[u] = trail[u]
<1>1. trail[t] \o entries \in Seq(LogEntries)
  BY ConcatProperties DEF TurnInv
<1> QED
  BY <1>1 DEF Record, TurnInv
-----------------------------------------------------------------------------
(* The steps.                                                              *)

LEMMA InitConvInv == ConvInit => ConvInv
<1> SUFFICES ASSUME ConvInit PROVE ConvInv
  OBVIOUS
<1>1. <<>> \in Seq(LogEntries)
  OBVIOUS
<1>2. ConvTypeOK
  BY <1>1, ConversationAssumption DEF ConvInit, ConvTypeOK, AllOutcomes
<1>3. TurnInv
  BY <1>1 DEF ConvInit, TurnInv
<1>4. KinInv
  BY DEF ConvInit, KinInv, Kin
<1>5. LogTellsTheStory
  BY DEF ConvInit, LogTellsTheStory
<1> QED
  BY <1>2, <1>3, <1>4, <1>5 DEF ConvInv

\* Answered without the CLI.
LEMMA AtOnceConvInv ==
  ASSUME ConvInv, NEW t \in Turns, RejectEmpty(t) \/ AnswerPing(t) \/ RejectUnanswerable(t)
  PROVE  ConvInv'
<1>1. /\ pc[t] = "idle" /\ pc' = [pc EXCEPT ![t] = "done"]
      /\ \E r \in {"invalidParams", "pong", "2001"} : reply' = [reply EXCEPT ![t] = r]
      /\ UNCHANGED <<sessions, clients, resumed, process, earlier>>
  BY DEF RejectEmpty, AnswerPing, RejectUnanswerable, Answer, Goto
<1>2. /\ trail' \in [Turns -> Seq(LogEntries)]
      /\ \A u \in Turns \ {t} : trail'[u] = trail[u]
  <2>1. CASE RejectEmpty(t)
    BY <2>1 DEF RejectEmpty, ConvInv, TurnInv
  <2>2. CASE AnswerPing(t)
    <3>1. <<"received", "sent">> \in Seq(LogEntries)
      BY DEF LogEntries
    <3> QED
      BY <2>2, <3>1, Recorded DEF AnswerPing, ConvInv
  <2>3. CASE RejectUnanswerable(t)
    <3>1. <<"received">> \in Seq(LogEntries)
      BY DEF LogEntries
    <3> QED
      BY <2>3, <3>1, Recorded DEF RejectUnanswerable, ConvInv
  <2> QED
    BY <2>1, <2>2, <2>3
<1>3. dialog[t] = None /\ cli[t] # "running"
  BY <1>1 DEF ConvInv, TurnInv
<1>4. \A u \in Turns : pc'[u] # "idle" <=> (pc[u] # "idle" \/ u = t)
  BY <1>1 DEF ConvInv, ConvTypeOK
<1>5. \A u \in Turns : pc'[u] # "done" => u # t /\ pc'[u] = pc[u] /\ reply'[u] = reply[u]
  BY <1>1 DEF ConvInv, ConvTypeOK
<1>6. ConvTypeOK'
  <2>1. PICK r \in {"invalidParams", "pong", "2001"} : reply' = [reply EXCEPT ![t] = r]
    BY <1>1
  <2>2. r \in {"none", "pong", "invalidParams", "answer", "2001", "2002", "2003", "2004", "2006"}
    OBVIOUS
  <2> QED
    BY <1>1, <1>2, <2>1, <2>2 DEF ConvInv, ConvTypeOK, clients, process
<1>7. TurnInv'
  <2>1. \A u \in Turns \ {t} : pc'[u] = pc[u] /\ reply'[u] = reply[u]
    BY <1>1 DEF ConvInv, ConvTypeOK
  <2>2. pc'[t] = "done" /\ cli' = cli /\ dialog' = dialog /\ conv' = conv
    BY <1>1 DEF ConvInv, ConvTypeOK, clients, process
  <2>3. ASSUME NEW u \in Turns \ {t}
        PROVE  /\ pc'[u] = "idle" => dialog[u] = None /\ trail'[u] = <<>>
               /\ pc'[u] \in Talking => dialog[u] \in Dialogs /\ conv[u] \in ConvIds
               /\ cli[u] = "running" => pc'[u] = "waiting"
               /\ pc'[u] = "lookup" => trail'[u] = <<"received">>
               /\ pc'[u] \in Talking \ {"lookup"} => trail'[u] = Asked
               /\ pc'[u] = "failed" => reply'[u] # "answer"
    <3>1. pc'[u] = pc[u] /\ reply'[u] = reply[u] /\ trail'[u] = trail[u]
      BY <1>2, <2>1
    <3> QED
      BY <3>1 DEF ConvInv, TurnInv
  <2> QED
    BY <1>2, <1>3, <2>2, <2>3 DEF TurnInv
<1>8. KinInv'
  BY <1>1, <1>4, <1>5 DEF ConvInv, ConvTypeOK, KinInv, Kin, clients, process
<1>9. LogTellsTheStory'
  BY <1>1, <1>2, <1>3 DEF ConvInv, ConvTypeOK, LogTellsTheStory, clients
<1> QED
  BY <1>6, <1>7, <1>8, <1>9 DEF ConvInv

LEMMA ConverseConvInv ==
  ASSUME ConvInv, NEW t \in Turns, NEW d \in Dialogs, NEW traced \in BOOLEAN,
         NEW now \in 0 .. MaxClock, Converse(t, d, traced, now)
  PROVE  ConvInv'
<1>1. /\ pc[t] = "idle" /\ pc' = [pc EXCEPT ![t] = "lookup"]
      /\ dialog' = [dialog EXCEPT ![t] = d]
      /\ conv' = [conv EXCEPT ![t] = IF traced THEN d ELSE now]
      /\ began' = [began EXCEPT ![t] = now]
      /\ UNCHANGED <<sessions, resumed, process, reply, earlier>>
  BY DEF Converse, Goto, ConversationId
<1>2. /\ trail' \in [Turns -> Seq(LogEntries)] /\ trail'[t] = <<"received">>
      /\ \A u \in Turns \ {t} : trail'[u] = trail[u]
  <2>1. <<"received">> \in Seq(LogEntries)
    BY DEF LogEntries
  <2>2. trail[t] = <<>>
    BY <1>1 DEF ConvInv, TurnInv
  <2> QED
    BY <2>1, <2>2, Recorded, EmptyAnd DEF Converse, ConvInv
<1>3. /\ now \in Nat /\ now \in ConvIds /\ d \in ConvIds /\ d \notin Nat /\ None \notin Dialogs
  BY ConversationAssumption DEF ConvInv, ConvTypeOK, ConvIds
<1>4. \A u \in Turns \ {t} : /\ pc'[u] = pc[u] /\ dialog'[u] = dialog[u]
                             /\ conv'[u] = conv[u] /\ began'[u] = began[u]
  BY <1>1 DEF ConvInv, ConvTypeOK
<1>5. pc'[t] = "lookup" /\ dialog'[t] = d /\ conv'[t] \in {d, now} /\ began'[t] = now
  BY <1>1 DEF ConvInv, ConvTypeOK
<1>6. ConvTypeOK'
  BY <1>1, <1>2, <1>3, <1>4, <1>5 DEF ConvInv, ConvTypeOK, process
<1>7. TurnInv'
  BY <1>1, <1>2, <1>3, <1>4, <1>5 DEF ConvInv, TurnInv, process
<1>8. KinInv'
  <2>1. dialog[t] = None
    BY <1>1 DEF ConvInv, TurnInv
  <2>2. \A u, v \in Turns : Kin(u, v) => Kin(u, v)' /\ u # t /\ v # t
    BY <1>1, <1>4, <2>1 DEF Kin
  <2>3. ASSUME NEW c \in ConvIds, sessions[c] # None
        PROVE  dialog'[sessions[c]] # None /\ conv'[sessions[c]] = c
    BY <1>4, <2>1, <2>3 DEF ConvInv, ConvTypeOK, KinInv
  <2>4. \A u \in Turns : /\ resumed[u] \in Turns \union {None} /\ session[u] \in Turns \union {None}
                         /\ history[u] \subseteq Turns
    BY DEF ConvInv, ConvTypeOK
  <2>5. ASSUME NEW u \in Turns
        PROVE  dialog'[u] # None => conv'[u] \in {dialog'[u], began'[u]}
    BY <1>4, <1>5 DEF ConvInv, KinInv
  <2>6. ASSUME NEW u \in Turns
        PROVE  /\ resumed[u] # None => Kin(u, resumed[u])'
               /\ session[u] # None => Kin(u, session[u])'
               /\ \A v \in history[u] : Kin(u, v)'
    <3>1. resumed'[u] = resumed[u] /\ session'[u] = session[u]
      BY <1>1 DEF process
    <3> QED
      BY <1>1, <2>2, <2>4, <3>1 DEF ConvInv, KinInv, Kin
  <2> QED
    BY <1>1, <2>3, <2>5, <2>6 DEF KinInv, process, Kin
<1>9. LogTellsTheStory'
  BY <1>1, <1>2, <1>4, <1>5 DEF ConvInv, LogTellsTheStory
<1> QED
  BY <1>6, <1>7, <1>8, <1>9 DEF ConvInv

LEMMA LookupConvInv ==
  ASSUME ConvInv, NEW t \in Turns, Lookup(t)
  PROVE  ConvInv'
<1>1. /\ pc[t] = "lookup" /\ pc' = [pc EXCEPT ![t] = "launch"]
      /\ resumed' = [resumed EXCEPT ![t] = sessions[conv[t]]]
      /\ earlier' = [earlier EXCEPT ![t] = Over] /\ Over \subseteq Turns
      /\ UNCHANGED <<sessions, clients, process, reply>>
  BY DEF Lookup, Goto, Over
<1>2. /\ trail' \in [Turns -> Seq(LogEntries)] /\ trail'[t] = Asked
      /\ \A u \in Turns \ {t} : trail'[u] = trail[u]
  <2>1. <<"cli_request">> \in Seq(LogEntries)
    BY DEF LogEntries
  <2>2. trail[t] = <<"received">>
    BY <1>1 DEF ConvInv, TurnInv
  <2> QED
    BY <2>1, <2>2, Recorded, OneAndOne DEF Lookup, ConvInv
<1>3. conv[t] \in ConvIds /\ sessions[conv[t]] \in Turns \union {None}
  BY <1>1 DEF ConvInv, ConvTypeOK, TurnInv
<1>4. sessions[conv[t]] # None => Kin(t, sessions[conv[t]])
  BY <1>1, <1>3, ConversationAssumption DEF ConvInv, TurnInv, KinInv, Kin
<1>5. /\ \A u \in Turns \ {t} : pc'[u] = pc[u] /\ resumed'[u] = resumed[u]
      /\ pc'[t] = "launch" /\ resumed'[t] = sessions[conv[t]]
      /\ \A u \in Turns : pc'[u] # "idle" <=> pc[u] # "idle"
  BY <1>1 DEF ConvInv, ConvTypeOK
<1>6. ConvTypeOK'
  BY <1>1, <1>2, <1>3, <1>5 DEF ConvInv, ConvTypeOK, clients, process
<1>7. TurnInv'
  BY <1>1, <1>2, <1>5 DEF ConvInv, TurnInv, clients, process
<1>8. KinInv'
  BY <1>1, <1>3, <1>4, <1>5 DEF ConvInv, ConvTypeOK, KinInv, Kin, clients, process
<1>9. LogTellsTheStory'
  BY <1>1, <1>2, <1>5 DEF ConvInv, LogTellsTheStory, clients
<1> QED
  BY <1>6, <1>7, <1>8, <1>9 DEF ConvInv

LEMMA LaunchConvInv ==
  ASSUME ConvInv, NEW t \in Turns, Launch(t)
  PROVE  ConvInv'
<1>1. /\ pc[t] = "launch" /\ pc' = [pc EXCEPT ![t] = "waiting"]
      /\ cli' = [cli EXCEPT ![t] = "running"]
      /\ UNCHANGED <<sessions, clients, resumed, exit, session, history,
                     reply, trail, earlier>>
  BY DEF Launch, Goto
<1>2. /\ \A u \in Turns \ {t} : pc'[u] = pc[u] /\ cli'[u] = cli[u]
      /\ pc'[t] = "waiting" /\ cli'[t] = "running"
      /\ \A u \in Turns : pc'[u] # "idle" <=> pc[u] # "idle"
  BY <1>1 DEF ConvInv, ConvTypeOK
<1>3. ConvTypeOK'
  BY <1>1, <1>2 DEF ConvInv, ConvTypeOK, clients
<1>4. TurnInv'
  BY <1>1, <1>2 DEF ConvInv, TurnInv, clients
<1>5. KinInv'
  BY <1>1, <1>2 DEF ConvInv, ConvTypeOK, KinInv, Kin, clients
<1>6. LogTellsTheStory'
  BY <1>1, <1>2 DEF ConvInv, LogTellsTheStory, clients
<1> QED
  BY <1>3, <1>4, <1>5, <1>6 DEF ConvInv

\* Execute fails: before the process runs, or with it over or killed.
LEMMA FailsConvInv ==
  ASSUME ConvInv, NEW t \in Turns, LaunchFails(t) \/ TimesOut(t) \/ CLIFails(t)
  PROVE  ConvInv'
<1>1. /\ pc[t] \in {"launch", "waiting"} /\ pc' = [pc EXCEPT ![t] = "failed"]
      /\ \E r \in {"2001", "2002", "2003", "2004", "2006"} : reply' = [reply EXCEPT ![t] = r]
      /\ UNCHANGED <<sessions, clients, resumed, trail, earlier,
                     exit, session, history>>
  BY DEF LaunchFails, TimesOut, CLIFails, Fails, Goto, CodeOf, process
<1>2. /\ cli' \in [Turns -> {"none", "running", "killed", "exited"}] /\ cli'[t] # "running"
      /\ \A u \in Turns : cli'[u] = "running" => cli[u] = "running"
  <2>1. CASE TimesOut(t)
    BY <2>1 DEF TimesOut, ConvInv, ConvTypeOK
  <2>2. CASE LaunchFails(t) \/ CLIFails(t)
    BY <2>2 DEF LaunchFails, CLIFails, Fails, Goto, process, ConvInv, ConvTypeOK, TurnInv
  <2> QED
    BY <2>1, <2>2
<1>3. /\ \A u \in Turns \ {t} : pc'[u] = pc[u] /\ reply'[u] = reply[u]
      /\ pc'[t] = "failed" /\ reply'[t] \in {"2001", "2002", "2003", "2004", "2006"}
      /\ \A u \in Turns : pc'[u] # "idle" <=> pc[u] # "idle"
  BY <1>1 DEF ConvInv, ConvTypeOK
<1>4. ConvTypeOK'
  <2>1. PICK r \in {"2001", "2002", "2003", "2004", "2006"} : reply' = [reply EXCEPT ![t] = r]
    BY <1>1
  <2>2. r \in {"none", "pong", "invalidParams", "answer", "2001", "2002", "2003", "2004", "2006"}
    OBVIOUS
  <2> QED
    BY <1>1, <1>2, <2>1, <2>2 DEF ConvInv, ConvTypeOK, clients
<1>5. TurnInv'
  BY <1>1, <1>2, <1>3 DEF ConvInv, TurnInv, clients
<1>6. KinInv'
  BY <1>1, <1>2, <1>3 DEF ConvInv, ConvTypeOK, KinInv, Kin, clients
<1>7. LogTellsTheStory'
  BY <1>1, <1>3 DEF ConvInv, LogTellsTheStory, clients
<1> QED
  BY <1>4, <1>5, <1>6, <1>7 DEF ConvInv

\* The process ends, perhaps with an answer that its session then knows of.
LEMMA ExitConvInv ==
  ASSUME ConvInv, NEW t \in Turns, NEW o \in Outcomes, CLIExits(t, o)
  PROVE  ConvInv'
<1>1. /\ pc[t] = "waiting" /\ cli[t] = "running"
      /\ cli' = [cli EXCEPT ![t] = "exited"] /\ exit' = [exit EXCEPT ![t] = o]
      /\ UNCHANGED <<sessions, pc, clients, resumed, reply, trail, earlier>>
  BY DEF CLIExits, ConvInv, TurnInv
<1>2. o \in AllOutcomes
  BY ConversationAssumption
<1>3. \A u \in Turns : cli'[u] = "running" => cli[u] = "running"
  BY <1>1 DEF ConvInv, ConvTypeOK
<1>4. TurnInv'
  BY <1>1, <1>3 DEF ConvInv, TurnInv, clients
<1>5. LogTellsTheStory'
  BY <1>1 DEF ConvInv, LogTellsTheStory, clients
<1>6. CASE UNCHANGED <<session, history>>
  <2>1. ConvTypeOK'
    BY <1>1, <1>2, <1>6 DEF ConvInv, ConvTypeOK, clients
  <2>2. KinInv'
    BY <1>1, <1>3, <1>6 DEF ConvInv, ConvTypeOK, KinInv, Kin, clients
  <2> QED
    BY <1>4, <1>5, <2>1, <2>2 DEF ConvInv
<1>7. ASSUME NEW s \in {t, resumed[t]} \ {None},
             session' = [session EXCEPT ![t] = s],
             history' = [history EXCEPT ![s] =
                 {t} \union IF resumed[t] = None THEN {} ELSE history[resumed[t]]]
      PROVE  ConvInv'
  <2> DEFINE known == {t} \union IF resumed[t] = None THEN {} ELSE history[resumed[t]]
  <2>1. /\ s \in Turns /\ known \subseteq Turns
        /\ resumed[t] \in Turns \union {None}
    BY <1>7 DEF ConvInv, ConvTypeOK
  <2>2. Kin(t, s)
    BY <1>1, <1>7, ConversationAssumption DEF ConvInv, TurnInv, KinInv, Kin
  <2>3. \A u \in known : Kin(s, u)
    BY <2>1, <2>2 DEF ConvInv, KinInv, Kin
  <2> HIDE DEF known
  <2>4. /\ session' = [session EXCEPT ![t] = s] /\ history' = [history EXCEPT ![s] = known]
    BY <1>7 DEF known
  <2>5. ConvTypeOK'
    BY <1>1, <1>2, <2>1, <2>4 DEF ConvInv, ConvTypeOK, clients
  <2>6. \A u \in Turns : /\ session'[u] # None => Kin(u, session'[u])
                         /\ \A v \in history'[u] : Kin(u, v)
    BY <2>1, <2>2, <2>3, <2>4 DEF ConvInv, ConvTypeOK, KinInv
  <2>7. KinInv'
    BY <1>1, <2>6 DEF ConvInv, ConvTypeOK, KinInv, Kin, clients
  <2> QED
    BY <1>4, <1>5, <2>5, <2>7 DEF ConvInv
<1> QED
  BY <1>6, <1>7 DEF CLIExits

LEMMA QuietConvInv ==
  ASSUME ConvInv, NEW t \in Turns, CLIDies(t) \/ CLIAnswers(t)
  PROVE  ConvInv'
<1>1. CASE CLIDies(t)
  <2>1. /\ cli' = [cli EXCEPT ![t] = "exited"]
        /\ UNCHANGED <<sessions, pc, clients, resumed, exit, session, history,
                       reply, trail, earlier>>
    BY <1>1 DEF CLIDies
  <2>2. \A u \in Turns : cli'[u] = "running" => cli[u] = "running"
    BY <2>1 DEF ConvInv, ConvTypeOK
  <2>3. ConvTypeOK'
    BY <2>1 DEF ConvInv, ConvTypeOK, clients
  <2>4. TurnInv' /\ LogTellsTheStory'
    BY <2>1, <2>2 DEF ConvInv, TurnInv, LogTellsTheStory, clients
  <2>5. KinInv'
    BY <2>1, <2>2 DEF ConvInv, KinInv, Kin, clients
  <2> QED
    BY <2>3, <2>4, <2>5 DEF ConvInv
<1>2. CASE CLIAnswers(t)
  <2>1. /\ pc[t] = "waiting" /\ pc' = [pc EXCEPT ![t] = "store"]
        /\ cli[t] = "exited" /\ exit[t] \in {"answer", "answerNoId"}
        /\ UNCHANGED <<sessions, clients, resumed, process, reply, trail, earlier>>
    BY <1>2 DEF CLIAnswers, Goto
  <2>2. /\ \A u \in Turns \ {t} : pc'[u] = pc[u]
        /\ pc'[t] = "store"
        /\ \A u \in Turns : pc'[u] # "idle" <=> pc[u] # "idle"
    BY <2>1 DEF ConvInv, ConvTypeOK
  <2>3. ConvTypeOK'
    BY <2>1, <2>2 DEF ConvInv, ConvTypeOK, clients, process
  <2>4. TurnInv' /\ LogTellsTheStory'
    BY <2>1, <2>2 DEF ConvInv, TurnInv, LogTellsTheStory, clients, process
  <2>5. KinInv'
    BY <2>1, <2>2 DEF ConvInv, ConvTypeOK, KinInv, Kin, clients, process
  <2> QED
    BY <2>3, <2>4, <2>5 DEF ConvInv
<1> QED
  BY <1>1, <1>2

LEMMA StoreConvInv ==
  ASSUME ConvInv, NEW t \in Turns, Store(t)
  PROVE  ConvInv'
<1>1. /\ pc[t] = "store" /\ pc' = [pc EXCEPT ![t] = "respond"]
      /\ sessions' = [sessions EXCEPT ![conv[t]] = IF session[t] = None THEN @ ELSE session[t]]
      /\ UNCHANGED <<clients, resumed, process, reply, trail, earlier>>
  BY DEF Store, Goto
<1>2. /\ \A u \in Turns \ {t} : pc'[u] = pc[u]
      /\ pc'[t] = "respond"
      /\ \A u \in Turns : pc'[u] # "idle" <=> pc[u] # "idle"
  BY <1>1 DEF ConvInv, ConvTypeOK
<1>3. ConvTypeOK'
  BY <1>1, <1>2 DEF ConvInv, ConvTypeOK, clients, process
<1>4. TurnInv' /\ LogTellsTheStory'
  BY <1>1, <1>2 DEF ConvInv, TurnInv, LogTellsTheStory, clients, process
<1>5. conv[t] \in ConvIds
  BY <1>1 DEF ConvInv, TurnInv
<1>6. ASSUME NEW c \in ConvIds, sessions'[c] # None
      PROVE  dialog[sessions'[c]] # None /\ conv[sessions'[c]] = c
  <2>1. CASE c = conv[t] /\ session[t] # None
    <3>1. sessions'[c] = session[t]
      BY <1>1, <2>1 DEF ConvInv, ConvTypeOK
    <3> QED
      BY <2>1, <3>1 DEF ConvInv, KinInv, Kin
  <2>2. CASE c # conv[t] \/ session[t] = None
    <3>1. sessions'[c] = sessions[c]
      BY <1>1, <2>2 DEF ConvInv, ConvTypeOK
    <3> QED
      BY <1>6, <3>1 DEF ConvInv, KinInv
  <2> QED
    BY <2>1, <2>2
<1>7. KinInv'
  BY <1>1, <1>2, <1>6 DEF ConvInv, ConvTypeOK, KinInv, Kin, clients, process
<1> QED
  BY <1>3, <1>4, <1>7 DEF ConvInv

LEMMA RespondConvInv ==
  ASSUME ConvInv, NEW t \in Turns, Respond(t) \/ RespondError(t)
  PROVE  ConvInv'
<1>1. /\ pc[t] \in {"respond", "failed"} /\ pc' = [pc EXCEPT ![t] = "done"]
      /\ reply' \in {reply, [reply EXCEPT ![t] = "answer"]}
      /\ UNCHANGED <<sessions, clients, resumed, process, earlier>>
  BY DEF Respond, RespondError, Answer, Goto
<1>2. /\ trail' \in [Turns -> Seq(LogEntries)]
      /\ trail'[t] = IF reply'[t] = "answer"
                     THEN <<"received", "cli_request", "cli_response", "sent">>
                     ELSE <<"received", "cli_request", "cli_error">>
      /\ \A u \in Turns \ {t} : trail'[u] = trail[u] /\ reply'[u] = reply[u]
  <2>1. trail[t] = Asked
    BY <1>1 DEF ConvInv, TurnInv
  <2>2. CASE Respond(t)
    <3>1. <<"cli_response", "sent">> \in Seq(LogEntries)
      BY DEF LogEntries
    <3>2. reply' = [reply EXCEPT ![t] = "answer"] /\ Record(t, <<"cli_response", "sent">>)
      BY <2>2 DEF Respond, Answer
    <3>3. /\ trail' \in [Turns -> Seq(LogEntries)]
          /\ trail'[t] = trail[t] \o <<"cli_response", "sent">>
          /\ \A u \in Turns \ {t} : trail'[u] = trail[u]
      BY <3>1, <3>2, Recorded DEF ConvInv
    <3>4. reply'[t] = "answer" /\ \A u \in Turns \ {t} : reply'[u] = reply[u]
      BY <3>2 DEF ConvInv, ConvTypeOK
    <3> QED
      BY <2>1, <3>3, <3>4, AskedAndAnswer
  <2>3. CASE RespondError(t)
    <3>1. <<"cli_error">> \in Seq(LogEntries)
      BY DEF LogEntries
    <3>2. reply' = reply /\ Record(t, <<"cli_error">>) /\ pc[t] = "failed"
      BY <2>3 DEF RespondError, Goto
    <3>3. /\ trail' \in [Turns -> Seq(LogEntries)]
          /\ trail'[t] = trail[t] \o <<"cli_error">>
          /\ \A u \in Turns \ {t} : trail'[u] = trail[u]
      BY <3>1, <3>2, Recorded DEF ConvInv
    <3>4. reply'[t] # "answer"
      BY <3>2 DEF ConvInv, TurnInv
    <3> QED
      BY <2>1, <3>2, <3>3, <3>4, AskedAndError
  <2> QED
    BY <2>2, <2>3
<1>3. /\ \A u \in Turns \ {t} : pc'[u] = pc[u]
      /\ pc'[t] = "done"
      /\ \A u \in Turns : pc'[u] # "idle" <=> pc[u] # "idle"
  BY <1>1 DEF ConvInv, ConvTypeOK
<1>4. ConvTypeOK'
  BY <1>1, <1>2, <1>3 DEF ConvInv, ConvTypeOK, clients, process
<1>5. TurnInv'
  BY <1>1, <1>2, <1>3 DEF ConvInv, TurnInv, clients, process
<1>6. LogTellsTheStory'
  BY <1>1, <1>2, <1>3 DEF ConvInv, LogTellsTheStory, clients
<1>7. KinInv'
  BY <1>1, <1>3 DEF ConvInv, ConvTypeOK, KinInv, Kin, clients, process
<1> QED
  BY <1>4, <1>5, <1>6, <1>7 DEF ConvInv

\* The inductive invariant holds in every reachable state.
THEOREM ConvInvHolds == ConvSpec => []ConvInv
<1>1. ConvInit => ConvInv
  BY InitConvInv
<1>2. ConvInv /\ [ConvNext]_convVars => ConvInv'
  <2> SUFFICES ASSUME ConvInv, [ConvNext]_convVars
               PROVE  ConvInv'
    OBVIOUS
  <2>1. CASE UNCHANGED convVars
    BY <2>1 DEF ConvInv, ConvTypeOK, TurnInv, KinInv, Kin, LogTellsTheStory,
                convVars, clients, process
  <2>2. ASSUME NEW t \in Turns, HandlerSteps(t) PROVE ConvInv'
    BY <2>2, LookupConvInv, LaunchConvInv, FailsConvInv, QuietConvInv, StoreConvInv,
       RespondConvInv DEF HandlerSteps
  <2>3. ASSUME NEW t \in Turns, NEW d \in Dialogs, NEW traced \in Traced, NEW now \in 0 .. MaxClock,
               Converse(t, d, traced, now)
        PROVE  ConvInv'
    BY <2>3, ConverseConvInv, ConversationAssumption
  <2> QED
    BY <2>1, <2>2, <2>3, AtOnceConvInv, QuietConvInv, ExitConvInv DEF ConvNext
<1> QED
  BY <1>1, <1>2, PTL DEF ConvSpec

\* Type correctness of the handling of messages (agent.go:324-496).
THEOREM ConvTypeCorrect == ConvSpec => []ConvTypeOK
<1>1. ConvInv => ConvTypeOK
  BY DEF ConvInv
<1> QED
  BY <1>1, ConvInvHolds, PTL

\* No CLI session mixes two dialogs, but for untraced turns that chose their
\* ids at the same reading of the clock (agent.go:336-343).
THEOREM NoCrossTalkHolds == ConvSpec => []NoCrossTalk
<1>1. ASSUME ConvInv, NEW s \in Turns, NEW t \in history[s], NEW u \in history[s],
             dialog[t] # dialog[u]
      PROVE  began[t] = began[u] /\ {conv[t], conv[u]} \intersect Dialogs = {}
  <2>1. t \in Turns /\ u \in Turns
    BY <1>1 DEF ConvInv, ConvTypeOK
  <2>2. dialog[t] \in Dialogs /\ dialog[u] \in Dialogs /\ conv[t] = conv[u]
    BY <1>1, <2>1 DEF ConvInv, ConvTypeOK, KinInv, Kin
  <2>3. began[t] \in 0 .. MaxClock /\ began[u] \in 0 .. MaxClock
    BY <1>1, <2>1 DEF ConvInv, ConvTypeOK
  <2>4. conv[t] \in {dialog[t], began[t]} /\ conv[u] \in {dialog[u], began[u]}
    BY <1>1, <2>1, <2>2 DEF ConvInv, KinInv, Kin
  <2> QED
    BY <1>1, <2>2, <2>3, <2>4, ConversationAssumption
<1>2. ConvInv => NoCrossTalk
  BY <1>1 DEF NoCrossTalk
<1> QED
  BY <1>2, ConvInvHolds, PTL

\* No turn is answered with its process still running (cli.go:114-118).
THEOREM NoOrphanCLIHolds == ConvSpec => []NoOrphanCLI
<1>1. ConvInv => NoOrphanCLI
  BY DEF ConvInv, TurnInv, NoOrphanCLI
<1> QED
  BY <1>1, ConvInvHolds, PTL

\* The log tells of every turn that reached the CLI what was asked and how it
\* ended (agent.go:345-435).
THEOREM LogTellsTheStoryHolds == ConvSpec => []LogTellsTheStory
<1>1. ConvInv => LogTellsTheStory
  BY DEF ConvInv
<1> QED
  BY <1>1, ConvInvHolds, PTL
-----------------------------------------------------------------------------
(* Conversations that go on.  What a session knows of only grows, and a turn *)
(* that has stored its session has stored all it was told of.                *)

\* What comes into being when a process ends with an answer.
BornInv ==
    /\ \A c \in ConvIds : sessions[c] # None => cli[sessions[c]] = "exited"
    /\ \A t \in Turns :
        /\ pc[t] = "idle" => conv[t] = None
        /\ pc[t] \in {"idle", "lookup", "launch"} => cli[t] = "none"
        /\ earlier[t] \subseteq Over
        /\ resumed[t] # None => cli[resumed[t]] = "exited"
        /\ session[t] # None =>
            cli[t] = "exited" /\ cli[session[t]] = "exited" /\ t \in history[session[t]]
        /\ history[t] # {} => cli[t] = "exited"

TakeTurns(c) == \A t, u \in LookedUp(c) : t = u \/ InTurn(t, u)

Told(t) == reply[t] = "answer" /\ session[t] # None

Stored(t) ==
    /\ pc[t] = "respond" \/ (pc[t] = "done" /\ reply[t] = "answer")
    /\ session[t] # None

\* What turn u goes on from, and leaves, if turn t was over before it.
GoesOn(t, u) ==
    /\ resumed[u] # None /\ t \in history[resumed[u]]
    /\ session[u] # None => t \in history[session[u]]

PassOnInv ==
    \A c \in Dialogs : TakeTurns(c) =>
        /\ \A t, u \in LookedUp(c) : (t \in earlier[u] /\ Told(t)) => GoesOn(t, u)
        /\ \A t \in LookedUp(c) : Stored(t) => sessions[c] # None /\ t \in history[sessions[c]]

\* A step that neither looks up nor stores a session, and lets no session
\* forget.
LEMMA StillPassedOn ==
  ASSUME ConvInv, BornInv, PassOnInv,
         UNCHANGED <<earlier, resumed, sessions>>,
         \A c \in Dialogs : LookedUp(c)' = LookedUp(c),
         \A s \in Turns : history[s] \subseteq history'[s],
         \A t \in Turns : Stored(t)' => Stored(t),
         \A t \in Turns : (pc[t] = "done" /\ Told(t)') => Told(t),
         \A u \in Turns : session'[u] = session[u] \/
             (resumed[u] # None => history[resumed[u]] \subseteq history'[session'[u]])
  PROVE  PassOnInv'
<1> SUFFICES ASSUME NEW c \in Dialogs, TakeTurns(c)'
             PROVE  /\ \A t, u \in LookedUp(c) : (t \in earlier[u] /\ Told(t)') => GoesOn(t, u)'
                    /\ \A t \in LookedUp(c) : Stored(t)' =>
                           sessions[c] # None /\ t \in history'[sessions[c]]
  BY DEF PassOnInv
<1>1. TakeTurns(c)
  BY DEF TakeTurns, InTurn
<1>2. LookedUp(c) \subseteq Turns /\ c \in ConvIds
  BY DEF LookedUp, ConvIds
<1>3. ASSUME NEW t \in LookedUp(c), NEW u \in LookedUp(c), t \in earlier[u], Told(t)'
      PROVE  GoesOn(t, u)'
  <2>1. pc[t] = "done" /\ t \in Turns /\ u \in Turns
    BY <1>2, <1>3 DEF BornInv, Over
  <2>2. GoesOn(t, u)
    BY <1>1, <1>3, <2>1 DEF PassOnInv
  <2>3. /\ resumed[u] \in Turns
        /\ session[u] # None => session[u] \in Turns
    BY <2>1, <2>2 DEF ConvInv, ConvTypeOK, GoesOn
  <2>4. resumed' = resumed /\ t \in history'[resumed[u]]
    BY <2>2, <2>3 DEF GoesOn
  <2>5. session'[u] # None => t \in history'[session'[u]]
    BY <2>1, <2>2, <2>3 DEF GoesOn
  <2> QED
    BY <2>2, <2>4, <2>5 DEF GoesOn
<1>4. ASSUME NEW t \in LookedUp(c), Stored(t)'
      PROVE  sessions[c] # None /\ t \in history'[sessions[c]]
  <2>1. Stored(t) /\ t \in Turns
    BY <1>2, <1>4
  <2>2. sessions[c] # None /\ t \in history[sessions[c]]
    BY <1>1, <1>4, <2>1 DEF PassOnInv
  <2>3. sessions[c] \in Turns
    BY <1>2, <2>2 DEF ConvInv, ConvTypeOK
  <2> QED
    BY <2>2, <2>3
<1> QED
  BY <1>3, <1>4

\* Answered without the CLI, or about to be looked up.
LEMMA BeginPassOn ==
  ASSUME ConvInv, BornInv, PassOnInv, NEW t \in Turns,
         \/ RejectEmpty(t) \/ AnswerPing(t) \/ RejectUnanswerable(t)
         \/ \E d \in Dialogs, traced \in Traced, now \in 0 .. MaxClock : Converse(t, d, traced, now)
  PROVE  BornInv' /\ PassOnInv'
<1>1. /\ pc[t] = "idle"
      /\ \/ pc' = [pc EXCEPT ![t] = "done"] /\ conv' = conv
            /\ \E r \in {"invalidParams", "pong", "2001"} : reply' = [reply EXCEPT ![t] = r]
         \/ pc' = [pc EXCEPT ![t] = "lookup"] /\ reply' = reply
            /\ \E c \in ConvIds : conv' = [conv EXCEPT ![t] = c]
      /\ UNCHANGED <<sessions, resumed, process, earlier>>
  <2>1. CASE RejectEmpty(t) \/ AnswerPing(t) \/ RejectUnanswerable(t)
    BY <2>1 DEF RejectEmpty, AnswerPing, RejectUnanswerable, Answer, Goto, clients
  <2>2. ASSUME NEW d \in Dialogs, NEW traced \in Traced, NEW now \in 0 .. MaxClock,
               Converse(t, d, traced, now)
        PROVE  /\ pc[t] = "idle" /\ pc' = [pc EXCEPT ![t] = "lookup"] /\ reply' = reply
               /\ \E c \in ConvIds : conv' = [conv EXCEPT ![t] = c]
               /\ UNCHANGED <<sessions, resumed, process, earlier>>
    <3>1. ConversationId(d, traced, now) \in ConvIds
      BY DEF ConversationId, ConvIds, ConvInv, ConvTypeOK
    <3> QED
      BY <2>2, <3>1 DEF Converse, Goto
  <2> QED
    BY <2>1, <2>2
<1>2. conv[t] = None /\ cli[t] = "none" /\ session[t] = None
  BY <1>1 DEF BornInv
<1>3. /\ \A u \in Turns \ {t} : pc'[u] = pc[u] /\ conv'[u] = conv[u] /\ reply'[u] = reply[u]
      /\ \/ pc'[t] = "done" /\ conv'[t] = None
         \/ pc'[t] = "lookup"
  BY <1>1, <1>2 DEF ConvInv, ConvTypeOK
<1>4. Over \subseteq Over'
  BY <1>1, <1>3 DEF Over
<1>5. BornInv'
  BY <1>1, <1>2, <1>3, <1>4 DEF BornInv, process
<1>6. \A c \in Dialogs : LookedUp(c)' = LookedUp(c)
  BY <1>2, <1>3, ConversationAssumption DEF LookedUp
<1>7. \A u \in Turns : Stored(u)' => Stored(u)
  BY <1>1, <1>2, <1>3 DEF Stored, process
<1>8. \A u \in Turns : (pc[u] = "done" /\ Told(u)') => Told(u)
  BY <1>1, <1>3 DEF Told, process
<1>9. session' = session /\ history' = history
  BY <1>1 DEF process
<1> QED
  BY <1>1, <1>5, <1>6, <1>7, <1>8, <1>9, StillPassedOn

\* A session is looked up: it knows of whoever has stored.
LEMMA LookupPassOn ==
  ASSUME ConvInv, BornInv, PassOnInv, NEW u \in Turns, Lookup(u)
  PROVE  BornInv' /\ PassOnInv'
<1>1. /\ pc[u] = "lookup" /\ pc' = [pc EXCEPT ![u] = "launch"]
      /\ resumed' = [resumed EXCEPT ![u] = sessions[conv[u]]]
      /\ earlier' = [earlier EXCEPT ![u] = Over]
      /\ UNCHANGED <<sessions, conv, process, reply>>
  BY DEF Lookup, Goto, clients
<1>2. conv[u] \in ConvIds /\ cli[u] = "none" /\ session[u] = None
  BY <1>1 DEF ConvInv, TurnInv, BornInv
<1>3. /\ \A v \in Turns \ {u} :
            pc'[v] = pc[v] /\ resumed'[v] = resumed[v] /\ earlier'[v] = earlier[v]
      /\ pc'[u] = "launch" /\ resumed'[u] = sessions[conv[u]] /\ earlier'[u] = Over
  BY <1>1 DEF ConvInv, ConvTypeOK
<1>4. Over' = Over
  BY <1>1, <1>3 DEF Over
<1>5. BornInv'
  BY <1>1, <1>2, <1>3, <1>4 DEF BornInv, process
<1>6. session' = session /\ history' = history /\ \A v \in Turns : Told(v)' <=> Told(v)
  BY <1>1 DEF process, Told
<1>7. \A v \in Turns : Stored(v)' => Stored(v) /\ v # u
  BY <1>1, <1>3, <1>6 DEF Stored
<1>8. ASSUME NEW c \in Dialogs, TakeTurns(c)'
      PROVE  /\ \A t, v \in LookedUp(c)' : (t \in earlier'[v] /\ Told(t)') => GoesOn(t, v)'
             /\ \A t \in LookedUp(c)' : Stored(t)' =>
                    sessions'[c] # None /\ t \in history'[sessions'[c]]
  <2>1. /\ LookedUp(c) \subseteq Turns \ {u}
        /\ LookedUp(c)' = LookedUp(c) \union (IF conv[u] = c THEN {u} ELSE {})
    BY <1>1, <1>3 DEF LookedUp
  <2>2. TakeTurns(c)
    BY <1>3, <1>8, <2>1 DEF TakeTurns, InTurn
  <2>3. ASSUME NEW t \in LookedUp(c)', NEW v \in LookedUp(c)', t \in earlier'[v], Told(t)'
        PROVE  GoesOn(t, v)'
    <3>1. t \in Over /\ t \in Turns /\ v \in Turns
      BY <1>3, <2>1, <2>3 DEF BornInv, Over
    <3>2. t # u /\ t \in LookedUp(c) /\ Told(t)
      BY <1>1, <1>6, <2>1, <2>3, <3>1 DEF Over
    <3>3. CASE v # u
      <4>1. v \in LookedUp(c) /\ t \in earlier[v]
        BY <1>3, <2>1, <2>3, <3>1, <3>3
      <4>2. GoesOn(t, v)
        BY <2>2, <3>2, <4>1 DEF PassOnInv
      <4> QED
        BY <1>3, <1>6, <3>1, <3>3, <4>2 DEF GoesOn
    <3>4. CASE v = u
      <4>1. conv[u] = c
        BY <2>1, <3>4
      <4>2. Stored(t)
        BY <3>1, <3>2 DEF Stored, Told, Over
      <4>3. sessions[c] # None /\ t \in history[sessions[c]]
        BY <2>2, <3>2, <4>2 DEF PassOnInv
      <4> QED
        BY <1>2, <1>3, <1>6, <3>4, <4>1, <4>3 DEF GoesOn
    <3> QED
      BY <3>3, <3>4
  <2>4. ASSUME NEW t \in LookedUp(c)', Stored(t)'
        PROVE  sessions'[c] # None /\ t \in history'[sessions'[c]]
    <3>1. Stored(t) /\ t \in LookedUp(c)
      BY <1>7, <2>1, <2>4
    <3> QED
      BY <1>1, <1>6, <2>2, <3>1 DEF PassOnInv
  <2> QED
    BY <2>3, <2>4
<1> QED
  BY <1>5, <1>8 DEF PassOnInv

\* The CLI is started, given up, killed, or found to have ended.
LEMMA WaitPassOn ==
  ASSUME ConvInv, BornInv, PassOnInv, NEW t \in Turns,
         \/ Launch(t) \/ LaunchFails(t) \/ TimesOut(t) \/ CLIFails(t)
         \/ CLIAnswers(t) \/ CLIDies(t)
  PROVE  BornInv' /\ PassOnInv'
<1>1. /\ UNCHANGED <<sessions, conv, resumed, earlier, session, history>>
      /\ \/ pc' = pc /\ reply' = reply
         \/ /\ pc[t] \in {"launch", "waiting"}
            /\ \E to \in {"waiting", "failed", "store"} : pc' = [pc EXCEPT ![t] = to]
            /\ \/ reply' = reply
               \/ \E r \in {"2001", "2002", "2003", "2004", "2006"} :
                      reply' = [reply EXCEPT ![t] = r]
      /\ \/ cli' = cli
         \/ /\ cli[t] # "exited" /\ pc'[t] \notin {"idle", "lookup", "launch"}
            /\ \E p \in {"running", "killed", "exited"} : cli' = [cli EXCEPT ![t] = p]
  <2>1. CASE Launch(t)
    <3>1. /\ UNCHANGED <<sessions, conv, resumed, earlier, session, history, reply>>
          /\ pc[t] = "launch" /\ pc' = [pc EXCEPT ![t] = "waiting"]
          /\ cli' = [cli EXCEPT ![t] = "running"]
      BY <2>1 DEF Launch, Goto, clients
    <3>2. cli[t] # "exited" /\ pc'[t] = "waiting"
      BY <3>1 DEF BornInv, ConvInv, ConvTypeOK
    <3> QED
      BY <3>1, <3>2
  <2>2. CASE LaunchFails(t) \/ CLIFails(t)
    BY <2>2 DEF LaunchFails, CLIFails, Fails, Goto, CodeOf, clients, process
  <2>3. CASE TimesOut(t)
    <3>1. /\ UNCHANGED <<sessions, conv, resumed, earlier, session, history>>
          /\ pc[t] = "waiting" /\ pc' = [pc EXCEPT ![t] = "failed"]
          /\ reply' = [reply EXCEPT ![t] = "2003"]
          /\ cli' = [cli EXCEPT ![t] = IF cli[t] = "running" THEN "killed" ELSE cli[t]]
      BY <2>3 DEF TimesOut, Fails, Goto, clients
    <3>2. cli' = cli \/ (cli[t] # "exited" /\ cli' = [cli EXCEPT ![t] = "killed"])
      BY <3>1 DEF ConvInv, ConvTypeOK
    <3>3. pc'[t] = "failed"
      BY <3>1 DEF ConvInv, ConvTypeOK
    <3> QED
      BY <3>1, <3>2, <3>3
  <2>4. CASE CLIAnswers(t)
    BY <2>4 DEF CLIAnswers, Goto, clients, process
  <2>5. CASE CLIDies(t)
    <3>1. /\ UNCHANGED <<sessions, conv, resumed, earlier, session, history, pc, reply>>
          /\ cli[t] = "killed" /\ cli' = [cli EXCEPT ![t] = "exited"]
      BY <2>5 DEF CLIDies, clients
    <3>2. pc[t] \notin {"idle", "lookup", "launch"}
      BY <3>1 DEF BornInv
    <3> QED
      BY <3>1, <3>2
  <2> QED
    BY <2>1, <2>2, <2>3, <2>4, <2>5
<1>2. \A u \in Turns :
        /\ pc'[u] = "lookup" <=> pc[u] = "lookup"
        /\ pc'[u] \in {"idle", "lookup", "launch"} => pc[u] = pc'[u] /\ cli'[u] = cli[u]
        /\ pc[u] = "done" => pc'[u] = "done" /\ reply'[u] = reply[u]
        /\ pc'[u] \in {"respond", "done"} => pc[u] = pc'[u] /\ reply'[u] = reply[u]
        /\ cli[u] = "exited" => cli'[u] = "exited"
  BY <1>1 DEF ConvInv, ConvTypeOK
<1>3. BornInv'
  <2>1. Over \subseteq Over'
    BY <1>2 DEF Over
  <2>2. \A u \in Turns : resumed[u] \in Turns \union {None} /\ session[u] \in Turns \union {None}
    BY DEF ConvInv, ConvTypeOK
  <2>3. \A c \in ConvIds : sessions[c] \in Turns \union {None}
    BY DEF ConvInv, ConvTypeOK
  <2> QED
    BY <1>1, <1>2, <2>1, <2>2, <2>3 DEF BornInv
<1>4. \A c \in Dialogs : LookedUp(c)' = LookedUp(c)
  BY <1>1, <1>2 DEF LookedUp
<1>5. \A u \in Turns : Stored(u)' => Stored(u)
  BY <1>1, <1>2 DEF Stored
<1>6. \A u \in Turns : (pc[u] = "done" /\ Told(u)') => Told(u)
  BY <1>1, <1>2 DEF Told
<1> QED
  BY <1>1, <1>3, <1>4, <1>5, <1>6, StillPassedOn

\* The process ends: no session forgets, and one that answers knows of all
\* that the session it went on from knew of.
LEMMA ExitPassOn ==
  ASSUME ConvInv, BornInv, PassOnInv, NEW t \in Turns, NEW o \in Outcomes, CLIExits(t, o)
  PROVE  BornInv' /\ PassOnInv'
<1>1. /\ pc[t] = "waiting" /\ cli[t] = "running" /\ cli' = [cli EXCEPT ![t] = "exited"]
      /\ UNCHANGED <<sessions, pc, conv, resumed, reply, earlier>>
  BY DEF CLIExits, ConvInv, TurnInv, clients
<1>2. /\ cli'[t] = "exited" /\ \A u \in Turns \ {t} : cli'[u] = cli[u]
      /\ \A u \in Turns : cli[u] = "exited" => cli'[u] = "exited" /\ u # t
  BY <1>1 DEF ConvInv, ConvTypeOK
<1>3. session[t] = None /\ history[t] = {}
  BY <1>1 DEF BornInv
<1>4. \A u \in Turns : /\ session[u] \in Turns \union {None} /\ resumed[u] \in Turns \union {None}
                       /\ history[u] \subseteq Turns
  BY DEF ConvInv, ConvTypeOK
<1>5. /\ \A s \in Turns : history[s] \subseteq history'[s]
      /\ \A s \in Turns : history'[s] # {} => cli'[s] = "exited"
      /\ \A u \in Turns \ {t} : session'[u] = session[u]
      /\ session'[t] # None => /\ cli'[session'[t]] = "exited" /\ session'[t] \in Turns
                              /\ t \in history'[session'[t]]
      /\ resumed[t] # None /\ session'[t] # None => history[resumed[t]] \subseteq history'[session'[t]]
  <2>1. CASE UNCHANGED <<session, history>>
    BY <1>2, <1>3, <2>1 DEF BornInv
  <2>2. ASSUME NEW s \in {t, resumed[t]} \ {None},
               session' = [session EXCEPT ![t] = s],
               history' = [history EXCEPT ![s] =
                   {t} \union IF resumed[t] = None THEN {} ELSE history[resumed[t]]]
        PROVE  /\ \A r \in Turns : history[r] \subseteq history'[r]
               /\ \A r \in Turns : history'[r] # {} => cli'[r] = "exited"
               /\ \A u \in Turns \ {t} : session'[u] = session[u]
               /\ session'[t] # None => /\ cli'[session'[t]] = "exited" /\ session'[t] \in Turns
                                       /\ t \in history'[session'[t]]
               /\ resumed[t] # None /\ session'[t] # None =>
                      history[resumed[t]] \subseteq history'[session'[t]]
    <3> DEFINE known == {t} \union IF resumed[t] = None THEN {} ELSE history[resumed[t]]
    <3>1. s \in Turns /\ cli'[s] = "exited"
      BY <1>2, <1>4, <2>2 DEF BornInv
    <3>2. history[s] \subseteq known /\ t \in known
      BY <1>3, <2>2
    <3>3. resumed[t] # None => history[resumed[t]] \subseteq known
      OBVIOUS
    <3>4. /\ session'[t] = s /\ \A u \in Turns \ {t} : session'[u] = session[u]
          /\ history'[s] = known /\ \A r \in Turns \ {s} : history'[r] = history[r]
      BY <2>2, <3>1 DEF ConvInv, ConvTypeOK
    <3> HIDE DEF known
    <3> QED
      BY <1>2, <3>1, <3>2, <3>3, <3>4 DEF BornInv
  <2> QED
    BY <2>1, <2>2 DEF CLIExits
<1>6. BornInv'
  <2>1. Over' = Over
    BY <1>1 DEF Over
  <2>2. \A c \in ConvIds : sessions[c] \in Turns \union {None}
    BY DEF ConvInv, ConvTypeOK
  <2>3. \A c \in ConvIds : sessions'[c] # None => cli'[sessions'[c]] = "exited"
    BY <1>1, <1>2, <2>2 DEF BornInv
  <2>4. ASSUME NEW u \in Turns
        PROVE  /\ pc'[u] = "idle" => conv'[u] = None
               /\ pc'[u] \in {"idle", "lookup", "launch"} => cli'[u] = "none"
               /\ earlier'[u] \subseteq Over'
               /\ resumed'[u] # None => cli'[resumed'[u]] = "exited"
               /\ history'[u] # {} => cli'[u] = "exited"
    BY <1>1, <1>2, <1>4, <1>5, <2>1 DEF BornInv
  <2>5. ASSUME NEW u \in Turns, session'[u] # None
        PROVE  cli'[u] = "exited" /\ cli'[session'[u]] = "exited" /\ u \in history'[session'[u]]
    <3>1. CASE u = t
      BY <1>2, <1>5, <2>5, <3>1
    <3>2. CASE u # t
      BY <1>2, <1>4, <1>5, <2>5, <3>2 DEF BornInv
    <3> QED
      BY <3>1, <3>2
  <2> QED
    BY <2>3, <2>4, <2>5 DEF BornInv
<1>7. \A c \in Dialogs : LookedUp(c)' = LookedUp(c)
  BY <1>1 DEF LookedUp
<1>8. \A u \in Turns : Stored(u)' => Stored(u)
  BY <1>1, <1>5 DEF Stored
<1>9. \A u \in Turns : (pc[u] = "done" /\ Told(u)') => Told(u)
  BY <1>1, <1>5 DEF Told
<1>10. \A u \in Turns : session'[u] = session[u] \/
          (resumed[u] # None => history[resumed[u]] \subseteq history'[session'[u]])
  BY <1>3, <1>5
<1> QED
  BY <1>1, <1>5, <1>6, <1>7, <1>8, <1>9, <1>10, StillPassedOn

\* A turn stores its session, which was told of all that others had stored.
LEMMA StorePassOn ==
  ASSUME ConvInv, BornInv, PassOnInv, NEW t \in Turns, Store(t)
  PROVE  BornInv' /\ PassOnInv'
<1>1. /\ pc[t] = "store" /\ pc' = [pc EXCEPT ![t] = "respond"]
      /\ sessions' = [sessions EXCEPT ![conv[t]] = IF session[t] = None THEN @ ELSE session[t]]
      /\ UNCHANGED <<conv, resumed, process, reply, earlier>>
  BY DEF Store, Goto, clients
<1>2. conv[t] \in ConvIds
  BY <1>1 DEF ConvInv, TurnInv
<1>3. /\ \A u \in Turns \ {t} : pc'[u] = pc[u] /\ pc'[t] = "respond"
      /\ \A c \in ConvIds : sessions'[c] =
             IF c = conv[t] /\ session[t] # None THEN session[t] ELSE sessions[c]
  BY <1>1, <1>2 DEF ConvInv, ConvTypeOK
<1>4. BornInv'
  <2>1. Over' = Over
    BY <1>1, <1>3 DEF Over
  <2>2. \A c \in ConvIds : sessions'[c] # None => cli[sessions'[c]] = "exited"
    BY <1>3 DEF BornInv
  <2> QED
    BY <1>1, <1>3, <2>1, <2>2 DEF BornInv, process
<1>5. ASSUME NEW c \in Dialogs, TakeTurns(c)'
      PROVE  /\ \A x, u \in LookedUp(c)' : (x \in earlier'[u] /\ Told(x)') => GoesOn(x, u)'
             /\ \A x \in LookedUp(c)' : Stored(x)' =>
                    sessions'[c] # None /\ x \in history'[sessions'[c]]
  <2>1. LookedUp(c)' = LookedUp(c) /\ LookedUp(c) \subseteq Turns /\ c \in ConvIds
    BY <1>1, <1>3 DEF LookedUp, ConvIds
  <2>2. TakeTurns(c)
    BY <1>1, <1>5, <2>1 DEF TakeTurns, InTurn
  <2>3. \A x, u \in LookedUp(c) : (x \in earlier[u] /\ Told(x)) => GoesOn(x, u)
    BY <2>2 DEF PassOnInv
  <2>4. ASSUME NEW x \in LookedUp(c), Stored(x)'
        PROVE  sessions'[c] # None /\ x \in history[sessions'[c]]
    <3>1. CASE c = conv[t] /\ session[t] # None
      <4>1. t \in LookedUp(c) /\ sessions'[c] = session[t]
        BY <1>1, <1>3, <2>1, <3>1 DEF LookedUp
      <4>2. CASE x = t
        BY <3>1, <4>1, <4>2 DEF BornInv
      <4>3. CASE x # t
        <5>1. Stored(x)
          BY <1>1, <1>3, <2>1, <2>4, <4>3 DEF Stored, process
        <5>2. t \notin earlier[x]
          BY <1>1, <2>1 DEF BornInv, Over
        <5>3. x \in earlier[t]
          BY <2>2, <4>1, <4>3, <5>2 DEF TakeTurns, InTurn
        <5>4. Told(x)
          BY <5>1, <5>3 DEF BornInv, Over, Stored, Told
        <5> QED
          BY <2>3, <3>1, <4>1, <5>3, <5>4 DEF GoesOn
      <4> QED
        BY <4>2, <4>3
    <3>2. CASE ~(c = conv[t] /\ session[t] # None)
      <4>1. x # t
        BY <1>1, <2>4, <3>2 DEF Stored, process, LookedUp
      <4>2. Stored(x)
        BY <1>1, <1>3, <2>1, <2>4, <4>1 DEF Stored, process
      <4> QED
        BY <1>3, <2>1, <2>2, <3>2, <4>2 DEF PassOnInv
    <3> QED
      BY <3>1, <3>2
  <2> QED
    BY <1>1, <2>1, <2>3, <2>4 DEF Told, GoesOn, process
<1> QED
  BY <1>4, <1>5 DEF PassOnInv

\* A turn is answered, after which another may be told of it.
LEMMA RespondPassOn ==
  ASSUME ConvInv, BornInv, PassOnInv, NEW t \in Turns, Respond(t) \/ RespondError(t)
  PROVE  BornInv' /\ PassOnInv'
<1>1. /\ pc' = [pc EXCEPT ![t] = "done"]
      /\ \/ pc[t] = "respond" /\ reply' = [reply EXCEPT ![t] = "answer"]
         \/ pc[t] = "failed" /\ reply' = reply
      /\ UNCHANGED <<sessions, conv, resumed, process, earlier>>
  BY DEF Respond, RespondError, Answer, Goto, clients
<1>2. \A u \in Turns \ {t} : pc'[u] = pc[u] /\ reply'[u] = reply[u] /\ pc'[t] = "done"
  BY <1>1 DEF ConvInv, ConvTypeOK
<1>3. BornInv'
  <2>1. Over \subseteq Over'
    BY <1>1, <1>2 DEF Over
  <2> QED
    BY <1>1, <1>2, <2>1 DEF BornInv, process
<1>4. \A c \in Dialogs : LookedUp(c)' = LookedUp(c)
  BY <1>1, <1>2 DEF LookedUp
<1>5. \A u \in Turns : Stored(u)' => Stored(u)
  <2>1. pc[t] = "failed" => reply'[t] # "answer"
    BY <1>1 DEF ConvInv, TurnInv
  <2> QED
    BY <1>1, <1>2, <2>1 DEF Stored, process
<1>6. \A u \in Turns : (pc[u] = "done" /\ Told(u)') => Told(u)
  BY <1>1, <1>2 DEF Told, process
<1>7. session' = session /\ history' = history
  BY <1>1 DEF process
<1> QED
  BY <1>1, <1>3, <1>4, <1>5, <1>6, <1>7, StillPassedOn

\* Both invariants hold for good.
LEMMA PassOnHolds == ConvSpec => [](BornInv /\ PassOnInv)
<1>1. ConvInit => BornInv /\ PassOnInv
  BY ConversationAssumption DEF ConvInit, BornInv, PassOnInv, Over, LookedUp
<1>2. ConvInv /\ BornInv /\ PassOnInv /\ [ConvNext]_convVars => BornInv' /\ PassOnInv'
  <2> SUFFICES ASSUME ConvInv, BornInv, PassOnInv, [ConvNext]_convVars
               PROVE  BornInv' /\ PassOnInv'
    OBVIOUS
  <2>1. CASE UNCHANGED convVars
    <3>1. UNCHANGED <<sessions, pc, conv, resumed, process, reply, earlier>>
      BY <2>1 DEF convVars, clients
    <3> QED
      BY <3>1 DEF BornInv, Over, PassOnInv, TakeTurns, InTurn, LookedUp, GoesOn, Told, Stored,
                  process
  <2>2. ASSUME NEW t \in Turns, HandlerSteps(t) PROVE BornInv' /\ PassOnInv'
    BY <2>2, LookupPassOn, WaitPassOn, StorePassOn, RespondPassOn DEF HandlerSteps
  <2> QED
    BY <2>1, <2>2, BeginPassOn, WaitPassOn, ExitPassOn DEF ConvNext
<1> QED
  BY <1>1, <1>2, ConvInvHolds, PTL DEF ConvSpec

\* A conversation whose turns never overlapped goes on, whichever of them
\* failed or timed out (agent.go:343, 362, 393).
THEOREM ContinuityHolds == ConvSpec => []Continuity
<1>1. BornInv /\ PassOnInv => Continuity
  BY DEF PassOnInv, TakeTurns, GoesOn, Told, Continuity
<1> QED
  BY <1>1, PassOnHolds, PTL

-----------------------------------------------------------------------------
(* What is promised of a message.  Each step of a turn is a step of the    *)
(* promise or none of its business.                                        *)

\* A process has a result once it has ended, and only a ping gets a pong.
EndInv ==
    \A t \in Turns :
        /\ exit[t] # "none" => cli[t] = "exited"
        /\ pc[t] = "failed" => reply[t] # "pong"

LEMMA EndInvHolds == ConvSpec => []EndInv
<1>1. ConvInit => EndInv
  BY DEF ConvInit, EndInv
<1>2. ConvInv /\ BornInv /\ EndInv /\ [ConvNext]_convVars => EndInv'
  <2> SUFFICES ASSUME ConvInv, BornInv, EndInv, [ConvNext]_convVars PROVE EndInv'
    OBVIOUS
  <2>1. CASE UNCHANGED <<pc, cli, exit, reply>>
    BY <2>1 DEF EndInv
  <2>2. ASSUME NEW t \in Turns,
               pc[t] \in {"idle", "respond", "lookup", "store", "failed"},
               UNCHANGED <<cli, exit>>,
               reply' = reply \/ \E r : reply' = [reply EXCEPT ![t] = r],
               \E to \in {"done", "lookup", "launch", "respond"} : pc' = [pc EXCEPT ![t] = to]
        PROVE  EndInv'
    BY <2>2 DEF ConvInv, ConvTypeOK, EndInv
  <2>3. ASSUME NEW t \in Turns, Launch(t) PROVE EndInv'
    <3>1. cli[t] = "none" /\ exit[t] = "none"
      BY <2>3 DEF Launch, Goto, BornInv, EndInv
    <3> QED
      BY <2>3, <3>1 DEF Launch, Goto, ConvInv, ConvTypeOK, EndInv
  <2>4. ASSUME NEW t \in Turns, LaunchFails(t) \/ TimesOut(t) \/ CLIFails(t) \/ CLIAnswers(t)
        PROVE  EndInv'
    <3>1. /\ exit' = exit
          /\ \A u \in Turns : cli[u] = "exited" => cli'[u] = "exited"
      BY <2>4 DEF LaunchFails, TimesOut, CLIFails, CLIAnswers, process, ConvInv, ConvTypeOK
    <3>2. \A u \in Turns : pc'[u] = "failed" =>
             (pc[u] = "failed" /\ reply'[u] = reply[u])
             \/ reply'[u] \in {"2001", "2002", "2003", "2004", "2006"}
      BY <2>4 DEF LaunchFails, TimesOut, CLIFails, CLIAnswers, Fails, Goto, CodeOf, ConvInv,
                  ConvTypeOK
    <3> QED
      BY <3>1, <3>2 DEF EndInv
  <2>5. ASSUME NEW t \in Turns, CLIDies(t) \/ \E o \in Outcomes : CLIExits(t, o) PROVE EndInv'
    BY <2>5 DEF CLIDies, CLIExits, ConvInv, ConvTypeOK, EndInv
  <2>6. ASSUME NEW t \in Turns, RejectEmpty(t) \/ AnswerPing(t) \/ RejectUnanswerable(t)
                                \/ Respond(t) \/ RespondError(t)
        PROVE  EndInv'
    <3>1. /\ pc[t] \in {"idle", "respond", "failed"} /\ UNCHANGED <<cli, exit>>
          /\ reply' = reply \/ \E r : reply' = [reply EXCEPT ![t] = r]
          /\ pc' = [pc EXCEPT ![t] = "done"]
      BY <2>6 DEF RejectEmpty, AnswerPing, RejectUnanswerable, Respond, RespondError, Answer, Goto,
                  process
    <3> QED
      BY <2>2, <3>1
  <2>7. ASSUME NEW t \in Turns, \/ \E d \in Dialogs, traced \in Traced, now \in 0 .. MaxClock :
                                      Converse(t, d, traced, now)
                                \/ Lookup(t) \/ Store(t)
        PROVE  EndInv'
    <3>1. /\ pc[t] \in {"idle", "lookup", "store"} /\ UNCHANGED <<cli, exit, reply>>
          /\ \E to \in {"lookup", "launch", "respond"} : pc' = [pc EXCEPT ![t] = to]
      BY <2>7 DEF Converse, Lookup, Store, Goto, process
    <3> QED
      BY <2>2, <3>1
  <2>8. CASE UNCHANGED convVars
    BY <2>1, <2>8 DEF convVars, process
  <2> QED
    BY <2>3, <2>4, <2>5, <2>6, <2>7, <2>8 DEF ConvNext, HandlerSteps
<1> QED
  BY <1>1, <1>2, ConvInvHolds, PassOnHolds, PTL DEF ConvSpec

\* What one turn does leaves the others as they are.
LEMMA OneTurnMoves ==
  ASSUME NEW t \in Turns,
         \A u \in Turns \ {t} : /\ pc'[u] = pc[u] /\ cli'[u] = cli[u]
                                /\ reply'[u] = reply[u] /\ trail'[u] = trail[u]
  PROVE  /\ [u \in Turns |-> Place(u)'] = [[u \in Turns |-> Place(u)] EXCEPT ![t] = Place(t)']
         /\ [u \in Turns |-> Work(u)'] = [[u \in Turns |-> Work(u)] EXCEPT ![t] = Work(t)']
         /\ [u \in Turns |-> AnswerTo(u)']
               = [[u \in Turns |-> AnswerTo(u)] EXCEPT ![t] = AnswerTo(t)']
         /\ [u \in Turns |-> LogOf(u)'] = [[u \in Turns |-> LogOf(u)] EXCEPT ![t] = LogOf(t)']
<1>1. \A u \in Turns \ {t} : /\ Place(u)' = Place(u) /\ Work(u)' = Work(u)
                             /\ AnswerTo(u)' = AnswerTo(u) /\ LogOf(u)' = LogOf(u)
  BY DEF Place, Work, AnswerTo, LogOf
<1> QED
  BY <1>1

\* A turn that moves without the promise noticing.
LEMMA TurnStutters ==
  ASSUME NEW t \in Turns,
         \A u \in Turns \ {t} : /\ pc'[u] = pc[u] /\ cli'[u] = cli[u]
                                /\ reply'[u] = reply[u] /\ trail'[u] = trail[u],
         Place(t)' = Place(t), Work(t)' = Work(t), AnswerTo(t)' = AnswerTo(t),
         LogOf(t)' = LogOf(t)
  PROVE  UNCHANGED Promise!turn
<1>1. \A u \in Turns : /\ Place(u)' = Place(u) /\ Work(u)' = Work(u)
                       /\ AnswerTo(u)' = AnswerTo(u) /\ LogOf(u)' = LogOf(u)
  BY DEF Place, Work, AnswerTo, LogOf
<1> QED
  BY <1>1 DEF Promise!turn

\* Without a process.
LEMMA AtOnceAsPromised ==
  ASSUME ConvInv, NEW t \in Turns, RejectEmpty(t) \/ AnswerPing(t) \/ RejectUnanswerable(t)
  PROVE  Promise!AnswerAtOnce(t)
<1>1. /\ pc[t] = "idle" /\ trail[t] = <<>> /\ cli' = cli
      /\ pc'[t] = "done" /\ \A u \in Turns \ {t} : pc'[u] = pc[u] /\ reply'[u] = reply[u]
  BY DEF RejectEmpty, AnswerPing, RejectUnanswerable, Answer, Goto, process, ConvInv, ConvTypeOK,
         TurnInv
<1>2. /\ \/ reply'[t] = "pong" /\ trail'[t] = <<"received", "sent">>
         \/ reply'[t] \in {"invalidParams", "2001"} /\ trail'[t] \in {<<>>, <<"received">>}
      /\ \A u \in Turns \ {t} : trail'[u] = trail[u]
  <2>1. CASE RejectEmpty(t)
    BY <1>1, <2>1 DEF RejectEmpty, Answer, ConvInv, ConvTypeOK
  <2>2. CASE AnswerPing(t)
    <3>1. <<"received", "sent">> \in Seq(LogEntries)
      BY DEF LogEntries
    <3>2. reply'[t] = "pong"
      BY <2>2 DEF AnswerPing, Answer, ConvInv, ConvTypeOK
    <3>3. /\ trail'[t] = <<>> \o <<"received", "sent">>
          /\ \A u \in Turns \ {t} : trail'[u] = trail[u]
      BY <1>1, <2>2, <3>1, Recorded DEF AnswerPing, ConvInv
    <3> QED
      BY <3>1, <3>2, <3>3, EmptyAnd
  <2>3. CASE RejectUnanswerable(t)
    <3>1. <<"received">> \in Seq(LogEntries)
      BY DEF LogEntries
    <3>2. reply'[t] \in {"invalidParams", "2001"}
      BY <2>3 DEF RejectUnanswerable, Answer, ConvInv, ConvTypeOK
    <3>3. /\ trail'[t] = <<>> \o <<"received">>
          /\ \A u \in Turns \ {t} : trail'[u] = trail[u]
      BY <1>1, <2>3, <3>1, Recorded DEF RejectUnanswerable, ConvInv
    <3> QED
      BY <3>1, <3>2, <3>3, EmptyAnd
  <2> QED
    BY <2>1, <2>2, <2>3
<1>3. /\ Place(t) = "new" /\ Place(t)' = "over" /\ Work(t)' = Work(t)
      /\ \/ AnswerTo(t)' = "pong" /\ LogOf(t)' = <<"received", "sent">>
         \/ AnswerTo(t)' = "other" /\ LogOf(t)' \in {<<>>, <<"received">>}
  BY <1>1, <1>2 DEF Place, Work, AnswerTo, LogOf
<1>4. [u \in Turns |-> Work(u)'] = [u \in Turns |-> Work(u)]
  BY <1>1 DEF Work
<1>5. /\ [u \in Turns |-> Place(u)'] = [[u \in Turns |-> Place(u)] EXCEPT ![t] = Place(t)']
      /\ [u \in Turns |-> AnswerTo(u)']
            = [[u \in Turns |-> AnswerTo(u)] EXCEPT ![t] = AnswerTo(t)']
      /\ [u \in Turns |-> LogOf(u)'] = [[u \in Turns |-> LogOf(u)] EXCEPT ![t] = LogOf(t)']
  BY <1>1, <1>2, OneTurnMoves
<1> QED
  BY <1>3, <1>4, <1>5 DEF Promise!AnswerAtOnce, Promise!Conclude, Promise!Move

\* The CLI is asked.
LEMMA LookupAsPromised ==
  ASSUME ConvInv, ConvInv', NEW t \in Turns, Lookup(t)
  PROVE  Promise!Ask(t)
<1>1. /\ pc[t] = "lookup" /\ pc'[t] = "launch" /\ cli' = cli /\ reply' = reply
      /\ \A u \in Turns \ {t} : pc'[u] = pc[u] /\ trail'[u] = trail[u]
  BY DEF Lookup, Goto, Record, process, ConvInv, ConvTypeOK, TurnInv
<1>2. trail'[t] = <<"received", "cli_request">>
  BY <1>1 DEF ConvInv, TurnInv, Asked
<1>3. /\ Place(t) = "new" /\ Place(t)' = "asked"
      /\ LogOf(t)' = <<"received", "cli_request">>
  BY <1>1, <1>2 DEF Place, LogOf
<1>4. /\ [u \in Turns |-> Work(u)'] = [u \in Turns |-> Work(u)]
      /\ [u \in Turns |-> AnswerTo(u)'] = [u \in Turns |-> AnswerTo(u)]
  BY <1>1 DEF Work, AnswerTo
<1>5. /\ [u \in Turns |-> Place(u)'] = [[u \in Turns |-> Place(u)] EXCEPT ![t] = Place(t)']
      /\ [u \in Turns |-> LogOf(u)'] = [[u \in Turns |-> LogOf(u)] EXCEPT ![t] = LogOf(t)']
  BY <1>1, OneTurnMoves
<1> QED
  BY <1>3, <1>4, <1>5 DEF Promise!Ask, Promise!Move

\* The process is started, and it ends.
LEMMA ProcessAsPromised ==
  ASSUME ConvInv, BornInv, NEW t \in Turns,
         \/ Launch(t) \/ TimesOut(t) \/ CLIDies(t) \/ \E o \in Outcomes : CLIExits(t, o)
  PROVE  Promise!Run(t) \/ Promise!ProcessEnds(t) \/ UNCHANGED Promise!turn
<1>1. /\ trail' = trail
      /\ \A u \in Turns \ {t} : /\ pc'[u] = pc[u] /\ cli'[u] = cli[u]
                                /\ reply'[u] = reply[u] /\ trail'[u] = trail[u]
      /\ Place(t)' = Place(t)
  BY DEF Launch, TimesOut, CLIDies, CLIExits, Fails, Goto, process, ConvInv, ConvTypeOK, Place
<1>2. /\ AnswerTo(t)' = AnswerTo(t) /\ LogOf(t)' = LogOf(t)
  BY DEF Launch, TimesOut, CLIDies, CLIExits, Fails, Goto, process, ConvInv, ConvTypeOK, Place,
         AnswerTo, LogOf
<1>3. /\ [u \in Turns |-> Place(u)'] = [u \in Turns |-> Place(u)]
      /\ [u \in Turns |-> AnswerTo(u)'] = [u \in Turns |-> AnswerTo(u)]
      /\ [u \in Turns |-> LogOf(u)'] = [u \in Turns |-> LogOf(u)]
      /\ [u \in Turns |-> Work(u)'] = [[u \in Turns |-> Work(u)] EXCEPT ![t] = Work(t)']
  BY <1>1, <1>2, OneTurnMoves
<1>4. \/ Work(t)' = Work(t)
      \/ Work(t) = "none" /\ Work(t)' = "running" /\ Place(t) = "asked"
      \/ Work(t) = "running" /\ Work(t)' = "ended"
  BY DEF Launch, TimesOut, CLIDies, CLIExits, Fails, Goto, process, ConvInv, ConvTypeOK, Place,
         Work, BornInv
<1>5. CASE Work(t)' = Work(t)
  BY <1>1, <1>2, <1>5, TurnStutters
<1>6. CASE Work(t) = "none" /\ Work(t)' = "running" /\ Place(t) = "asked"
  BY <1>3, <1>6 DEF Promise!Run
<1>7. CASE Work(t) = "running" /\ Work(t)' = "ended"
  BY <1>3, <1>7 DEF Promise!ProcessEnds
<1> QED
  BY <1>4, <1>5, <1>6, <1>7

\* The promise says nothing of when a result is looked at and a session kept.
LEMMA QuietAsPromised ==
  ASSUME ConvInv, NEW t \in Turns,
         \/ \E d \in Dialogs, traced \in Traced, now \in 0 .. MaxClock : Converse(t, d, traced, now)
         \/ LaunchFails(t) \/ CLIFails(t) \/ CLIAnswers(t) \/ Store(t)
  PROVE  UNCHANGED Promise!turn
<1>1. CASE \E d \in Dialogs, traced \in Traced, now \in 0 .. MaxClock : Converse(t, d, traced, now)
  <2>1. /\ pc[t] = "idle" /\ pc'[t] = "lookup" /\ cli' = cli /\ reply' = reply
        /\ \A u \in Turns \ {t} : pc'[u] = pc[u] /\ trail'[u] = trail[u]
    BY <1>1 DEF Converse, Goto, Record, process, ConvInv, ConvTypeOK, TurnInv
  <2>2. /\ Place(t)' = Place(t) /\ Work(t)' = Work(t) /\ AnswerTo(t)' = AnswerTo(t)
        /\ LogOf(t)' = LogOf(t)
    BY <2>1 DEF Place, Work, AnswerTo, LogOf
  <2> QED
    BY <2>1, <2>2, TurnStutters
<1>2. CASE LaunchFails(t) \/ CLIFails(t) \/ CLIAnswers(t) \/ Store(t)
  <2>1. /\ cli' = cli /\ trail' = trail
        /\ pc[t] \in {"launch", "waiting", "store"} /\ pc'[t] \in {"failed", "store", "respond"}
        /\ \A u \in Turns \ {t} : pc'[u] = pc[u] /\ reply'[u] = reply[u]
    BY <1>2 DEF LaunchFails, CLIFails, CLIAnswers, Store, Fails, Goto, process, ConvInv, ConvTypeOK
  <2>2. /\ Place(t)' = Place(t) /\ Work(t)' = Work(t) /\ AnswerTo(t)' = AnswerTo(t)
        /\ LogOf(t)' = LogOf(t)
    BY <2>1 DEF Place, Work, AnswerTo, LogOf
  <2> QED
    BY <2>1, <2>2, TurnStutters
<1> QED
  BY <1>1, <1>2

\* The CLI's answer, or what went wrong.
LEMMA RespondAsPromised ==
  ASSUME ConvInv, EndInv, NEW t \in Turns, Respond(t) \/ RespondError(t)
  PROVE  Promise!Answer(t) \/ Promise!Fail(t)
<1>1. /\ trail[t] = Asked /\ cli' = cli /\ cli[t] # "running"
      /\ pc[t] \in {"respond", "failed"} /\ pc'[t] = "done"
      /\ \A u \in Turns \ {t} : pc'[u] = pc[u] /\ reply'[u] = reply[u]
  BY DEF Respond, RespondError, Answer, Goto, process, ConvInv, ConvTypeOK, TurnInv
<1>2. \A u \in Turns \ {t} : trail'[u] = trail[u]
  BY DEF Respond, RespondError, Record, ConvInv, TurnInv
<1>3. /\ Place(t) = "asked" /\ Place(t)' = "over" /\ Work(t)' = Work(t)
      /\ LogOf(t)' = trail'[t] /\ Work(t) # "running"
  BY <1>1 DEF Place, Work, LogOf
<1>4. [u \in Turns |-> Work(u)'] = [u \in Turns |-> Work(u)]
  BY <1>1 DEF Work
<1>5. /\ [u \in Turns |-> Place(u)'] = [[u \in Turns |-> Place(u)] EXCEPT ![t] = Place(t)']
      /\ [u \in Turns |-> AnswerTo(u)']
            = [[u \in Turns |-> AnswerTo(u)] EXCEPT ![t] = AnswerTo(t)']
      /\ [u \in Turns |-> LogOf(u)'] = [[u \in Turns |-> LogOf(u)] EXCEPT ![t] = LogOf(t)']
  BY <1>1, <1>2, OneTurnMoves
<1>6. CASE Respond(t)
  <2>1. <<"cli_response", "sent">> \in Seq(LogEntries)
    BY DEF LogEntries
  <2>2. trail'[t] = <<"received", "cli_request", "cli_response", "sent">>
    BY <1>1, <1>6, <2>1, Recorded, AskedAndAnswer DEF Respond, ConvInv
  <2>3. reply'[t] = "answer" /\ pc[t] = "respond"
    BY <1>6 DEF Respond, Answer, Goto, ConvInv, ConvTypeOK
  <2>4. cli[t] = "exited"
    BY <2>3 DEF ConvInv, ConvTypeOK, EndInv
  <2>5. Work(t) = "ended" /\ AnswerTo(t)' = "answer"
    BY <1>1, <2>3, <2>4 DEF Work, AnswerTo
  <2> QED
    BY <1>3, <1>4, <1>5, <2>2, <2>5 DEF Promise!Answer, Promise!Conclude, Promise!Move
<1>7. CASE RespondError(t)
  <2>1. <<"cli_error">> \in Seq(LogEntries)
    BY DEF LogEntries
  <2>2. trail'[t] = <<"received", "cli_request", "cli_error">>
    BY <1>1, <1>7, <2>1, Recorded, AskedAndError DEF RespondError, ConvInv
  <2>3. reply'[t] \notin {"pong", "answer"}
    BY <1>7 DEF RespondError, Goto, ConvInv, TurnInv, EndInv
  <2>4. AnswerTo(t)' = "other"
    BY <1>1, <2>3 DEF AnswerTo
  <2>5. [u \in Turns |-> Work(u)] = [[u \in Turns |-> Work(u)] EXCEPT ![t] = Work(t)]
    OBVIOUS
  <2> QED
    BY <1>3, <1>4, <1>5, <2>2, <2>4, <2>5 DEF Promise!Fail, Promise!Conclude, Promise!Move
<1> QED
  BY <1>6, <1>7

\* Sessions, timeouts and exits of the CLI in any order, every message is
\* handled as promised (agent.go:323-456, cli.go:91-134).
THEOREM HandledAsPromisedHolds == ConvSpec => HandledAsPromised
<1>1. ConvInit => Promise!Init
  BY DEF ConvInit, Promise!Init, Place, Work, AnswerTo, LogOf
<1>2. ConvInv /\ ConvInv' /\ BornInv /\ EndInv /\ [ConvNext]_convVars
        => [Promise!Next]_(Promise!turn)
  <2> SUFFICES ASSUME ConvInv, ConvInv', BornInv, EndInv, [ConvNext]_convVars
               PROVE  Promise!Next \/ UNCHANGED Promise!turn
    OBVIOUS
  <2>1. CASE UNCHANGED convVars
    <3>1. UNCHANGED <<pc, cli, reply, trail>>
      BY <2>1 DEF convVars, process
    <3> QED
      BY <3>1 DEF Promise!turn, Place, Work, AnswerTo, LogOf
  <2>2. ASSUME NEW t \in Turns, \/ RejectEmpty(t) \/ AnswerPing(t) \/ RejectUnanswerable(t)
                                \/ Lookup(t) \/ Respond(t) \/ RespondError(t)
                                \/ Launch(t) \/ TimesOut(t) \/ CLIDies(t)
                                \/ \E o \in Outcomes : CLIExits(t, o)
        PROVE  Promise!Next \/ UNCHANGED Promise!turn
    BY <2>2, AtOnceAsPromised, LookupAsPromised, ProcessAsPromised, RespondAsPromised
       DEF Promise!Next
  <2>3. ASSUME NEW t \in Turns, \/ \E d \in Dialogs, traced \in Traced, now \in 0 .. MaxClock :
                                      Converse(t, d, traced, now)
                                \/ LaunchFails(t) \/ CLIFails(t) \/ CLIAnswers(t) \/ Store(t)
        PROVE  UNCHANGED Promise!turn
    BY <2>3, QuietAsPromised
  <2> QED
    BY <2>1, <2>2, <2>3 DEF ConvNext, HandlerSteps
<1> QED
  BY <1>1, <1>2, ConvInvHolds, PassOnHolds, EndInvHolds, PTL
     DEF ConvSpec, HandledAsPromised, Promise!Spec

\* A step of MessageTurn concludes no message twice.
LEMMA PromiseSettles ==
  ASSUME Promise!Next, NEW t \in Turns, Place(t) = "over"
  PROVE  Promise!Stands(t)
<1> DEFINE place == [u \in Turns |-> Place(u)]
<1>0. place[t] = "over"
  OBVIOUS
<1>1. ASSUME NEW u \in Turns, NEW from \in {"new", "asked"}, NEW how, NEW entries,
             Promise!Conclude(u, from, how, entries)
      PROVE  Promise!Stands(t)
  <2>1. u # t
    BY <1>0, <1>1 DEF Promise!Conclude, Promise!Move
  <2> QED
    BY <1>1, <2>1 DEF Promise!Conclude, Promise!Move, Promise!Stands
<1>2. ASSUME NEW u \in Turns,
             Promise!Ask(u) \/ Promise!Run(u) \/ Promise!ProcessEnds(u)
      PROVE  Promise!Stands(t)
  <2>1. CASE Promise!Ask(u)
    <3>1. u # t
      BY <1>0, <2>1 DEF Promise!Ask, Promise!Move
    <3> QED
      BY <2>1, <3>1 DEF Promise!Ask, Promise!Move, Promise!Stands
  <2>2. CASE Promise!Run(u) \/ Promise!ProcessEnds(u)
    BY <2>2 DEF Promise!Run, Promise!ProcessEnds, Promise!Stands
  <2> QED
    BY <1>2, <2>1, <2>2
<1>3. ASSUME NEW S \in SUBSET Turns, Promise!Crash(S)
      PROVE  Promise!Stands(t)
  BY <1>3 DEF Promise!Crash, Promise!Stands
<1>4. ASSUME NEW u \in Turns,
             Promise!AnswerAtOnce(u) \/ Promise!Answer(u) \/ Promise!Fail(u)
      PROVE  \E from \in {"new", "asked"} : \E how, entries : Promise!Conclude(u, from, how, entries)
  BY <1>4 DEF Promise!AnswerAtOnce, Promise!Answer, Promise!Fail
<1> QED
  BY <1>1, <1>2, <1>3, <1>4 DEF Promise!Next

\* Once a turn is answered its answer and its records stand, whatever becomes of
\* the claude process that was given up (cli.go:91-134).
THEOREM AnswersStand == ConvSpec => Promise!Settled
<1>1. [Promise!Next]_(Promise!turn) => [Promise!ConcludedStand]_(Promise!turn)
  BY PromiseSettles DEF Promise!ConcludedStand
<1> QED
  BY <1>1, HandledAsPromisedHolds, PTL DEF HandledAsPromised, Promise!Settled, Promise!Spec
=============================================================================
