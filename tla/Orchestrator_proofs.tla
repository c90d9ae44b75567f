------------------------ MODULE Orchestrator_proofs -------------------------
(***************************************************************************)
(* Safety of the orchestrator's permission gate and of the input that its  *)
(* tools, the app and Teams send to agents.                                *)
(***************************************************************************)
EXTENDS OrchestratorGate, AgentInput, SequenceTheorems, TLAPS

-----------------------------------------------------------------------------
(***************************************************************************)
(* AgentInput.                                                             *)
(*                                                                         *)
(* Safety of AgentInput for any number of sessions, processes, prompts,    *)
(* questions and replies.                                                  *)
(*                                                                         *)
(* The prompts of a process arrive in their order because what it has      *)
(* received precedes what is still queued (PromptInv).  A reply is told    *)
(* the truth because what is open belongs to the process in the map, and   *)
(* is the last of its kind (AskInv), and a resolver is of the session it   *)
(* is kept by, and, unless a session was started before the process that   *)
(* had it exited, of something open or of a process that is closing        *)
(* (ResolverInv).  The overlap is why ProcInv is needed: without one, no   *)
(* process that closes has the session of the one in the map.              *)
(***************************************************************************)

(* The sequences of the model.                                             *)

(* What Append yields.                                                     *)
LEMMA Appended ==
  ASSUME NEW S, NEW q \in Seq(S), NEW e \in S
  PROVE  /\ Append(q, e) \in Seq(S) /\ Len(q) \in Nat
         /\ Len(Append(q, e)) = Len(q) + 1
         /\ DOMAIN Append(q, e) = 1..(Len(q) + 1) /\ DOMAIN q = 1..Len(q)
         /\ \A i \in DOMAIN q : Append(q, e)[i] = q[i]
         /\ Append(q, e)[Len(q) + 1] = e
  BY AppendProperties, LenProperties

(* A sequence with one element replaced.                                   *)
LEMMA Changed ==
  ASSUME NEW S, NEW q \in Seq(S), NEW i \in DOMAIN q, NEW e \in S
  PROVE  /\ [q EXCEPT ![i] = e] \in Seq(S)
         /\ Len([q EXCEPT ![i] = e]) = Len(q)
         /\ DOMAIN [q EXCEPT ![i] = e] = DOMAIN q
  BY ExceptSeq

(* A function of 1..n is a sequence of length n.                           *)
LEMMA Mapped ==
  ASSUME NEW S, NEW n \in Nat, NEW q, q = [i \in 1..n |-> q[i]], \A i \in 1..n : q[i] \in S
  PROVE  q \in Seq(S) /\ Len(q) = n /\ DOMAIN q = 1..n
  <1>1. q \in [1..n -> S]
    OBVIOUS
  <1> QED BY <1>1, LenProperties

(* What is left of the sends once the first is taken.                      *)
LEMMA FirstTaken ==
  ASSUME NEW q \in Seq(Nat), NEW n \in {1} \cap DOMAIN q
  PROVE  LET rest == SubSeq(q, 1, n - 1) \o SubSeq(q, n + 1, Len(q))
         IN  /\ rest \in Seq(Nat)
             /\ \A j \in DOMAIN rest : j + 1 \in DOMAIN q /\ rest[j] = q[j + 1]
  <1>1. n = 1 /\ Len(q) \in Nat /\ DOMAIN q = 1..Len(q) /\ \A j \in 1..Len(q) : q[j] \in Nat
    BY LenProperties, ElementOfSeq
  <1>2. SubSeq(q, 1, n - 1) = <<>>
    BY <1>1, SubSeqEmpty
  <1> DEFINE rest == SubSeq(q, 2, Len(q))
  <1>3. /\ rest \in Seq(Nat) /\ Len(rest) = IF 2 <= Len(q) THEN Len(q) - 1 ELSE 0
        /\ \A j \in 1..Len(q) - 1 : rest[j] = q[j + 1]
    <2>1. \A j \in 2..Len(q) : q[j] \in Nat
      BY <1>1
    <2>2. /\ rest \in Seq(Nat) /\ Len(rest) = IF 2 <= Len(q) THEN Len(q) - 2 + 1 ELSE 0
          /\ \A j \in 1..Len(q) - 2 + 1 : rest[j] = q[2 + j - 1]
      BY <1>1, <2>1, SubSeqProperties
    <2> QED BY <1>1, <2>2
  <1>4. DOMAIN rest = 1..Len(rest)
    BY <1>3, LenProperties
  <1>5. <<>> \o rest = rest
    BY <1>3, ConcatEmptySeq
  <1>6. SubSeq(q, 1, n - 1) \o SubSeq(q, n + 1, Len(q)) = rest
    BY <1>1, <1>2, <1>5
  <1> QED BY <1>1, <1>3, <1>4, <1>6

-----------------------------------------------------------------------------
(* The processes: the one in the map is the only one that is open, and     *)
(* without an overlap no other that is closing has its session.            *)
ProcInv ==
    /\ \A i \in DOMAIN procs : procs[i].state = "open" => i = registered
    /\ (~overlapped /\ registered # 0) =>
          \A i \in DOMAIN procs :
              procs[i].state = "closing" => procs[i].session # procs[registered].session

(* What a process has received precedes what it is still to be sent.       *)
PromptInv ==
    /\ \A i \in DOMAIN sends : \A n \in DOMAIN sends[i] :
          /\ sends[i][n] <= prompts
          /\ \A m \in DOMAIN sends[i] : m < n => sends[i][m] < sends[i][n]
    /\ \A r \in DOMAIN received :
          /\ received[r].by \in DOMAIN sends /\ received[r].prompt <= prompts
          /\ \A n \in DOMAIN sends[received[r].by] :
                received[r].prompt < sends[received[r].by][n]
    /\ PromptsArriveInOrder

(* What is open is asked by the process in the map, and is the last of its *)
(* kind.                                                                   *)
AskInv ==
    /\ \A a \in DOMAIN asks :
          /\ asks[a].proc \in DOMAIN procs
          /\ asks[a].state = "open" => asks[a].proc = registered
    /\ \A a, b \in DOMAIN asks :
          (asks[b].state = "open" /\ asks[a].kind = asks[b].kind) => a <= b

(* A resolver is of its kind and session.  Without an overlap, it is of    *)
(* something open or of a process that is closing.                         *)
ResolverInv ==
    /\ \A k \in Kind, s \in AgentSession :
          LET a == resolver[k][s]
          IN  a # 0 => /\ asks[a].kind = k /\ procs[asks[a].proc].session = s
                       /\ Handled(k)
                       /\ (backend = "sdk" /\ ~overlapped) =>
                             asks[a].state = "open" \/ procs[asks[a].proc].state = "closing"
    /\ AsksCanBeAnswered

(* What a reply got is answered, and no other reply got it.                *)
AnswerInv ==
    /\ \A n \in DOMAIN answers :
          /\ answers[n].to \in DOMAIN asks
          /\ answers[n].got # 0 => /\ answers[n].got \in DOMAIN asks
                                   /\ asks[answers[n].got].state = "answered"
    /\ RepliesAreReported /\ RepliesAnswerTheirAsk

InputInv == InputTypeOK /\ ProcInv /\ PromptInv /\ AskInv /\ ResolverInv /\ AnswerInv

(* At the start there is no process, and nothing is asked.                 *)
LEMMA InputStart == InputInit => InputInv
  <1> SUFFICES ASSUME InputInit PROVE InputInv
    OBVIOUS
  <1>1. Len(<<>>) = 0 /\ DOMAIN <<>> = {} /\ \A S : <<>> \in Seq(S)
    BY EmptySeq
  <1>2. InputTypeOK
    <2>1. resolver \in [Kind -> [AgentSession -> 0..Len(asks)]]
      BY <1>1 DEF InputInit, None
    <2>2. sends \in Seq(Seq(Nat)) /\ received \in Seq([by : Nat, prompt : Nat]) /\ prompts \in Nat
          /\ line \in BOOLEAN /\ overlapped \in BOOLEAN
      BY <1>1 DEF InputInit
    <2>3. procs \in Seq(Process) /\ asks \in Seq(Question) /\ answers \in Seq(Answer)
      BY <1>1 DEF InputInit
    <2>4. registered \in 0..Len(procs) /\ registered = 0 /\ Len(sends) = Len(procs)
          /\ backend \in {"sdk", "ui-server", "node-pty"}
      BY <1>1 DEF InputInit
    <2> QED BY <2>1, <2>2, <2>3, <2>4 DEF InputTypeOK
  <1>3. ProcInv /\ PromptInv /\ AskInv
    BY <1>1 DEF InputInit, ProcInv, PromptInv, AskInv, PromptsArriveInOrder
  <1>4. ResolverInv /\ AnswerInv
    BY <1>1 DEF InputInit, None, ResolverInv, AsksCanBeAnswered, AnswerInv, RepliesAreReported,
                RepliesAnswerTheirAsk
  <1> QED BY <1>2, <1>3, <1>4 DEF InputInv

-----------------------------------------------------------------------------
(* The types.                                                              *)

(* The domains of the sequences.                                           *)
LEMMA Indices ==
  ASSUME InputTypeOK
  PROVE  /\ Len(procs) \in Nat /\ DOMAIN procs = 1..Len(procs) /\ DOMAIN sends = DOMAIN procs
         /\ \A i \in DOMAIN procs : procs[i] \in Process /\ sends[i] \in Seq(Nat)
         /\ Len(asks) \in Nat /\ DOMAIN asks = 1..Len(asks)
         /\ \A a \in DOMAIN asks : asks[a] \in Question
         /\ Len(answers) \in Nat /\ DOMAIN answers = 1..Len(answers)
         /\ \A n \in DOMAIN answers : answers[n] \in Answer
         /\ Len(received) \in Nat /\ DOMAIN received = 1..Len(received)
         /\ \A r \in DOMAIN received : received[r] \in [by : Nat, prompt : Nat]
  <1>1. /\ procs \in Seq(Process) /\ asks \in Seq(Question) /\ answers \in Seq(Answer)
        /\ sends \in Seq(Seq(Nat)) /\ received \in Seq([by : Nat, prompt : Nat])
        /\ Len(sends) = Len(procs)
    BY DEF InputTypeOK
  <1>2. ASSUME NEW S, NEW q \in Seq(S)
        PROVE  Len(q) \in Nat /\ DOMAIN q = 1..Len(q) /\ \A i \in DOMAIN q : q[i] \in S
    BY LenProperties, ElementOfSeq
  <1> QED BY <1>1, <1>2

(* What its end makes of what a process asked.                             *)
LEMMA OverTypes ==
  ASSUME InputTypeOK, NEW i, NEW after, after = Over(i)
  PROVE  /\ after \in Seq(Question) /\ Len(after) = Len(asks) /\ DOMAIN after = DOMAIN asks
         /\ \A a \in DOMAIN asks :
               /\ after[a].kind = asks[a].kind /\ after[a].proc = asks[a].proc
               /\ after[a].state = IF asks[a].proc = i /\ asks[a].state = "open" THEN "void"
                                   ELSE asks[a].state
  <1>1. /\ Len(asks) \in Nat /\ DOMAIN asks = 1..Len(asks)
        /\ \A a \in DOMAIN asks : asks[a] \in Question
    BY Indices
  <1>2. /\ after = [a \in 1..Len(asks) |-> after[a]]
        /\ \A a \in 1..Len(asks) : after[a] = IF asks[a].proc = i /\ asks[a].state = "open"
                                              THEN [asks[a] EXCEPT !.state = "void"] ELSE asks[a]
    BY <1>1 DEF Over
  <1>3. \A a \in 1..Len(asks) :
           /\ after[a] \in Question
           /\ after[a].kind = asks[a].kind /\ after[a].proc = asks[a].proc
           /\ after[a].state = IF asks[a].proc = i /\ asks[a].state = "open" THEN "void"
                               ELSE asks[a].state
    BY <1>1, <1>2 DEF Question
  <1> QED BY <1>1, <1>2, <1>3, Mapped

-----------------------------------------------------------------------------
(* The steps.                                                              *)

USE DEF procVars, promptVars, askVars

(* A process is started: the map is empty, so nothing else is open.        *)
LEMMA StartKeeps ==
  ASSUME InputInv, NEW s \in AgentSession, Start(s)
  PROVE  InputInv'
  <1> USE DEF InputInv
  <1>1. /\ registered = 0 /\ registered' = Len(procs) + 1 /\ line' = FALSE
        /\ overlapped' =
              (overlapped \/ \E i \in DOMAIN procs : procs[i] = [session |-> s, state |-> "closing"])
        /\ UNCHANGED <<backend, received, prompts, asks, resolver, answers>>
        /\ procs' = Append(procs, [session |-> s, state |-> "open"])
        /\ sends' = Append(sends, <<>>)
    <2>1. Len(procs') = Len(procs) + 1
      BY Appended DEF Start, InputTypeOK
    <2> QED BY <2>1 DEF Start
  <1>2. /\ procs' \in Seq(Process) /\ Len(procs') = Len(procs) + 1 /\ Len(procs) \in Nat
        /\ DOMAIN procs' = 1..(Len(procs) + 1) /\ DOMAIN procs = 1..Len(procs)
        /\ \A i \in DOMAIN procs : procs'[i] = procs[i] /\ procs[i] \in Process
        /\ procs'[Len(procs) + 1] = [session |-> s, state |-> "open"]
    <2>1. [session |-> s, state |-> "open"] \in Process /\ procs \in Seq(Process)
      BY DEF Process, InputTypeOK
    <2> QED BY <1>1, <2>1, Appended, Indices
  <1>3. /\ sends' \in Seq(Seq(Nat)) /\ Len(sends') = Len(procs) + 1
        /\ DOMAIN sends' = 1..(Len(procs) + 1) /\ DOMAIN sends = 1..Len(procs)
        /\ \A i \in DOMAIN sends : sends'[i] = sends[i]
        /\ sends'[Len(procs) + 1] = <<>>
    <2>1. <<>> \in Seq(Nat) /\ sends \in Seq(Seq(Nat)) /\ Len(sends) = Len(procs)
      BY EmptySeq DEF InputTypeOK
    <2> QED BY <1>1, <2>1, Appended
  <1>4. InputTypeOK'
    <2>1. registered' \in 0..Len(procs') /\ procs'[registered'].state = "open"
      BY <1>1, <1>2
    <2>2. /\ resolver' \in [Kind -> [AgentSession -> 0..Len(asks')]] /\ overlapped' \in BOOLEAN
          /\ backend' \in {"sdk", "ui-server", "node-pty"} /\ line' \in BOOLEAN
      BY <1>1 DEF InputTypeOK
    <2>3. /\ received' \in Seq([by : Nat, prompt : Nat]) /\ prompts' \in Nat
          /\ asks' \in Seq(Question) /\ answers' \in Seq(Answer)
      BY <1>1 DEF InputTypeOK
    <2> QED BY <1>2, <1>3, <2>1, <2>2, <2>3 DEF InputTypeOK, Running
  <1>5. \A i \in DOMAIN procs : procs[i].state # "open"
    BY <1>1, <1>2 DEF ProcInv
  <1>6. ProcInv'
    <2>1. ASSUME ~overlapped', NEW i \in DOMAIN procs, procs[i].state = "closing"
          PROVE  procs[i].session # s
      BY <1>1, <1>2, <2>1 DEF Process
    <2> QED BY <1>1, <1>2, <1>5, <2>1 DEF ProcInv
  <1>7. PromptInv'
    <2>1. DOMAIN <<>> = {}
      OBVIOUS
    <2> QED BY <1>1, <1>3, <2>1 DEF PromptInv, PromptsArriveInOrder
  <1>8. \A a \in DOMAIN asks : asks[a].proc \in DOMAIN procs /\ asks[a].state # "open"
    BY <1>1, <1>2 DEF AskInv
  <1>9. AskInv'
    BY <1>1, <1>2, <1>8 DEF AskInv
  <1>10. ResolverInv'
    <2>1. ASSUME NEW k \in Kind, NEW t \in AgentSession
          PROVE  resolver[k][t] \in 0..Len(asks) /\ DOMAIN asks = 1..Len(asks) /\ Len(asks) \in Nat
      BY Indices DEF InputTypeOK
    <2>2. \A k \in Kind, t \in AgentSession :
             resolver[k][t] # 0 => procs'[asks[resolver[k][t]].proc] = procs[asks[resolver[k][t]].proc]
      BY <1>2, <1>8, <2>1
    <2>3. AsksCanBeAnswered'
      BY <1>1, <1>8 DEF AsksCanBeAnswered
    <2>4. ASSUME NEW k \in Kind, NEW t \in AgentSession, resolver[k][t] # 0
          PROVE  LET a == resolver[k][t]
                 IN  /\ asks[a].kind = k /\ procs[asks[a].proc].session = t
                     /\ Handled(k)
                     /\ (backend = "sdk" /\ ~overlapped) =>
                           asks[a].state = "open" \/ procs[asks[a].proc].state = "closing"
      BY <2>4 DEF ResolverInv
    <2>5. ~overlapped' => ~overlapped
      BY <1>1
    <2>6. resolver' = resolver /\ asks' = asks /\ backend' = backend
          /\ \A k \in Kind : Handled(k)' = Handled(k)
      BY <1>1 DEF Handled
    <2>7. ASSUME NEW k \in Kind, NEW t \in AgentSession, resolver'[k][t] # 0
          PROVE  LET a == resolver'[k][t]
                 IN  /\ asks'[a].kind = k /\ procs'[asks'[a].proc].session = t
                     /\ Handled(k)'
                     /\ (backend' = "sdk" /\ ~overlapped') =>
                           asks'[a].state = "open" \/ procs'[asks'[a].proc].state = "closing"
      BY <2>2, <2>4, <2>5, <2>6, <2>7
    <2> QED BY <2>3, <2>7 DEF ResolverInv
  <1>11. AnswerInv'
    BY <1>1 DEF AnswerInv, RepliesAreReported, RepliesAnswerTheirAsk
  <1> QED BY <1>4, <1>6, <1>7, <1>9, <1>10, <1>11

(* What a process asked is over, and the process is closing or gone.       *)
LEMMA EndKeeps ==
  ASSUME InputInv, NEW i \in DOMAIN procs, NEW ended \in {"closing", "exited"},
         procs' = [procs EXCEPT ![i].state = ended],
         registered' = IF registered = i THEN 0 ELSE registered,
         asks' = Over(i),
         UNCHANGED <<backend, line, sends, received, prompts, answers, overlapped>>,
         \/ ended = "closing" /\ i = registered /\ UNCHANGED resolver
         \/ ended = "exited" /\ procs[i].state # "exited" /\ resolver' = Cleared(procs[i].session)
  PROVE  InputInv'
  <1> USE DEF InputInv
  <1>1. /\ procs \in Seq(Process) /\ Len(procs) \in Nat /\ DOMAIN procs = 1..Len(procs)
        /\ \A j \in DOMAIN procs : procs[j] \in Process
    BY Indices DEF InputTypeOK
  <1>2. /\ procs' \in Seq(Process) /\ Len(procs') = Len(procs) /\ DOMAIN procs' = DOMAIN procs
        /\ \A j \in DOMAIN procs :
              /\ procs'[j].session = procs[j].session
              /\ procs'[j].state = IF j = i THEN ended ELSE procs[j].state
    <2>1. [procs[i] EXCEPT !.state = ended] \in Process
      BY <1>1 DEF Process
    <2>2. procs' = [procs EXCEPT ![i] = [procs[i] EXCEPT !.state = ended]]
      OBVIOUS
    <2>3. /\ procs' \in Seq(Process) /\ Len(procs') = Len(procs) /\ DOMAIN procs' = DOMAIN procs
      BY <1>1, <2>1, <2>2, Changed
    <2>4. \A j \in DOMAIN procs : procs'[j] = IF j = i THEN [procs[i] EXCEPT !.state = ended] ELSE procs[j]
      BY <2>2
    <2>5. [procs[i] EXCEPT !.state = ended].session = procs[i].session
          /\ [procs[i] EXCEPT !.state = ended].state = ended
      BY <1>1 DEF Process
    <2> QED BY <2>3, <2>4, <2>5
  <1>3. /\ asks' \in Seq(Question) /\ Len(asks') = Len(asks) /\ DOMAIN asks' = DOMAIN asks
        /\ DOMAIN asks = 1..Len(asks) /\ Len(asks) \in Nat
        /\ \A a \in DOMAIN asks :
              /\ asks'[a].kind = asks[a].kind /\ asks'[a].proc = asks[a].proc
              /\ asks'[a].state = IF asks[a].proc = i /\ asks[a].state = "open" THEN "void"
                                  ELSE asks[a].state
    BY OverTypes, Indices
  <1>4. registered \in 0..Len(procs) /\ registered' \in 0..Len(procs)
    BY <1>1 DEF InputTypeOK
  <1>5. resolver \in [Kind -> [AgentSession -> 0..Len(asks)]]
        /\ resolver' \in [Kind -> [AgentSession -> 0..Len(asks)]]
        /\ \A k \in Kind : \A s \in AgentSession :
              \/ resolver'[k][s] = resolver[k][s] /\ (ended = "exited" => s # procs[i].session)
              \/ resolver'[k][s] = 0 /\ ended = "exited" /\ s = procs[i].session
    <2>1. resolver \in [Kind -> [AgentSession -> 0..Len(asks)]] /\ procs[i].session \in AgentSession
      BY <1>1 DEF InputTypeOK, Process
    <2>2. CASE ended = "closing"
      BY <2>1, <2>2
    <2>3. CASE ended = "exited"
      <3>1. resolver' = [k \in Kind |-> [resolver[k] EXCEPT ![procs[i].session] = 0]]
        BY <2>3 DEF Cleared
      <3>2. \A k \in Kind : resolver'[k] = [resolver[k] EXCEPT ![procs[i].session] = 0]
        BY <3>1
      <3>3. 0 \in 0..Len(asks)
        BY <1>3
      <3>4. ASSUME NEW k \in Kind PROVE resolver'[k] \in [AgentSession -> 0..Len(asks)]
        <4>1. resolver[k] \in [AgentSession -> 0..Len(asks)]
          BY <2>1
        <4> QED BY <2>1, <3>2, <3>3, <4>1
      <3> QED BY <2>1, <2>3, <3>1, <3>2, <3>4
    <2> QED BY <2>2, <2>3
  <1>6. InputTypeOK'
    BY <1>1, <1>2, <1>3, <1>4, <1>5 DEF InputTypeOK, Running
  <1>7. ProcInv'
    BY <1>1, <1>2, <1>4 DEF ProcInv
  <1>8. PromptInv'
    BY DEF PromptInv, PromptsArriveInOrder
  <1>9. AskInv'
    <2>1. ASSUME NEW a \in DOMAIN asks'
          PROVE  /\ asks'[a].proc \in DOMAIN procs'
                 /\ asks'[a].state = "open" => asks'[a].proc = registered'
      <3>1. asks[a].proc \in DOMAIN procs
        BY <1>3, <2>1 DEF AskInv
      <3>2. asks'[a].state = "open" => asks[a].proc # i /\ asks[a].proc = registered
        BY <1>3, <2>1 DEF AskInv
      <3> QED BY <1>2, <1>3, <2>1, <3>1, <3>2
    <2>2. ASSUME NEW a \in DOMAIN asks', NEW b \in DOMAIN asks', asks'[b].state = "open",
                 asks'[a].kind = asks'[b].kind
          PROVE  a <= b
      <3>1. asks[b].state = "open" /\ asks[a].kind = asks[b].kind
        BY <1>3, <2>2
      <3> QED BY <1>3, <2>2, <3>1 DEF AskInv
    <2> QED BY <2>1, <2>2 DEF AskInv
  <1>10. ResolverInv'
    <2>1. ASSUME NEW k \in Kind, NEW s \in AgentSession, resolver'[k][s] # 0
          PROVE  /\ resolver[k][s] = resolver'[k][s] /\ resolver[k][s] \in DOMAIN asks
                 /\ asks[resolver[k][s]].proc \in DOMAIN procs
                 /\ ended = "exited" => s # procs[i].session
      BY <1>3, <1>5, <2>1 DEF AskInv
    <2>2. ASSUME NEW k \in Kind, NEW s \in AgentSession, resolver'[k][s] # 0,
                 backend = "sdk", ~overlapped
          PROVE  LET a == resolver'[k][s]
                 IN  asks'[a].state = "open" \/ procs'[asks'[a].proc].state = "closing"
      <3> DEFINE a == resolver[k][s]
      <3>1. asks[a].state = "open" \/ procs[asks[a].proc].state = "closing"
        BY <2>1, <2>2 DEF ResolverInv
      <3>2. procs[asks[a].proc].session = s
        BY <2>1, <2>2 DEF ResolverInv
      <3>3. asks[a].state = "open" => asks[a].proc = registered
        BY <2>1, <2>2 DEF AskInv
      <3>4. /\ resolver'[k][s] = a /\ a \in DOMAIN asks /\ asks[a].proc \in DOMAIN procs
            /\ ended = "exited" => s # procs[i].session
        BY <2>1, <2>2
      <3> HIDE DEF a
      <3>5. asks'[a].proc = asks[a].proc
        BY <1>3, <3>4
      <3>6. CASE asks[a].proc = i
        <4>1. ended = "closing"
          BY <3>2, <3>4, <3>6
        <4> QED BY <1>2, <3>4, <3>5, <3>6, <4>1
      <3>7. CASE asks[a].proc # i
        <4>1. asks'[a].state = asks[a].state
          BY <1>3, <3>4, <3>7
        <4>2. procs'[asks[a].proc].state = procs[asks[a].proc].state
          BY <1>2, <3>4, <3>7
        <4> QED BY <3>1, <3>4, <3>5, <4>1, <4>2
      <3> QED BY <3>6, <3>7
    <2>3. AsksCanBeAnswered'
      <3> SUFFICES ASSUME backend = "sdk", ~overlapped, NEW a \in DOMAIN asks,
                          asks'[a].state = "open"
                   PROVE  resolver'[asks'[a].kind][procs'[asks'[a].proc].session] = a
        BY <1>3 DEF AsksCanBeAnswered
      <3>1. /\ asks[a].state = "open" /\ asks[a].proc # i /\ asks[a].kind \in Kind
            /\ asks[a].proc = registered /\ asks[a].proc \in DOMAIN procs
        BY <1>3, Indices DEF AskInv, Question
      <3>2. resolver[asks[a].kind][procs[asks[a].proc].session] = a
        BY <3>1 DEF ResolverInv, AsksCanBeAnswered
      <3>3. ended = "exited" /\ procs[i].state = "closing"
        BY <1>1, <3>1 DEF ProcInv, Process
      <3>4. procs[i].session # procs[registered].session
        BY <1>1, <3>1, <3>3 DEF ProcInv
      <3> DEFINE k == asks[a].kind
                 s == procs[registered].session
      <3>5. k \in Kind /\ s \in AgentSession /\ s # procs[i].session /\ resolver[k][s] = a
        BY <1>1, <3>1, <3>2, <3>4 DEF Process
      <3>6. resolver'[k][s] = a
        BY <1>5, <3>5
      <3>7. asks'[a].kind = k /\ procs'[asks'[a].proc].session = s
        BY <1>2, <1>3, <3>1
      <3> QED BY <3>6, <3>7
    <2>4. ASSUME NEW k \in Kind, NEW s \in AgentSession, resolver'[k][s] # 0
          PROVE  LET a == resolver'[k][s]
                 IN  /\ asks'[a].kind = k /\ procs'[asks'[a].proc].session = s /\ Handled(k)'
      <3> DEFINE a == resolver[k][s]
      <3>1. /\ resolver'[k][s] = a /\ a # 0 /\ a \in DOMAIN asks /\ asks[a].proc \in DOMAIN procs
        BY <2>1, <2>4
      <3>2. asks[a].kind = k /\ procs[asks[a].proc].session = s /\ Handled(k)
        BY <3>1 DEF ResolverInv
      <3>3. Handled(k)' = Handled(k)
        BY DEF Handled
      <3> HIDE DEF a
      <3> QED BY <1>2, <1>3, <3>1, <3>2, <3>3
    <2>5. \A k \in Kind, s \in AgentSession :
             LET a == resolver'[k][s]
             IN  a # 0 => /\ asks'[a].kind = k /\ procs'[asks'[a].proc].session = s
                          /\ Handled(k)'
                          /\ (backend' = "sdk" /\ ~overlapped') =>
                                asks'[a].state = "open" \/ procs'[asks'[a].proc].state = "closing"
      <3>1. backend' = backend /\ (~overlapped' => ~overlapped)
        OBVIOUS
      <3> QED BY <2>2, <2>4, <3>1
    <2> QED BY <2>3, <2>5 DEF ResolverInv
  <1>11. AnswerInv'
    <2>1. \A n \in DOMAIN answers : answers[n].to \in DOMAIN asks
      BY DEF AnswerInv
    <2>2. RepliesAreReported' /\ RepliesAnswerTheirAsk'
      BY <1>3, <2>1 DEF AnswerInv, RepliesAreReported, RepliesAnswerTheirAsk
    <2> QED BY <1>3, <2>1, <2>2 DEF AnswerInv
  <1> QED BY <1>6, <1>7, <1>8, <1>9, <1>10, <1>11

(* A process is killed, or exits.                                          *)
LEMMA KillAndExitKeep ==
  ASSUME InputInv
  PROVE  /\ Kill => InputInv'
         /\ \A i \in DOMAIN procs : Exits(i) => InputInv'
  <1>1. ASSUME Kill PROVE InputInv'
    <2>1. registered \in DOMAIN procs
      BY <1>1, Indices DEF Kill, InputInv, InputTypeOK
    <2> QED BY <1>1, <2>1, EndKeeps DEF Kill
  <1>2. ASSUME NEW i \in DOMAIN procs, Exits(i) PROVE InputInv'
    BY <1>2, EndKeeps DEF Exits
  <1> QED BY <1>1, <1>2

(* A step of the prompts does not touch what is asked.                     *)
LEMMA PromptFrame ==
  ASSUME InputInv, UNCHANGED <<procVars, askVars, overlapped>>, PromptInv',
         sends' \in Seq(Seq(Nat)), Len(sends') = Len(sends), prompts' \in Nat,
         received' \in Seq([by : Nat, prompt : Nat]), line' \in BOOLEAN
  PROVE  InputInv'
  <1> USE DEF InputInv
  <1>1. InputTypeOK'
    BY DEF InputTypeOK, Running
  <1>2. ProcInv' /\ AskInv'
    BY DEF ProcInv, AskInv
  <1>3. ResolverInv'
    <2>1. \A k \in Kind : Handled(k)' = Handled(k)
      BY DEF Handled
    <2>2. AsksCanBeAnswered'
      BY DEF ResolverInv, AsksCanBeAnswered
    <2> QED BY <2>1, <2>2 DEF ResolverInv
  <1>4. AnswerInv'
    BY DEF AnswerInv, RepliesAreReported, RepliesAnswerTheirAsk
  <1> QED BY <1>1, <1>2, <1>3, <1>4

(* A prompt is queued behind all that the process was to send before.     *)
LEMMA EnqueuedKeeps ==
  ASSUME InputInv, Enqueued, registered # 0
  PROVE  InputInv'
  <1> USE DEF InputInv
  <1>1. registered \in DOMAIN sends /\ sends[registered] \in Seq(Nat) /\ sends \in Seq(Seq(Nat))
        /\ prompts \in Nat /\ prompts' = prompts + 1
        /\ sends' = [sends EXCEPT ![registered] = Append(sends[registered], prompts + 1)]
    BY Indices DEF Enqueued, InputTypeOK
  <1> DEFINE queue == Append(sends[registered], prompts + 1)
  <1>2. /\ queue \in Seq(Nat) /\ DOMAIN queue = 1..Len(sends[registered]) + 1
        /\ DOMAIN sends[registered] = 1..Len(sends[registered]) /\ Len(sends[registered]) \in Nat
        /\ \A n \in DOMAIN sends[registered] : queue[n] = sends[registered][n] /\ queue[n] \in Nat
        /\ queue[Len(sends[registered]) + 1] = prompts + 1
    BY <1>1, Appended, ElementOfSeq
  <1> HIDE DEF queue
  <1>3. /\ sends' \in Seq(Seq(Nat)) /\ Len(sends') = Len(sends) /\ DOMAIN sends' = DOMAIN sends
        /\ \A i \in DOMAIN sends : sends'[i] = IF i = registered THEN queue ELSE sends[i]
    BY <1>1, <1>2, Changed DEF queue
  <1>4. /\ received' = received /\ line' = FALSE /\ UNCHANGED <<procVars, askVars, overlapped>>
    BY DEF Enqueued
  <1>5. PromptInv'
    <2>1. ASSUME NEW i \in DOMAIN sends, NEW n \in DOMAIN sends'[i]
          PROVE  /\ sends'[i][n] <= prompts + 1
                 /\ \A m \in DOMAIN sends'[i] : m < n => sends'[i][m] < sends'[i][n]
      <3>1. CASE i # registered
        <4>1. sends'[i] = sends[i] /\ \A m \in DOMAIN sends[i] : sends[i][m] \in Nat
          BY <1>3, <3>1, Indices, ElementOfSeq, LenProperties
        <4> QED BY <1>1, <2>1, <4>1 DEF PromptInv
      <3>2. CASE i = registered
        <4>1. sends'[i] = queue /\ n \in DOMAIN queue
          BY <1>3, <2>1, <3>2
        <4>2. \A m \in DOMAIN sends[registered] :
                 /\ sends[registered][m] <= prompts /\ sends[registered][m] \in Nat
                 /\ \A o \in DOMAIN sends[registered] :
                       o < m => sends[registered][o] < sends[registered][m]
          BY <1>1, <1>2 DEF PromptInv
        <4>3. \A m \in DOMAIN queue : m \in DOMAIN sends[registered] \/ m = Len(sends[registered]) + 1
          BY <1>2
        <4>4. CASE n \in DOMAIN sends[registered]
          <5>1. \A m \in DOMAIN queue : m < n => m \in DOMAIN sends[registered]
            BY <1>2, <4>3, <4>4
          <5>2. queue[n] <= prompts + 1
            BY <1>1, <1>2, <4>2, <4>4
          <5>3. ASSUME NEW m \in DOMAIN queue, m < n PROVE queue[m] < queue[n]
            <6>1. m \in DOMAIN sends[registered]
              BY <5>1, <5>3
            <6> QED BY <1>2, <4>2, <4>4, <5>3, <6>1
          <5> QED BY <4>1, <5>2, <5>3
        <4>5. CASE n = Len(sends[registered]) + 1
          <5>1. \A m \in DOMAIN queue : m < n => m \in DOMAIN sends[registered]
            BY <1>2, <4>3, <4>5
          <5> QED BY <1>1, <1>2, <4>1, <4>2, <4>5, <5>1
        <4> QED BY <4>1, <4>3, <4>4, <4>5
      <3> QED BY <3>1, <3>2
    <2>2. ASSUME NEW r \in DOMAIN received
          PROVE  /\ received[r].by \in DOMAIN sends /\ received[r].prompt <= prompts + 1
                 /\ \A n \in DOMAIN sends'[received[r].by] :
                       received[r].prompt < sends'[received[r].by][n]
      <3>1. received[r].prompt \in Nat
        BY Indices
      <3>2. /\ received[r].by \in DOMAIN sends /\ received[r].prompt <= prompts
            /\ \A n \in DOMAIN sends[received[r].by] : received[r].prompt < sends[received[r].by][n]
        BY DEF PromptInv
      <3>3. CASE received[r].by # registered
        BY <1>1, <1>3, <3>1, <3>2, <3>3
      <3>4. CASE received[r].by = registered
        <4>1. sends'[received[r].by] = queue
          BY <1>3, <3>2, <3>4
        <4>2. ASSUME NEW n \in DOMAIN queue PROVE received[r].prompt < queue[n]
          <5>1. CASE n \in DOMAIN sends[registered]
            BY <1>2, <3>2, <3>4, <5>1
          <5>2. CASE n = Len(sends[registered]) + 1
            BY <1>1, <1>2, <3>1, <3>2, <5>2
          <5> QED BY <1>2, <4>2, <5>1, <5>2
        <4>3. received[r].prompt <= prompts + 1
          BY <1>1, <3>1, <3>2
        <4>4. \A n \in DOMAIN sends'[received[r].by] :
                 received[r].prompt < sends'[received[r].by][n]
          BY <4>1, <4>2
        <4> QED BY <3>2, <4>3, <4>4
      <3> QED BY <3>3, <3>4
    <2>3. \A i \in DOMAIN sends' : \A n \in DOMAIN sends'[i] :
             /\ sends'[i][n] <= prompts'
             /\ \A m \in DOMAIN sends'[i] : m < n => sends'[i][m] < sends'[i][n]
      BY <1>1, <1>3, <2>1
    <2>4. \A r \in DOMAIN received' :
             /\ received'[r].by \in DOMAIN sends' /\ received'[r].prompt <= prompts'
             /\ \A n \in DOMAIN sends'[received'[r].by] :
                   received'[r].prompt < sends'[received'[r].by][n]
      BY <1>1, <1>3, <1>4, <2>2
    <2>5. PromptsArriveInOrder'
      BY <1>4 DEF PromptInv, PromptsArriveInOrder
    <2> QED BY <2>3, <2>4, <2>5 DEF PromptInv
  <1>6. prompts' \in Nat /\ line' \in BOOLEAN /\ received' \in Seq([by : Nat, prompt : Nat])
    <2>1. received \in Seq([by : Nat, prompt : Nat])
      BY DEF InputTypeOK
    <2>2. line' \in BOOLEAN
      BY <1>4
    <2> QED BY <1>1, <1>4, <2>1, <2>2
  <1> QED BY <1>3, <1>4, <1>5, <1>6, PromptFrame

(* Something is typed, entered or submitted.                               *)
LEMMA WriteKeeps == InputInv /\ (Write \/ SubmitPrompt) => InputInv'
  <1> SUFFICES ASSUME InputInv, Write \/ SubmitPrompt PROVE InputInv'
    OBVIOUS
  <1>1. CASE Enqueued
    BY <1>1, EnqueuedKeeps DEF Write, SubmitPrompt
  <1>2. CASE line' = ~line /\ UNCHANGED <<procVars, sends, received, prompts, askVars, overlapped>>
    <2>1. PromptInv'
      BY <1>2 DEF InputInv, PromptInv, PromptsArriveInOrder
    <2> QED BY <1>2, <2>1, PromptFrame DEF InputInv, InputTypeOK
  <1> QED BY <1>1, <1>2 DEF Write, SubmitPrompt

(* The first of the queue is received, or lost.                            *)
LEMMA SendsKeeps ==
  ASSUME InputInv, NEW i \in DOMAIN procs, Sends(i)
  PROVE  InputInv'
  <1> USE DEF InputInv
  <1>1. PICK n \in First(i) :
            /\ sends' = [sends EXCEPT ![i] = SubSeq(@, 1, n - 1) \o SubSeq(@, n + 1, Len(@))]
            /\ \/ received' = received
               \/ /\ procs[i].state # "exited"
                  /\ received' = Append(received, [by |-> i, prompt |-> sends[i][n]])
            /\ UNCHANGED <<procVars, line, prompts, askVars, overlapped>>
    BY DEF Sends
  <1>2. sends \in Seq(Seq(Nat)) /\ i \in DOMAIN sends /\ i \in Nat /\ prompts \in Nat
        /\ received \in Seq([by : Nat, prompt : Nat])
        /\ \A j \in DOMAIN sends : /\ sends[j] \in Seq(Nat)
                                   /\ \A m \in DOMAIN sends[j] : sends[j][m] \in Nat
    BY Indices, ElementOfSeq, LenProperties DEF InputTypeOK
  <1> DEFINE rest == SubSeq(sends[i], 1, n - 1) \o SubSeq(sends[i], n + 1, Len(sends[i]))
  <1>3. /\ n = 1 /\ 1 \in DOMAIN sends[i] /\ rest \in Seq(Nat)
        /\ \A j \in DOMAIN rest : j + 1 \in DOMAIN sends[i] /\ rest[j] = sends[i][j + 1]
        /\ sends' = [sends EXCEPT ![i] = rest]
    BY <1>1, <1>2, FirstTaken DEF First
  <1> HIDE DEF rest
  <1>4. /\ DOMAIN rest \subseteq Nat \ {0} /\ DOMAIN sends[i] \subseteq Nat
    <2>1. /\ Len(rest) \in Nat /\ DOMAIN rest = 1..Len(rest)
          /\ Len(sends[i]) \in Nat /\ DOMAIN sends[i] = 1..Len(sends[i])
      <3>1. sends[i] \in Seq(Nat)
        BY <1>2
      <3> QED BY <1>3, <3>1, LenProperties
    <2> QED BY <2>1
  <1>5. /\ sends' \in Seq(Seq(Nat)) /\ Len(sends') = Len(sends) /\ DOMAIN sends' = DOMAIN sends
        /\ \A j \in DOMAIN sends : sends'[j] = IF j = i THEN rest ELSE sends[j]
    BY <1>2, <1>3, Changed
  <1>6. \A m \in DOMAIN rest : rest[m] \in Nat /\ rest[m] <= prompts /\ sends[i][1] < rest[m]
    <2> SUFFICES ASSUME NEW m \in DOMAIN rest
                 PROVE  rest[m] \in Nat /\ rest[m] <= prompts /\ sends[i][1] < rest[m]
      OBVIOUS
    <2>1. m + 1 \in DOMAIN sends[i] /\ rest[m] = sends[i][m + 1] /\ 1 < m + 1
      BY <1>3, <1>4
    <2>2. sends[i][m + 1] \in Nat /\ sends[i][m + 1] <= prompts /\ sends[i][1] < sends[i][m + 1]
      BY <1>2, <1>3, <2>1 DEF PromptInv
    <2> QED BY <2>1, <2>2
  <1>7. \A m, o \in DOMAIN rest : m < o => rest[m] < rest[o]
    <2> SUFFICES ASSUME NEW m \in DOMAIN rest, NEW o \in DOMAIN rest, m < o
                 PROVE  rest[m] < rest[o]
      OBVIOUS
    <2>1. /\ m + 1 \in DOMAIN sends[i] /\ rest[m] = sends[i][m + 1]
          /\ o + 1 \in DOMAIN sends[i] /\ rest[o] = sends[i][o + 1]
      BY <1>3
    <2>2. m + 1 < o + 1
      BY <1>4
    <2>3. sends[i][m + 1] < sends[i][o + 1]
      BY <1>2, <2>1, <2>2 DEF PromptInv
    <2> QED BY <2>1, <2>3
  <1>8. ASSUME NEW j \in DOMAIN sends, NEW o \in DOMAIN sends'[j]
        PROVE  /\ sends'[j][o] <= prompts
               /\ \A m \in DOMAIN sends'[j] : m < o => sends'[j][m] < sends'[j][o]
    BY <1>5, <1>6, <1>7, <1>8 DEF PromptInv
  <1>9. ASSUME NEW r \in DOMAIN received
        PROVE  /\ received[r].by \in DOMAIN sends /\ received[r].prompt <= prompts
               /\ \A o \in DOMAIN sends'[received[r].by] :
                     received[r].prompt < sends'[received[r].by][o]
               /\ received[r].by = i => received[r].prompt < sends[i][1]
    <2>1. /\ received[r].by \in DOMAIN sends /\ received[r].prompt <= prompts
          /\ \A o \in DOMAIN sends[received[r].by] : received[r].prompt < sends[received[r].by][o]
      BY DEF PromptInv
    <2>2. CASE received[r].by # i
      BY <1>5, <2>1, <2>2
    <2>3. CASE received[r].by = i
      BY <1>3, <1>5, <2>1, <2>3
    <2> QED BY <2>2, <2>3
  <1>10. CASE received' = received
    <2>1. PromptInv'
      <3>1. \A j \in DOMAIN sends' : \A o \in DOMAIN sends'[j] :
               /\ sends'[j][o] <= prompts'
               /\ \A m \in DOMAIN sends'[j] : m < o => sends'[j][m] < sends'[j][o]
        BY <1>1, <1>5, <1>8
      <3>2. \A r \in DOMAIN received' :
               /\ received'[r].by \in DOMAIN sends' /\ received'[r].prompt <= prompts'
               /\ \A o \in DOMAIN sends'[received'[r].by] :
                     received'[r].prompt < sends'[received'[r].by][o]
        BY <1>1, <1>5, <1>9, <1>10
      <3>3. PromptsArriveInOrder'
        BY <1>10 DEF PromptInv, PromptsArriveInOrder
      <3> QED BY <3>1, <3>2, <3>3 DEF PromptInv
    <2> QED BY <1>1, <1>2, <1>5, <1>10, <2>1, PromptFrame DEF InputTypeOK
  <1>11. CASE received' = Append(received, [by |-> i, prompt |-> sends[i][1]])
    <2>1. [by |-> i, prompt |-> sends[i][1]] \in [by : Nat, prompt : Nat]
      BY <1>2, <1>3
    <2>2. /\ received' \in Seq([by : Nat, prompt : Nat]) /\ Len(received) \in Nat
          /\ DOMAIN received' = 1..(Len(received) + 1) /\ DOMAIN received = 1..Len(received)
          /\ \A r \in DOMAIN received : received'[r] = received[r]
          /\ received'[Len(received) + 1] = [by |-> i, prompt |-> sends[i][1]]
      <3> DEFINE item == [by |-> i, prompt |-> sends[i][1]]
                 Item == [by : Nat, prompt : Nat]
      <3>1. received' = Append(received, item) /\ item \in Item /\ received \in Seq(Item)
        BY <1>2, <1>11, <2>1
      <3> HIDE DEF item, Item
      <3>2. /\ received' \in Seq(Item) /\ Len(received) \in Nat
            /\ DOMAIN received' = 1..(Len(received) + 1) /\ DOMAIN received = 1..Len(received)
            /\ \A r \in DOMAIN received : received'[r] = received[r]
            /\ received'[Len(received) + 1] = item
        BY <3>1, Appended
      <3> QED BY <3>2 DEF item, Item
    <2>3. PromptsArriveInOrder'
      <3> SUFFICES ASSUME NEW m \in DOMAIN received', NEW o \in DOMAIN received', m < o,
                          received'[m].by = received'[o].by
                   PROVE  received'[m].prompt < received'[o].prompt
        BY DEF PromptsArriveInOrder
      <3>1. m \in DOMAIN received /\ received'[m] = received[m]
        BY <2>2
      <3>2. CASE o \in DOMAIN received
        BY <2>2, <3>1, <3>2 DEF PromptInv, PromptsArriveInOrder
      <3>3. CASE o = Len(received) + 1
        <4>1. received'[o].by = i /\ received'[o].prompt = sends[i][1]
          BY <2>2, <3>3
        <4> QED BY <1>9, <3>1, <4>1
      <3> QED BY <2>2, <3>2, <3>3
    <2>4. ASSUME NEW r \in DOMAIN received'
          PROVE  /\ received'[r].by \in DOMAIN sends /\ received'[r].prompt <= prompts
                 /\ \A o \in DOMAIN sends'[received'[r].by] :
                       received'[r].prompt < sends'[received'[r].by][o]
      <3>1. CASE r \in DOMAIN received
        BY <1>9, <2>2, <3>1
      <3>2. CASE r = Len(received) + 1
        BY <1>2, <1>3, <1>5, <1>6, <2>2, <3>2 DEF PromptInv
      <3> QED BY <2>2, <3>1, <3>2
    <2>5. PromptInv'
      <3>1. \A j \in DOMAIN sends' : \A o \in DOMAIN sends'[j] :
               /\ sends'[j][o] <= prompts'
               /\ \A m \in DOMAIN sends'[j] : m < o => sends'[j][m] < sends'[j][o]
        BY <1>1, <1>5, <1>8
      <3>2. \A r \in DOMAIN received' :
               /\ received'[r].by \in DOMAIN sends' /\ received'[r].prompt <= prompts'
               /\ \A o \in DOMAIN sends'[received'[r].by] :
                     received'[r].prompt < sends'[received'[r].by][o]
        BY <1>1, <1>5, <2>4
      <3> QED BY <2>3, <3>1, <3>2 DEF PromptInv
    <2> QED BY <1>1, <1>2, <1>5, <2>2, <2>5, PromptFrame DEF InputTypeOK
  <1> QED BY <1>1, <1>3, <1>10, <1>11

(* A step of what is asked does not touch the processes and the prompts.   *)
LEMMA AskFrame ==
  ASSUME InputInv, UNCHANGED <<procVars, promptVars, overlapped>>,
         asks' \in Seq(Question), answers' \in Seq(Answer),
         resolver' \in [Kind -> [AgentSession -> 0..Len(asks')]],
         AskInv', ResolverInv', AnswerInv'
  PROVE  InputInv'
  <1> USE DEF InputInv
  <1>1. InputTypeOK'
    BY DEF InputTypeOK, Running
  <1>2. ProcInv' /\ PromptInv'
    BY DEF ProcInv, PromptInv, PromptsArriveInOrder
  <1> QED BY <1>1, <1>2

(* What a resolver holds.                                                  *)
LEMMA Held ==
  ASSUME InputInv, NEW k \in Kind, NEW s \in AgentSession, resolver[k][s] # 0
  PROVE  /\ resolver[k][s] \in DOMAIN asks
         /\ asks[resolver[k][s]].kind = k
         /\ asks[resolver[k][s]].proc \in DOMAIN procs
         /\ procs[asks[resolver[k][s]].proc].session = s
         /\ Handled(k)
         /\ (backend = "sdk" /\ ~overlapped) =>
               \/ asks[resolver[k][s]].state = "open"
               \/ procs[asks[resolver[k][s]].proc].state = "closing"
  <1>1. resolver[k][s] \in DOMAIN asks
    BY Indices DEF InputInv, InputTypeOK
  <1> QED BY <1>1 DEF InputInv, ResolverInv, AskInv

(* The agent asks: what it asked before in the same kind is no more open.  *)
LEMMA AsksKeeps ==
  ASSUME InputInv, NEW i \in DOMAIN procs, NEW k \in Kind, Asks(i, k)
  PROVE  InputInv'
  <1> USE DEF InputInv
  <1>1. /\ asks' = Append(asks, [kind |-> k, proc |-> i, state |-> "open"])
        /\ \/ Handled(k) /\ resolver' = [resolver EXCEPT ![k][procs[i].session] = Len(asks')]
           \/ backend # "sdk" /\ UNCHANGED resolver
        /\ UNCHANGED <<procVars, promptVars, answers, overlapped>>
        /\ procs[i].state = "open" /\ ~Waits(i, k)
    BY DEF Asks, Running
  <1>2. i = registered /\ i \in Nat
    BY <1>1, Indices DEF ProcInv
  <1>3. [kind |-> k, proc |-> i, state |-> "open"] \in Question /\ asks \in Seq(Question)
    BY <1>2 DEF Question, InputTypeOK
  <1>4. /\ asks' \in Seq(Question) /\ Len(asks') = Len(asks) + 1 /\ Len(asks) \in Nat
        /\ DOMAIN asks' = 1..(Len(asks) + 1) /\ DOMAIN asks = 1..Len(asks)
        /\ \A a \in DOMAIN asks : asks'[a] = asks[a] /\ asks[a] \in Question
        /\ asks'[Len(asks) + 1] = [kind |-> k, proc |-> i, state |-> "open"]
    BY <1>1, <1>3, Appended, Indices
  <1>5. \A a \in DOMAIN asks : ~(asks[a].kind = k /\ asks[a].state = "open")
    <2> SUFFICES ASSUME NEW a \in DOMAIN asks, asks[a].kind = k, asks[a].state = "open"
                 PROVE  FALSE
      OBVIOUS
    <2>1. asks[a].proc = i
      BY <1>2 DEF AskInv
    <2>2. asks[a] = [kind |-> k, proc |-> i, state |-> "open"]
      BY <1>4, <2>1 DEF Question
    <2> QED BY <1>1, <2>2 DEF Waits
  <1>6. AskInv'
    <2>1. ASSUME NEW a \in DOMAIN asks'
          PROVE  /\ asks'[a].proc \in DOMAIN procs
                 /\ asks'[a].state = "open" => asks'[a].proc = registered
                 /\ asks'[a].state = "open" => \A b \in DOMAIN asks' :
                                                   asks'[b].kind = asks'[a].kind => b <= a
      <3>1. CASE a \in DOMAIN asks
        BY <1>2, <1>4, <1>5, <3>1 DEF AskInv
      <3>2. CASE a = Len(asks) + 1
        BY <1>2, <1>4, <3>2
      <3> QED BY <1>4, <3>1, <3>2
    <2> QED BY <1>1, <2>1 DEF AskInv
  <1>7. procs[i].session \in AgentSession
    BY Indices DEF Process
  <1>8. resolver \in [Kind -> [AgentSession -> 0..Len(asks)]]
    BY DEF InputTypeOK
  <1>9. /\ resolver' \in [Kind -> [AgentSession -> 0..Len(asks')]]
        /\ \/ /\ backend # "sdk"
              /\ UNCHANGED resolver
           \/ /\ Handled(k)
              /\ \A l \in Kind : \A s \in AgentSession :
                    resolver'[l][s] = IF l = k /\ s = procs[i].session THEN Len(asks) + 1
                                      ELSE resolver[l][s]
    <2>1. 0..Len(asks) \subseteq 0..Len(asks') /\ Len(asks) + 1 \in 0..Len(asks')
      BY <1>4
    <2>2. CASE backend # "sdk" /\ UNCHANGED resolver
      BY <1>8, <2>1, <2>2
    <2>3. CASE Handled(k) /\ resolver' = [resolver EXCEPT ![k][procs[i].session] = Len(asks) + 1]
      <3> DEFINE row == [resolver[k] EXCEPT ![procs[i].session] = Len(asks) + 1]
      <3>1. resolver' = [resolver EXCEPT ![k] = row]
        BY <2>3
      <3>2. resolver[k] \in [AgentSession -> 0..Len(asks)]
        BY <1>8
      <3>3. /\ row \in [AgentSession -> 0..Len(asks')]
            /\ \A s \in AgentSession : row[s] = IF s = procs[i].session THEN Len(asks) + 1
                                                ELSE resolver[k][s]
        BY <1>7, <2>1, <3>2
      <3> HIDE DEF row
      <3>4. \A l \in Kind : resolver'[l] = IF l = k THEN row ELSE resolver[l]
        BY <1>8, <3>1
      <3>5. ASSUME NEW l \in Kind PROVE resolver[l] \in [AgentSession -> 0..Len(asks')]
        BY <1>8, <2>1
      <3>6. resolver' \in [Kind -> [AgentSession -> 0..Len(asks')]]
        BY <1>8, <3>1, <3>3, <3>5
      <3> QED BY <2>3, <3>3, <3>4, <3>6
    <2> QED BY <1>1, <1>4, <2>2, <2>3
  <1>10. ResolverInv'
    <2>1. ASSUME NEW l \in Kind, NEW s \in AgentSession, resolver'[l][s] # 0
          PROVE  LET a == resolver'[l][s]
                 IN  /\ asks'[a].kind = l /\ procs[asks'[a].proc].session = s
                     /\ Handled(l)
                     /\ (backend = "sdk" /\ ~overlapped) =>
                           asks'[a].state = "open" \/ procs[asks'[a].proc].state = "closing"
      <3>1. CASE resolver'[l][s] = resolver[l][s]
        <4> DEFINE a == resolver[l][s]
        <4>1. a # 0 /\ resolver'[l][s] = a
          BY <2>1, <3>1
        <4>2. /\ a \in DOMAIN asks /\ asks[a].kind = l /\ procs[asks[a].proc].session = s
              /\ Handled(l)
              /\ (backend = "sdk" /\ ~overlapped) =>
                    asks[a].state = "open" \/ procs[asks[a].proc].state = "closing"
          BY <4>1, Held
        <4> HIDE DEF a
        <4>3. asks'[a] = asks[a]
          BY <1>4, <4>2
        <4> QED BY <4>1, <4>2, <4>3
      <3>2. CASE resolver'[l][s] # resolver[l][s]
        <4>1. l = k /\ s = procs[i].session /\ resolver'[l][s] = Len(asks) + 1 /\ Handled(k)
          BY <1>9, <3>2
        <4> QED BY <1>4, <4>1
      <3> QED BY <3>1, <3>2
    <2>2. AsksCanBeAnswered'
      <3> SUFFICES ASSUME backend = "sdk", ~overlapped, NEW a \in DOMAIN asks',
                          asks'[a].state = "open"
                   PROVE  resolver'[asks'[a].kind][procs[asks'[a].proc].session] = a
        BY <1>1 DEF AsksCanBeAnswered
      <3>1. \A l \in Kind : \A s \in AgentSession :
               resolver'[l][s] = IF l = k /\ s = procs[i].session THEN Len(asks) + 1
                                 ELSE resolver[l][s]
        BY <1>9
      <3>2. CASE a = Len(asks) + 1
        BY <1>4, <1>7, <3>1, <3>2
      <3>3. CASE a \in DOMAIN asks
        <4>1. /\ asks[a].state = "open" /\ asks[a].kind \in Kind /\ asks[a].kind # k
              /\ asks[a].proc = registered
          BY <1>4, <1>5, <3>3 DEF AskInv, Question
        <4>2. resolver[asks[a].kind][procs[asks[a].proc].session] = a
          BY <3>3, <4>1 DEF ResolverInv, AsksCanBeAnswered
        <4> QED BY <1>2, <1>4, <1>7, <3>1, <3>3, <4>1, <4>2
      <3> QED BY <1>4, <3>2, <3>3
    <2>3. \A l \in Kind : Handled(l)' = Handled(l)
      BY <1>1 DEF Handled
    <2>4. ASSUME NEW l \in Kind, NEW s \in AgentSession, resolver'[l][s] # 0
          PROVE  LET a == resolver'[l][s]
                 IN  /\ asks'[a].kind = l /\ procs'[asks'[a].proc].session = s
                     /\ Handled(l)'
                     /\ (backend' = "sdk" /\ ~overlapped') =>
                           asks'[a].state = "open" \/ procs'[asks'[a].proc].state = "closing"
      <3>1. procs' = procs /\ backend' = backend /\ overlapped' = overlapped
        BY <1>1
      <3>2. Handled(l)' = Handled(l)
        BY <2>3
      <3> QED BY <2>1, <2>4, <3>1, <3>2
    <2> QED BY <2>2, <2>4 DEF ResolverInv
  <1>11. AnswerInv'
    BY <1>1, <1>4 DEF AnswerInv, RepliesAreReported, RepliesAnswerTheirAsk
  <1>12. answers' \in Seq(Answer)
    BY <1>1 DEF InputTypeOK
  <1> QED BY <1>1, <1>4, <1>6, <1>9, <1>10, <1>11, <1>12, AskFrame

(* Something open is answered: by a reply, which is told so, or in the TUI. *)
LEMMA AnswerKeeps ==
  ASSUME InputInv, NEW b \in DOMAIN asks, asks[b].state = "open",
         asks' = [asks EXCEPT ![b].state = "answered"],
         UNCHANGED <<procVars, promptVars, overlapped>>,
         NEW gone \in SUBSET (Kind \X AgentSession),
         resolver' \in [Kind -> [AgentSession -> 0..Len(asks)]],
         \A k \in Kind, s \in AgentSession :
             resolver'[k][s] = IF <<k, s>> \in gone THEN 0 ELSE resolver[k][s],
         \A pair \in gone : pair = <<asks[b].kind, procs[registered].session>>,
         backend = "sdk" => <<asks[b].kind, procs[registered].session>> \in gone,
         \/ answers' = answers
         \/ \E a \in DOMAIN asks :
               /\ answers' = Append(answers, [to |-> a, got |-> b, told |-> TRUE])
               /\ a # b => backend = "sdk" /\ asks[a].kind = asks[b].kind
  PROVE  InputInv'
  <1> USE DEF InputInv
  <1>1. /\ \A a \in DOMAIN asks : asks[a] \in Question
        /\ asks \in Seq(Question) /\ answers \in Seq(Answer)
        /\ DOMAIN asks = 1..Len(asks) /\ Len(asks) \in Nat
    BY Indices DEF InputTypeOK
  <1>2. /\ asks' \in Seq(Question) /\ Len(asks') = Len(asks) /\ DOMAIN asks' = DOMAIN asks
        /\ \A a \in DOMAIN asks : /\ asks'[a].kind = asks[a].kind /\ asks'[a].proc = asks[a].proc
                                  /\ asks'[a].state = IF a = b THEN "answered" ELSE asks[a].state
    <2> DEFINE new == [asks[b] EXCEPT !.state = "answered"]
    <2>1. /\ new \in Question /\ new.kind = asks[b].kind /\ new.proc = asks[b].proc
          /\ new.state = "answered"
      BY <1>1 DEF Question
    <2>2. asks' = [asks EXCEPT ![b] = new]
      OBVIOUS
    <2> HIDE DEF new
    <2>3. asks' \in Seq(Question) /\ Len(asks') = Len(asks) /\ DOMAIN asks' = DOMAIN asks
      <3>1. /\ [asks EXCEPT ![b] = new] \in Seq(Question)
            /\ Len([asks EXCEPT ![b] = new]) = Len(asks)
            /\ DOMAIN [asks EXCEPT ![b] = new] = DOMAIN asks
        BY <1>1, <2>1, Changed
      <3> QED BY <2>2, <3>1
    <2>4. \A a \in DOMAIN asks : asks'[a] = IF a = b THEN new ELSE asks[a]
      BY <2>2
    <2> QED BY <2>1, <2>3, <2>4
  <1>3. asks[b].proc = registered /\ asks[b].proc \in DOMAIN procs
        /\ asks[b].kind \in Kind /\ procs[registered].session \in AgentSession
    BY <1>1, Indices DEF AskInv, Question, Process
  <1>4. AskInv'
    BY <1>2 DEF AskInv
  <1>5. ResolverInv'
    <2>1. ASSUME NEW k \in Kind, NEW s \in AgentSession, resolver'[k][s] # 0
          PROVE  LET a == resolver'[k][s]
                 IN  /\ asks'[a].kind = k /\ procs'[asks'[a].proc].session = s
                     /\ Handled(k)'
                     /\ (backend' = "sdk" /\ ~overlapped') =>
                           asks'[a].state = "open" \/ procs'[asks'[a].proc].state = "closing"
      <3>1. resolver'[k][s] = resolver[k][s] /\ <<k, s>> \notin gone
        BY <2>1
      <3> DEFINE a == resolver[k][s]
      <3>2. /\ a \in DOMAIN asks /\ asks[a].kind = k /\ procs[asks[a].proc].session = s /\ Handled(k)
            /\ (backend = "sdk" /\ ~overlapped) =>
                   asks[a].state = "open" \/ procs[asks[a].proc].state = "closing"
        <4>1. a # 0
          BY <2>1, <3>1
        <4> QED BY <4>1, Held
      <3>3. a = b => backend # "sdk"
        BY <1>3, <3>1, <3>2
      <3>4. Handled(k)'
        BY <3>2 DEF Handled
      <3> QED BY <1>2, <3>1, <3>2, <3>3, <3>4
    <2>2. AsksCanBeAnswered'
      <3> SUFFICES ASSUME backend = "sdk", ~overlapped, NEW a \in DOMAIN asks,
                          asks'[a].state = "open"
                   PROVE  resolver'[asks'[a].kind][procs[asks'[a].proc].session] = a
        BY <1>2 DEF AsksCanBeAnswered
      <3> DEFINE k == asks[a].kind
                 s == procs[asks[a].proc].session
      <3>1. a # b /\ asks[a].state = "open" /\ asks'[a].kind = k /\ asks'[a].proc = asks[a].proc
        BY <1>2
      <3>2. k \in Kind /\ s \in AgentSession /\ asks[a].proc = registered
        BY <1>1, <1>3, <3>1 DEF AskInv, Question
      <3>3. resolver[k][s] = a
        BY <3>1 DEF ResolverInv, AsksCanBeAnswered
      <3>4. k # asks[b].kind
        <4>1. ASSUME k = asks[b].kind PROVE FALSE
          <5>1. a <= b /\ b <= a
            BY <3>1, <4>1 DEF AskInv
          <5> QED BY <1>1, <3>1, <5>1
        <4> QED BY <4>1
      <3>5. <<k, s>> \notin gone
        BY <3>4
      <3> QED BY <3>1, <3>2, <3>3, <3>5
    <2> QED BY <2>1, <2>2 DEF ResolverInv
  <1>6. CASE answers' = answers
    <2>1. AnswerInv'
      BY <1>2, <1>6 DEF AnswerInv, RepliesAreReported, RepliesAnswerTheirAsk
    <2> QED BY <1>1, <1>2, <1>4, <1>5, <1>6, <2>1, AskFrame
  <1>7. ASSUME NEW a \in DOMAIN asks,
               answers' = Append(answers, [to |-> a, got |-> b, told |-> TRUE]),
               a # b => backend = "sdk" /\ asks[a].kind = asks[b].kind
        PROVE  InputInv'
    <2>1. [to |-> a, got |-> b, told |-> TRUE] \in Answer
      BY <1>1 DEF Answer
    <2>2. /\ answers' \in Seq(Answer) /\ Len(answers) \in Nat
          /\ DOMAIN answers' = 1..(Len(answers) + 1) /\ DOMAIN answers = 1..Len(answers)
          /\ \A n \in DOMAIN answers : answers'[n] = answers[n]
          /\ answers'[Len(answers) + 1] = [to |-> a, got |-> b, told |-> TRUE]
      BY <1>1, <1>7, <2>1, Appended
    <2>3. /\ a # b => a < b /\ asks[a].state # "open"
      BY <1>1, <1>7 DEF AskInv
    <2>4. \A n \in DOMAIN answers : answers[n].got # b
      BY <1>1 DEF AnswerInv
    <2>5. \A n \in DOMAIN answers : answers[n].to \in DOMAIN asks
      BY DEF AnswerInv
    <2>6. RepliesAreReported'
      <3>1. ASSUME NEW n \in DOMAIN answers', ~overlapped
            PROVE  answers'[n].told <=> answers'[n].got # 0
        BY <1>1, <2>2, <3>1 DEF AnswerInv, RepliesAreReported
      <3>2. ASSUME NEW m \in DOMAIN answers', NEW n \in DOMAIN answers', m # n, answers'[m].got # 0
            PROVE  answers'[m].got # answers'[n].got
        BY <2>2, <2>4, <3>2 DEF AnswerInv, RepliesAreReported
      <3> QED BY <3>1, <3>2 DEF RepliesAreReported
    <2>7. RepliesAnswerTheirAsk'
      <3> SUFFICES ASSUME NEW n \in DOMAIN answers',
                          answers'[n].got \notin {0, answers'[n].to}
                   PROVE  LET c == answers'[n].to  d == answers'[n].got
                          IN  /\ backend = "sdk" /\ c < d /\ asks'[c].kind = asks'[d].kind
                              /\ asks'[c].state # "open"
        BY DEF RepliesAnswerTheirAsk
      <3>1. CASE n \in DOMAIN answers
        <4>1. /\ answers'[n] = answers[n] /\ answers[n].to \in DOMAIN asks
              /\ answers[n].got \in DOMAIN asks
          BY <1>2, <2>2, <2>5, <3>1 DEF AnswerInv
        <4> QED BY <1>2, <3>1, <4>1 DEF AnswerInv, RepliesAnswerTheirAsk
      <3>2. CASE n = Len(answers) + 1
        <4>1. answers'[n].to = a /\ answers'[n].got = b /\ a # b
          BY <2>2, <3>2
        <4> QED BY <1>2, <1>7, <2>3, <4>1
      <3> QED BY <2>2, <3>1, <3>2
    <2>8. ASSUME NEW n \in DOMAIN answers'
          PROVE  /\ answers'[n].to \in DOMAIN asks'
                 /\ answers'[n].got # 0 => /\ answers'[n].got \in DOMAIN asks'
                                           /\ asks'[answers'[n].got].state = "answered"
      BY <1>2, <2>2 DEF AnswerInv
    <2>9. AnswerInv'
      BY <2>6, <2>7, <2>8 DEF AnswerInv
    <2> QED BY <1>2, <1>4, <1>5, <2>2, <2>9, AskFrame
  <1> QED BY <1>6, <1>7

(* A reply that answers nothing, and is told so or, after an overlap, is   *)
(* lost in a resolver that was left.                                       *)
LEMMA LostKeeps ==
  ASSUME InputInv, NEW a \in DOMAIN asks, NEW told \in BOOLEAN,
         answers' = Append(answers, [to |-> a, got |-> 0, told |-> told]),
         UNCHANGED <<procVars, promptVars, asks, overlapped>>, ResolverInv',
         resolver' \in [Kind -> [AgentSession -> 0..Len(asks)]],
         ~overlapped => ~told
  PROVE  InputInv'
  <1> USE DEF InputInv
  <1>1. a \in Nat /\ answers \in Seq(Answer)
    BY Indices DEF InputTypeOK
  <1>2. [to |-> a, got |-> 0, told |-> told] \in Answer
    BY <1>1 DEF Answer
  <1>3. /\ answers' \in Seq(Answer) /\ Len(answers) \in Nat
        /\ DOMAIN answers' = 1..(Len(answers) + 1) /\ DOMAIN answers = 1..Len(answers)
        /\ \A n \in DOMAIN answers : answers'[n] = answers[n]
        /\ answers'[Len(answers) + 1] = [to |-> a, got |-> 0, told |-> told]
    BY <1>1, <1>2, Appended
  <1>4. AskInv'
    BY DEF AskInv
  <1>5. RepliesAreReported'
    <2>1. ASSUME NEW n \in DOMAIN answers', ~overlapped
          PROVE  answers'[n].told <=> answers'[n].got # 0
      BY <1>3, <2>1 DEF AnswerInv, RepliesAreReported
    <2>2. ASSUME NEW m \in DOMAIN answers', NEW n \in DOMAIN answers', m # n, answers'[m].got # 0
          PROVE  answers'[m].got # answers'[n].got
      BY <1>3, <2>2 DEF AnswerInv, RepliesAreReported
    <2> QED BY <2>1, <2>2 DEF RepliesAreReported
  <1>6. RepliesAnswerTheirAsk'
    BY <1>3 DEF AnswerInv, RepliesAnswerTheirAsk
  <1>7. AnswerInv'
    BY <1>3, <1>5, <1>6 DEF AnswerInv
  <1>8. asks' \in Seq(Question)
    BY DEF InputTypeOK
  <1> QED BY <1>3, <1>4, <1>7, <1>8, AskFrame

(* Taking the resolver of what is not open, or is not there.               *)
LEMMA DeletedKeeps ==
  ASSUME InputInv, NEW k \in Kind, NEW s \in AgentSession
  PROVE  /\ Deleted(k, s) \in [Kind -> [AgentSession -> 0..Len(asks)]]
         /\ \A l \in Kind, t \in AgentSession :
               Deleted(k, s)[l][t] = IF <<l, t>> \in {<<k, s>>} THEN 0 ELSE resolver[l][t]
  <1>1. resolver \in [Kind -> [AgentSession -> 0..Len(asks)]] /\ Len(asks) \in Nat
    BY Indices DEF InputInv, InputTypeOK
  <1> DEFINE row == [resolver[k] EXCEPT ![s] = 0]
             after == Deleted(k, s)
  <1>2. after = [resolver EXCEPT ![k] = row]
    BY DEF Deleted
  <1>3. resolver[k] \in [AgentSession -> 0..Len(asks)] /\ 0 \in 0..Len(asks)
    BY <1>1
  <1>4. /\ row \in [AgentSession -> 0..Len(asks)]
        /\ \A t \in AgentSession : row[t] = IF t = s THEN 0 ELSE resolver[k][t]
    BY <1>3
  <1> HIDE DEF row, after
  <1>5. /\ after \in [Kind -> [AgentSession -> 0..Len(asks)]]
        /\ \A l \in Kind : after[l] = IF l = k THEN row ELSE resolver[l]
    BY <1>1, <1>2, <1>4
  <1>6. \A l \in Kind, t \in AgentSession :
           after[l][t] = IF <<l, t>> \in {<<k, s>>} THEN 0 ELSE resolver[l][t]
    BY <1>4, <1>5
  <1> QED BY <1>5, <1>6 DEF after

(* The user answers in the TUI, which leaves the resolver alone.           *)
LEMMA TuiKeeps ==
  ASSUME InputInv, NEW a \in DOMAIN asks, AnsweredInTui(a)
  PROVE  InputInv'
  <1>1. /\ backend # "sdk" /\ asks[a].state = "open"
        /\ asks' = [asks EXCEPT ![a].state = "answered"]
        /\ UNCHANGED <<procVars, promptVars, resolver, answers, overlapped>>
    BY DEF AnsweredInTui
  <1>2. resolver \in [Kind -> [AgentSession -> 0..Len(asks)]]
    BY DEF InputInv, InputTypeOK
  <1>3. {} \in SUBSET (Kind \X AgentSession)
    OBVIOUS
  <1> QED BY <1>1, <1>2, <1>3, AnswerKeeps

(* A reply from Teams, by each of the ways it takes.                       *)
LEMMA ReplyKeeps ==
  ASSUME InputInv, NEW a \in DOMAIN asks, Reply(a)
  PROVE  InputInv'
  <1>1. /\ UNCHANGED <<procVars, promptVars, overlapped>>
        /\ resolver \in [Kind -> [AgentSession -> 0..Len(asks)]]
        /\ \A b \in DOMAIN asks : asks[b] \in Question
        /\ TRUE \in BOOLEAN /\ FALSE \in BOOLEAN
    BY Indices DEF Reply, InputInv, InputTypeOK
  <1>2. ASSUME answers' = Append(answers, [to |-> a, got |-> 0, told |-> FALSE]),
               UNCHANGED <<asks, resolver>>
        PROVE  InputInv'
    <2>1. ResolverInv'
      <3>1. UNCHANGED <<procs, backend, registered, overlapped, asks, resolver>>
        BY <1>1, <1>2 DEF procVars
      <3>2. \A k \in Kind : Handled(k)' = Handled(k)
        BY <3>1 DEF Handled
      <3>3. ResolverInv
        BY DEF InputInv
      <3>4. AsksCanBeAnswered'
        BY <3>1, <3>3 DEF ResolverInv, AsksCanBeAnswered
      <3> QED BY <3>1, <3>2, <3>3, <3>4 DEF ResolverInv
    <2> QED BY <1>1, <1>2, <2>1, LostKeeps
  <1>3. CASE Refused(a)
    BY <1>2, <1>3 DEF Refused
  <1>4. CASE backend = "ui-server" /\ ByRequest(a)
    <2>1. CASE asks[a].state = "open" /\ asks[a].proc = registered
      <3>1. /\ asks' = [asks EXCEPT ![a].state = "answered"] /\ UNCHANGED resolver
            /\ answers' = Append(answers, [to |-> a, got |-> a, told |-> TRUE])
        BY <1>4, <2>1 DEF ByRequest
      <3>2. {} \in SUBSET (Kind \X AgentSession)
        OBVIOUS
      <3> QED BY <1>1, <1>4, <2>1, <3>1, <3>2, AnswerKeeps
    <2>2. CASE ~(asks[a].state = "open" /\ asks[a].proc = registered)
      BY <1>2, <1>4, <2>2 DEF ByRequest
    <2> QED BY <2>1, <2>2
  <1>5. CASE BySession(a) /\ registered # 0 /\ (backend = "ui-server" => asks[a].kind = "form")
             /\ backend # "node-pty"
    <2> DEFINE k == asks[a].kind
               s == procs[registered].session
               found == resolver[k][s]
    <2>1. /\ k \in Kind /\ s \in AgentSession /\ registered \in DOMAIN procs
          /\ procs[registered].state = "open"
      <3>1. registered \in DOMAIN procs /\ procs[registered].state = "open"
        BY <1>5, Indices DEF InputInv, InputTypeOK, Running
      <3>2. procs[registered] \in Process /\ asks[a] \in Question
        BY <1>1, <3>1, Indices DEF InputInv
      <3> QED BY <3>1, <3>2 DEF Process, Question
    <2>2. CASE found = 0
      BY <1>2, <1>5, <2>2 DEF BySession
    <2>3. CASE found # 0
      <3>1. /\ resolver' = Deleted(k, s)
            /\ asks' = IF asks[found].state = "open"
                       THEN [asks EXCEPT ![found].state = "answered"] ELSE asks
            /\ answers' = Append(answers,
                   [to |-> a, got |-> IF asks[found].state = "open" THEN found ELSE 0, told |-> TRUE])
        BY <1>5, <2>3 DEF BySession
      <3>2. /\ found \in DOMAIN asks /\ asks[found].kind = k /\ Handled(k)
            /\ asks[found].proc \in DOMAIN procs /\ procs[asks[found].proc].session = s
            /\ (backend = "sdk" /\ ~overlapped) =>
                  asks[found].state = "open" \/ procs[asks[found].proc].state = "closing"
        <4>1. k \in Kind /\ s \in AgentSession /\ found = resolver[k][s] /\ found # 0
          BY <2>1, <2>3
        <4> HIDE DEF found, k, s
        <4> QED BY <4>1, Held
      <3>3. backend = "sdk"
        <4>1. backend \in {"sdk", "ui-server", "node-pty"}
          BY DEF InputInv, InputTypeOK
        <4> HIDE DEF found, k, s
        <4>2. Handled(k)
          BY <3>2
        <4>3. k = asks[a].kind
          BY DEF k
        <4> QED BY <1>5, <4>1, <4>2, <4>3 DEF Handled
      <3>4. /\ resolver' \in [Kind -> [AgentSession -> 0..Len(asks)]]
            /\ \A l \in Kind, t \in AgentSession :
                  resolver'[l][t] = IF <<l, t>> \in {<<k, s>>} THEN 0 ELSE resolver[l][t]
        <4>1. resolver' = Deleted(k, s) /\ k \in Kind /\ s \in AgentSession
          BY <2>1, <3>1
        <4> HIDE DEF found, k, s
        <4> QED BY <4>1, DeletedKeeps
      <3>5. CASE asks[found].state = "open"
        <4>1. {<<k, s>>} \in SUBSET (Kind \X AgentSession)
          BY <2>1
        <4>2. /\ asks' = [asks EXCEPT ![found].state = "answered"]
              /\ answers' = Append(answers, [to |-> a, got |-> found, told |-> TRUE])
          BY <3>1, <3>5
        <4>3. asks[a].kind = asks[found].kind /\ k = asks[found].kind
          BY <3>2
        <4>4. \E c \in DOMAIN asks :
                 /\ answers' = Append(answers, [to |-> c, got |-> found, told |-> TRUE])
                 /\ c # found => backend = "sdk" /\ asks[c].kind = asks[found].kind
          BY <3>3, <4>2, <4>3
        <4>5. \A pair \in {<<k, s>>} : pair = <<asks[found].kind, procs[registered].session>>
          BY <4>3
        <4>6. <<asks[found].kind, procs[registered].session>> \in {<<k, s>>}
          BY <4>3
        <4> HIDE DEF found, k, s
        <4> QED BY <1>1, <3>2, <3>4, <3>5, <4>1, <4>2, <4>4, <4>5, <4>6, AnswerKeeps
      <3>6. CASE asks[found].state # "open"
        <4>1. /\ asks' = asks
              /\ answers' = Append(answers, [to |-> a, got |-> 0, told |-> TRUE])
          BY <3>1, <3>6
        <4>2. overlapped
          BY <1>5, <2>1, <3>2, <3>3, <3>6 DEF InputInv, ProcInv
        <4>3. ResolverInv'
          BY <1>1, <3>4, <4>1, <4>2 DEF InputInv, ResolverInv, AsksCanBeAnswered, Handled
        <4> QED BY <1>1, <3>4, <4>1, <4>2, <4>3, LostKeeps
      <3> QED BY <3>5, <3>6
    <2> QED BY <2>2, <2>3
  <1>6. asks[a].kind \in {"question", "plan", "form"}
    BY <1>1 DEF Question, Kind
  <1> QED BY <1>3, <1>4, <1>5, <1>6 DEF Reply

(* Every step keeps the invariant.                                         *)
LEMMA InputStep == InputInv /\ [InputNext]_inputVars => InputInv'
  <1> SUFFICES ASSUME InputInv, [InputNext]_inputVars PROVE InputInv'
    OBVIOUS
  <1>1. ASSUME NEW s \in AgentSession, Start(s) PROVE InputInv'
    BY <1>1, StartKeeps
  <1>2. ASSUME Kill PROVE InputInv'
    BY <1>2, KillAndExitKeep
  <1>3. ASSUME NEW i \in DOMAIN procs, Exits(i) PROVE InputInv'
    BY <1>3, KillAndExitKeep
  <1>4. ASSUME Write \/ SubmitPrompt PROVE InputInv'
    BY <1>4, WriteKeeps
  <1>5. ASSUME NEW i \in DOMAIN procs, Sends(i) PROVE InputInv'
    BY <1>5, SendsKeeps
  <1>6. ASSUME NEW i \in DOMAIN procs, NEW k \in Kind, Asks(i, k) PROVE InputInv'
    BY <1>6, AsksKeeps
  <1>7. ASSUME NEW a \in DOMAIN asks, AnsweredInTui(a) PROVE InputInv'
    BY <1>7, TuiKeeps
  <1>8. ASSUME NEW a \in DOMAIN asks, Reply(a) PROVE InputInv'
    BY <1>8, ReplyKeeps
  <1>9. CASE UNCHANGED inputVars
    <2>1. UNCHANGED <<procVars, promptVars, askVars, overlapped>>
      BY <1>9 DEF inputVars
    <2>2. sends \in Seq(Seq(Nat)) /\ prompts \in Nat /\ line \in BOOLEAN
          /\ received \in Seq([by : Nat, prompt : Nat])
      BY DEF InputInv, InputTypeOK
    <2>3. PromptInv'
      BY <2>1 DEF promptVars, InputInv, PromptInv, PromptsArriveInOrder
    <2> QED BY <2>1, <2>2, <2>3, PromptFrame DEF promptVars
  <1> QED BY <1>1, <1>2, <1>3, <1>4, <1>5, <1>6, <1>7, <1>8, <1>9 DEF InputNext

(* The prompts of a process arrive in their order and once; Teams is told  *)
(* that a reply has answered if and only if it has; what it answered is    *)
(* what it replied to, or what the same agent asked in its place; and      *)
(* what is open can be answered.  For any sessions and processes, however  *)
(* restarts, kills, exits and answers in the TUI cross with it; only where *)
(* a session is started before its last process has exited, the report and *)
(* the resolver are not promised.                                          *)
THEOREM InputAcknowledged == InputSpec => []InputIsAcknowledged
  <1>1. InputInv => InputIsAcknowledged
    BY DEF InputInv, InputIsAcknowledged, PromptInv, ResolverInv, AnswerInv
  <1> QED BY <1>1, InputStart, InputStep, PTL DEF InputSpec

-----------------------------------------------------------------------------
(***************************************************************************)
(* OrchestratorGate.                                                       *)
(*                                                                         *)
(* Safety of the permission gate for any number of calls, sessions, ends,  *)
(* minimizations and registrations.                                        *)
(*                                                                         *)
(* What the four properties say of a call depends on what happened to it   *)
(* before: CallHistory keeps that (a call cut during its resolution holds  *)
(* an old epoch; a call that was asked about has passed its resolution).   *)
(* RunsOnApprovedTarget needs two facts more: an approved call without its *)
(* target has lost its session (TargetInv), and a session that starts is   *)
(* never one a call belongs to (SessionNumbers).                           *)
(***************************************************************************)

CallHistory ==
    \A c \in Call :
        /\ since[c] <= epoch
        /\ state[c] = "resolving" => c \in targeted
        /\ c \in asked => state[c] \notin {"none", "resolving"}
        /\ c \in cut /\ state[c] = "resolving" => since[c] < epoch

GateInv ==
    /\ NoStaleTarget
    /\ EndedGatesStayClosed
    /\ RelayedGateIsAnswerable
    /\ CallHistory

SessionNumbers ==
    /\ starting \subseteq 1..starts
    /\ sdk \subseteq (1..starts) \ starting
    /\ session \in (0..starts) \ starting
    /\ \A c \in Call : state[c] # "none" => of[c] \in (1..starts) \ starting

TargetInv ==
    /\ \A c \in targeted :
        /\ state[c] # "none"
        /\ state[c] \in {"open", "approved"} /\ c \notin pinned => of[c] # session
    /\ unpinned \subseteq In({"ran"})

TargetsInv ==
    /\ SessionNumbers
    /\ TargetInv
    /\ RunsOnApprovedTarget

IInv == TypeOK /\ GateInv /\ TargetsInv

(* The operators the actions are made of. *)
USE DEF In, OpenGates, Unpin, Decided, Approve, Refuse, Superseded, Gate, Opens, Kept,
        RejectAllPending, HasBinding, Abandoned, GoOffline, ExitListener, MayExpire, TimesOut,
        StartsSession, NoSession, Session, sessionVars, gateVars, teamsVars, ghostVars,
        budgetVars

(* A call at its gate is open or approved, and it disturbs only the call   *)
(* the thread is asked about, which is refused and unpinned.               *)
LEMMA GateDecides ==
  ASSUME TypeOK, NEW c \in Call, NEW pins \in SUBSET {c}, Gate(c, pins)
  PROVE  /\ state' \in [Call -> {"none", "resolving", "open", "approved", "rejected",
                                 "expired", "ran"}]
         /\ pinned' \subseteq Call /\ record' \in Call \cup {NoCall} /\ asked' \subseteq Call
         /\ state'[c] \in {"open", "approved"}
         /\ pins \subseteq pinned' /\ pinned' \subseteq pinned \cup pins
         /\ asked' \subseteq asked \cup {c}
         /\ \A d \in Call \ {c} :
               \/ state'[d] = state[d] /\ (d \in pinned' <=> d \in pinned)
               \/ state[d] = "open" /\ state'[d] = "rejected" /\ d \notin pinned'
  <1> USE DEF TypeOK
  <1>1. CASE allowAll
    BY <1>1
  <1>2. CASE ~allowAll
    <2>1. /\ state' = [Decided(Superseded, "rejected") EXCEPT ![c] = "open"]
          /\ pinned' = Unpin(Superseded \cap OpenGates) \cup pins
          /\ record' = (IF thread # NoSession THEN c ELSE record)
          /\ asked' = (IF thread # NoSession THEN asked \cup {c} ELSE asked)
      BY <1>2
    <2>2. \A d \in Call : Decided(Superseded, "rejected")[d] =
             IF d \in Superseded /\ state[d] = "open" THEN "rejected" ELSE state[d]
      OBVIOUS
    <2>3. Decided(Superseded, "rejected") \in [Call -> {"none", "resolving", "open",
             "approved", "rejected", "expired", "ran"}]
      OBVIOUS
    <2>4. \A d \in Call : d \in Unpin(Superseded \cap OpenGates) <=>
             d \in pinned /\ ~(d \in Superseded /\ state[d] = "open")
      OBVIOUS
    <2>5. Unpin(Superseded \cap OpenGates) \subseteq pinned
      OBVIOUS
    <2> HIDE DEF Gate, Decided, Superseded, Unpin, OpenGates, In
    <2>6. \A d \in Call \ {c} :
             \/ state'[d] = state[d] /\ (d \in pinned' <=> d \in pinned)
             \/ state[d] = "open" /\ state'[d] = "rejected" /\ d \notin pinned'
      BY <2>1, <2>2, <2>3, <2>4
    <2>7. /\ state' \in [Call -> {"none", "resolving", "open", "approved", "rejected",
                                  "expired", "ran"}]
          /\ state'[c] = "open"
      BY <2>1, <2>3
    <2>8. /\ pinned' \subseteq Call /\ pins \subseteq pinned' /\ pinned' \subseteq pinned \cup pins
          /\ record' \in Call \cup {NoCall} /\ asked' \subseteq Call /\ asked' \subseteq asked \cup {c}
      BY <2>1, <2>5
    <2> QED BY <2>6, <2>7, <2>8
  <1> QED BY <1>1, <1>2

\* Every step of the gate preserves the types.
LEMMA TypeStep == TypeOK /\ [Next]_vars => TypeOK'
  <1> USE GateAssumption DEF TypeOK
  <1> SUFFICES ASSUME TypeOK, [Next]_vars PROVE TypeOK'
    OBVIOUS
  <1>1. ASSUME NEW c \in Call, NEW s \in sdk, Request(c, s) PROVE TypeOK'
    <2>1. Gate(c, {}) /\ of' \in [Call -> Session \cup {NoSession}]
      BY <1>1 DEF Request
    <2>2. UNCHANGED <<sessionVars, targeted, since, epoch, allowAll, relay, thread, going,
                      registering, cut, unpinned, budgetVars>>
      BY <1>1 DEF Request
    <2> HIDE DEF Gate
    <2>3. /\ state' \in [Call -> {"none", "resolving", "open", "approved", "rejected",
                                  "expired", "ran"}]
          /\ pinned' \subseteq Call /\ record' \in Call \cup {NoCall} /\ asked' \subseteq Call
      BY <2>1, GateDecides
    <2> QED
      BY <2>1, <2>2, <2>3
  <1>2. ASSUME NEW c \in Call, NEW s \in sdk, RequestTargeted(c, s) PROVE TypeOK'
    BY <1>2 DEF RequestTargeted
  <1>3. ASSUME NEW c \in Call, Resolve(c) PROVE TypeOK'
    <2>1. UNCHANGED <<sessionVars, of, targeted, since, epoch, allowAll, relay, thread, going,
                      registering, cut, unpinned, budgetVars>>
      BY <1>3 DEF Resolve
    <2>2. /\ state' \in [Call -> {"none", "resolving", "open", "approved", "rejected",
                                  "expired", "ran"}]
          /\ pinned' \subseteq Call /\ record' \in Call \cup {NoCall} /\ asked' \subseteq Call
      <3>1. CASE Opens(c)
        <4>1. Gate(c, {c})
          BY <1>3, <3>1 DEF Resolve
        <4> HIDE DEF Gate
        <4> QED BY <4>1, GateDecides
      <3>2. CASE ~Opens(c)
        BY <1>3, <3>2 DEF Resolve
      <3> QED BY <3>1, <3>2
    <2> QED
      BY <2>1, <2>2
  <1>4. ASSUME NEW c \in Call, ResolveFails(c) PROVE TypeOK'
    BY <1>4 DEF ResolveFails
  <1>5. ASSUME NEW c \in Call, AnswerInPanel(c) PROVE TypeOK'
    BY <1>5 DEF AnswerInPanel
  <1>6. ASSUME NEW c \in Call, Expire(c) PROVE TypeOK'
    BY <1>6 DEF Expire
  <1>7. ASSUME NEW c \in Call, Run(c) PROVE TypeOK'
    BY <1>7 DEF Run
  <1>8. CASE ReplyInThread
    BY <1>8 DEF ReplyInThread
  <1>9. CASE ThreadTimeout
    BY <1>9 DEF ThreadTimeout
  <1>10. CASE Close
    BY <1>10 DEF Close
  <1>11. CASE SetAllowAll
    BY <1>11 DEF SetAllowAll
  <1>12. CASE LeaveTeams
    BY <1>12 DEF LeaveTeams
  <1>13. CASE StopOrchestrator
    BY <1>13 DEF StopOrchestrator
  <1>14. CASE GoOfflineEnds
    BY <1>14 DEF GoOfflineEnds
  <1>15. CASE Register
    BY <1>15 DEF Register
  <1>16. CASE RegisterEnds
    BY <1>16 DEF RegisterEnds
  <1>17. CASE Open
    BY <1>17 DEF Open
  <1>18. CASE End
    <2>1. state' \in [Call -> {"none", "resolving", "open", "approved", "rejected",
                              "expired", "ran"}]
      BY <1>18 DEF End
    <2>2. ending' \subseteq Session /\ ends' \in 0..MaxEnds /\ epoch' \in Nat
      BY <1>18 DEF End
    <2>3. cut' \subseteq Call /\ pinned' \subseteq Call /\ record' \in Call \cup {NoCall}
      BY <1>18 DEF End
    <2>4. going' \in BOOLEAN /\ (going' => thread' # NoSession)
      BY <1>18 DEF End
    <2> QED
      BY <1>18, <2>1, <2>2, <2>3, <2>4 DEF End
  <1>19. CASE StreamError
    <2>1. state' \in [Call -> {"none", "resolving", "open", "approved", "rejected",
                              "expired", "ran"}]
      BY <1>19 DEF StreamError
    <2>2. sdk' \subseteq Session /\ errors' \in 0..MaxErrors
      BY <1>19 DEF StreamError
    <2>3. pinned' \subseteq Call /\ record' \in Call \cup {NoCall}
      BY <1>19 DEF StreamError
    <2>4. going' \in BOOLEAN /\ (going' => thread' # NoSession)
      BY <1>19 DEF StreamError
    <2> QED
      BY <1>19, <2>1, <2>2, <2>3, <2>4 DEF StreamError
  <1>20. ASSUME NEW s \in starting, StartSucceeds(s) PROVE TypeOK'
    BY <1>20 DEF StartSucceeds
  <1>21. ASSUME NEW s \in starting, StartFails(s) PROVE TypeOK'
    BY <1>21 DEF StartFails
  <1>22. ASSUME NEW s \in ending, EndFinishes(s) PROVE TypeOK'
    BY <1>22 DEF EndFinishes
  <1>23. CASE UNCHANGED vars
    BY <1>23 DEF vars
  <1> QED
    BY <1>1, <1>2, <1>3, <1>4, <1>5, <1>6, <1>7, <1>8, <1>9, <1>10, <1>11, <1>12, <1>13,
       <1>14, <1>15, <1>16, <1>17, <1>18, <1>19, <1>20, <1>21, <1>22, <1>23 DEF Next

(* A gate that opens with the thread online takes the thread. *)
LEMMA GateTakesThread ==
  ASSUME TypeOK, NEW c \in Call, NEW pins \in SUBSET Call, Gate(c, pins),
         ~allowAll, thread # NoSession
  PROVE  /\ state'[c] = "open"
         /\ \A d \in Call \ {c} :
               state'[d] = IF d = record /\ state[d] = "open" THEN "rejected" ELSE state[d]
         /\ \A d \in pinned' : d \in pins \/ (d \in pinned /\ ~(d = record /\ state[d] = "open"))
         /\ record' = c
         /\ asked' = asked \cup {c}
  <1>1. \A d \in Call : d \in Superseded <=> d = record
    BY GateAssumption DEF TypeOK
  <1>2. \A d \in Call : d \in OpenGates <=> state[d] = "open"
    OBVIOUS
  <1> HIDE DEF Superseded, OpenGates
  <1>3. Decided(Superseded, "rejected")
          = [d \in Call |-> IF d = record /\ state[d] = "open" THEN "rejected" ELSE state[d]]
    BY <1>1, <1>2
  <1>4. state' = [Decided(Superseded, "rejected") EXCEPT ![c] = "open"]
    OBVIOUS
  <1>5. pinned \subseteq Call /\ pinned' = (pinned \ (Superseded \cap OpenGates)) \cup pins
    BY DEF TypeOK
  <1>6. \A d \in pinned' : d \in pins \/ (d \in pinned /\ ~(d = record /\ state[d] = "open"))
    BY <1>1, <1>2, <1>5
  <1> HIDE DEF Decided, Gate
  <1>7. state'[c] = "open"
    BY <1>3, <1>4
  <1>8. \A d \in Call \ {c} :
          state'[d] = IF d = record /\ state[d] = "open" THEN "rejected" ELSE state[d]
    BY <1>3, <1>4
  <1>9. record' = c /\ asked' = asked \cup {c}
    BY DEF Gate
  <1> QED
    BY <1>6, <1>7, <1>8, <1>9

(* What becomes of a call, and of its record and target. *)
LEMMA GateStep == TypeOK /\ GateInv /\ [Next]_vars => GateInv'
  <1> USE GateAssumption DEF TypeOK, GateInv, NoStaleTarget, EndedGatesStayClosed, RelayedGateIsAnswerable, CallHistory
  <1> SUFFICES ASSUME TypeOK, GateInv, [Next]_vars PROVE GateInv'
    OBVIOUS
  <1>1. ASSUME NEW c \in Call, NEW s \in sdk, Request(c, s) PROVE GateInv'
    <2>1. NoStaleTarget'
      <3>1. /\ Gate(c, {}) /\ targeted' = targeted /\ c \notin pinned
        BY <1>1 DEF Request
      <3> HIDE DEF Gate
      <3>2. /\ state' \in [Call -> {"none", "resolving", "open", "approved", "rejected",
                                    "expired", "ran"}]
            /\ pinned' \subseteq pinned
            /\ \A d \in Call \ {c} : d \in pinned' => state'[d] = state[d]
        BY <3>1, GateDecides
      <3> QED
        BY <3>1, <3>2
    <2>2. EndedGatesStayClosed'
      BY <1>1 DEF Request
    <2>3. RelayedGateIsAnswerable'
      <3>1. CASE allowAll
        BY <1>1, <3>1 DEF Request
      <3>2. CASE ~allowAll /\ thread = NoSession
        BY <1>1, <3>2 DEF Request
      <3>3. CASE ~allowAll /\ thread # NoSession
        <4>1. /\ state'[c] = "open"
              /\ \A d \in Call \ {c} :
                    state'[d] = IF d = record /\ state[d] = "open" THEN "rejected"
                                ELSE state[d]
              /\ \A d \in pinned' :
                    d \in {} \/ (d \in pinned /\ ~(d = record /\ state[d] = "open"))
              /\ record' = c
              /\ asked' = asked \cup {c}
          <5>1. Gate(c, {})
            BY <1>1, <3>3 DEF Request
          <5> HIDE DEF Gate
          <5> QED
            BY <5>1, <3>3, GateTakesThread
        <4>2. state[c] = "none" /\ UNCHANGED <<targeted, since, epoch, cut>>
          BY <1>1, <3>3 DEF Request
        <4> QED
          BY <4>1, <4>2
      <3> QED
        BY <3>1, <3>2, <3>3
    <2>4. CallHistory'
      <3>1. CASE allowAll
        BY <1>1, <3>1 DEF Request
      <3>2. CASE ~allowAll /\ thread = NoSession
        BY <1>1, <3>2 DEF Request
      <3>3. CASE ~allowAll /\ thread # NoSession
        <4>1. /\ state'[c] = "open"
              /\ \A d \in Call \ {c} :
                    state'[d] = IF d = record /\ state[d] = "open" THEN "rejected"
                                ELSE state[d]
              /\ \A d \in pinned' :
                    d \in {} \/ (d \in pinned /\ ~(d = record /\ state[d] = "open"))
              /\ record' = c
              /\ asked' = asked \cup {c}
          <5>1. Gate(c, {})
            BY <1>1, <3>3 DEF Request
          <5> HIDE DEF Gate
          <5> QED
            BY <5>1, <3>3, GateTakesThread
        <4>2. state[c] = "none" /\ UNCHANGED <<targeted, since, epoch, cut>>
          BY <1>1, <3>3 DEF Request
        <4> QED
          BY <4>1, <4>2
      <3> QED
        BY <3>1, <3>2, <3>3
    <2> QED
      BY <2>1, <2>2, <2>3, <2>4
  <1>2. ASSUME NEW c \in Call, NEW s \in sdk, RequestTargeted(c, s) PROVE GateInv'
    BY <1>2 DEF RequestTargeted
  <1>3. ASSUME NEW c \in Call, Resolve(c) PROVE GateInv'
    <2>1. NoStaleTarget'
      <3>0. CASE since[c] # epoch
        BY <1>3, <3>0 DEF Resolve
      <3>1. CASE since[c] = epoch /\ allowAll
        BY <1>3, <3>1 DEF Resolve
      <3>2. CASE since[c] = epoch /\ ~allowAll /\ thread = NoSession
        BY <1>3, <3>2 DEF Resolve
      <3>3. CASE since[c] = epoch /\ ~allowAll /\ thread # NoSession
        <4>1. /\ state'[c] = "open"
              /\ \A d \in Call \ {c} :
                    state'[d] = IF d = record /\ state[d] = "open" THEN "rejected"
                                ELSE state[d]
              /\ \A d \in pinned' :
                    d \in {c} \/ (d \in pinned /\ ~(d = record /\ state[d] = "open"))
              /\ record' = c
              /\ asked' = asked \cup {c}
          <5>1. Gate(c, {c})
            BY <1>3, <3>3 DEF Resolve
          <5> HIDE DEF Gate
          <5> QED
            BY <5>1, <3>3, GateTakesThread
        <4>2. state[c] = "resolving" /\ since[c] = epoch /\ UNCHANGED <<targeted, cut>>
          BY <1>3, <3>3 DEF Resolve
        <4> QED
          BY <4>1, <4>2
      <3> QED
        BY <3>0, <3>1, <3>2, <3>3
    <2>2. EndedGatesStayClosed'
      <3>0. CASE since[c] # epoch
        BY <1>3, <3>0 DEF Resolve
      <3>1. CASE since[c] = epoch /\ allowAll
        BY <1>3, <3>1 DEF Resolve
      <3>2. CASE since[c] = epoch /\ ~allowAll /\ thread = NoSession
        BY <1>3, <3>2 DEF Resolve
      <3>3. CASE since[c] = epoch /\ ~allowAll /\ thread # NoSession
        <4>1. /\ state'[c] = "open"
              /\ \A d \in Call \ {c} :
                    state'[d] = IF d = record /\ state[d] = "open" THEN "rejected"
                                ELSE state[d]
              /\ \A d \in pinned' :
                    d \in {c} \/ (d \in pinned /\ ~(d = record /\ state[d] = "open"))
              /\ record' = c
              /\ asked' = asked \cup {c}
          <5>1. Gate(c, {c})
            BY <1>3, <3>3 DEF Resolve
          <5> HIDE DEF Gate
          <5> QED
            BY <5>1, <3>3, GateTakesThread
        <4>2. state[c] = "resolving" /\ since[c] = epoch /\ UNCHANGED <<targeted, cut>>
          BY <1>3, <3>3 DEF Resolve
        <4> QED
          BY <4>1, <4>2
      <3> QED
        BY <3>0, <3>1, <3>2, <3>3
    <2>3. RelayedGateIsAnswerable'
      <3>0. CASE since[c] # epoch
        BY <1>3, <3>0 DEF Resolve
      <3>1. CASE since[c] = epoch /\ allowAll
        BY <1>3, <3>1 DEF Resolve
      <3>2. CASE since[c] = epoch /\ ~allowAll /\ thread = NoSession
        BY <1>3, <3>2 DEF Resolve
      <3>3. CASE since[c] = epoch /\ ~allowAll /\ thread # NoSession
        <4>1. /\ state'[c] = "open"
              /\ \A d \in Call \ {c} :
                    state'[d] = IF d = record /\ state[d] = "open" THEN "rejected"
                                ELSE state[d]
              /\ \A d \in pinned' :
                    d \in {c} \/ (d \in pinned /\ ~(d = record /\ state[d] = "open"))
              /\ record' = c
              /\ asked' = asked \cup {c}
          <5>1. Gate(c, {c})
            BY <1>3, <3>3 DEF Resolve
          <5> HIDE DEF Gate
          <5> QED
            BY <5>1, <3>3, GateTakesThread
        <4>2. state[c] = "resolving" /\ since[c] = epoch /\ UNCHANGED <<targeted, cut>>
          BY <1>3, <3>3 DEF Resolve
        <4> QED
          BY <4>1, <4>2
      <3> QED
        BY <3>0, <3>1, <3>2, <3>3
    <2>4. CallHistory'
      <3>1. UNCHANGED <<targeted, since, epoch, cut>> /\ state[c] = "resolving"
        BY <1>3 DEF Resolve
      <3>2. /\ state'[c] \notin {"none", "resolving"} /\ asked' \subseteq asked \cup {c}
            /\ \A d \in Call \ {c} : state'[d] = state[d] \/ state'[d] = "rejected"
        <4>1. CASE Opens(c)
          <5>1. Gate(c, {c})
            BY <1>3, <4>1 DEF Resolve
          <5> HIDE DEF Gate
          <5>2. /\ state'[c] \in {"open", "approved"} /\ asked' \subseteq asked \cup {c}
                /\ \A d \in Call \ {c} : state'[d] = state[d] \/ state'[d] = "rejected"
            BY <5>1, GateDecides
          <5> QED BY <5>2
        <4>2. CASE ~Opens(c)
          <5>1. state' = [state EXCEPT ![c] = "rejected"] /\ asked' = asked
            BY <1>3, <4>2 DEF Resolve
          <5> QED BY <5>1
        <4> QED BY <4>1, <4>2
      <3> QED
        BY <3>1, <3>2
    <2> QED
      BY <2>1, <2>2, <2>3, <2>4
  <1>4. ASSUME NEW c \in Call, ResolveFails(c) PROVE GateInv'
    BY <1>4 DEF ResolveFails
  <1>5. ASSUME NEW c \in Call, AnswerInPanel(c) PROVE GateInv'
    BY <1>5 DEF AnswerInPanel
  <1>6. ASSUME NEW c \in Call, Expire(c) PROVE GateInv'
    BY <1>6 DEF Expire
  <1>7. ASSUME NEW c \in Call, Run(c) PROVE GateInv'
    BY <1>7 DEF Run
  <1>8. CASE ReplyInThread
    BY <1>8 DEF ReplyInThread
  <1>9. CASE ThreadTimeout
    BY <1>9 DEF ThreadTimeout
  <1>10. CASE Close
    BY <1>10 DEF Close
  <1>11. CASE SetAllowAll
    BY <1>11 DEF SetAllowAll
  <1>12. CASE LeaveTeams
    BY <1>12 DEF LeaveTeams
  <1>13. CASE StopOrchestrator
    BY <1>13 DEF StopOrchestrator
  <1>14. CASE GoOfflineEnds
    BY <1>14 DEF GoOfflineEnds
  <1>15. CASE Register
    BY <1>15 DEF Register
  <1>16. CASE RegisterEnds
    BY <1>16 DEF RegisterEnds
  <1>17. CASE Open
    BY <1>17 DEF Open
  <1>18. CASE End
    BY <1>18 DEF End
  <1>19. CASE StreamError
    BY <1>19 DEF StreamError
  <1>20. ASSUME NEW s \in starting, StartSucceeds(s) PROVE GateInv'
    BY <1>20 DEF StartSucceeds
  <1>21. ASSUME NEW s \in starting, StartFails(s) PROVE GateInv'
    BY <1>21 DEF StartFails
  <1>22. ASSUME NEW s \in ending, EndFinishes(s) PROVE GateInv'
    BY <1>22 DEF EndFinishes
  <1>23. CASE UNCHANGED vars
    BY <1>23 DEF vars
  <1> QED
    BY <1>1, <1>2, <1>3, <1>4, <1>5, <1>6, <1>7, <1>8, <1>9, <1>10, <1>11, <1>12, <1>13,
       <1>14, <1>15, <1>16, <1>17, <1>18, <1>19, <1>20, <1>21, <1>22, <1>23 DEF Next

(* Which session a call belongs to. *)
LEMMA TargetsStep == TypeOK /\ GateInv /\ TargetsInv /\ [Next]_vars => TargetsInv'
  <1> USE GateAssumption DEF TypeOK, TargetsInv, SessionNumbers, TargetInv, RunsOnApprovedTarget, GateInv, NoStaleTarget, CallHistory
  <1> SUFFICES ASSUME TypeOK, GateInv, TargetsInv, [Next]_vars PROVE TargetsInv'
    OBVIOUS
  <1>1. ASSUME NEW c \in Call, NEW s \in sdk, Request(c, s) PROVE TargetsInv'
    <2>1. SessionNumbers'
      BY <1>1 DEF Request
    <2>2. TargetInv'
      <3>1. /\ Gate(c, {}) /\ state[c] = "none" /\ of' = [of EXCEPT ![c] = s]
            /\ UNCHANGED <<targeted, session, unpinned>> /\ c \notin targeted
        BY <1>1 DEF Request
      <3> HIDE DEF Gate
      <3>2. \A d \in Call \ {c} :
               \/ state'[d] = state[d] /\ (d \in pinned' <=> d \in pinned)
               \/ state[d] = "open" /\ state'[d] = "rejected" /\ d \notin pinned'
        BY <3>1, GateDecides
      <3> QED
        BY <3>1, <3>2
    <2>3. RunsOnApprovedTarget'
      BY <1>1 DEF Request
    <2> QED
      BY <2>1, <2>2, <2>3
  <1>2. ASSUME NEW c \in Call, NEW s \in sdk, RequestTargeted(c, s) PROVE TargetsInv'
    <2>1. SessionNumbers'
      BY <1>2 DEF RequestTargeted
    <2>2. TargetInv'
      BY <1>2 DEF RequestTargeted
    <2>3. RunsOnApprovedTarget'
      BY <1>2 DEF RequestTargeted
    <2> QED
      BY <2>1, <2>2, <2>3
  <1>3. ASSUME NEW c \in Call, Resolve(c) PROVE TargetsInv'
    <2>1. /\ UNCHANGED <<starting, sdk, starts, session, of, targeted, unpinned>>
          /\ state[c] = "resolving"
      BY <1>3 DEF Resolve
    <2>2. CASE Opens(c)
      <3>1. Gate(c, {c})
        BY <1>3, <2>2 DEF Resolve
      <3> HIDE DEF Gate
      <3>2. /\ c \in pinned' /\ state'[c] \in {"open", "approved"}
            /\ \A d \in Call \ {c} :
                  \/ state'[d] = state[d] /\ (d \in pinned' <=> d \in pinned)
                  \/ state[d] = "open" /\ state'[d] = "rejected" /\ d \notin pinned'
        BY <3>1, GateDecides
      <3> QED
        BY <2>1, <3>2
    <2>3. CASE ~Opens(c)
      <3>1. state' = [state EXCEPT ![c] = "rejected"] /\ pinned' = pinned
        BY <1>3, <2>3 DEF Resolve
      <3> QED
        BY <2>1, <3>1
    <2> QED
      BY <2>2, <2>3
  <1>4. ASSUME NEW c \in Call, ResolveFails(c) PROVE TargetsInv'
    BY <1>4 DEF ResolveFails
  <1>5. ASSUME NEW c \in Call, AnswerInPanel(c) PROVE TargetsInv'
    BY <1>5 DEF AnswerInPanel
  <1>6. ASSUME NEW c \in Call, Expire(c) PROVE TargetsInv'
    BY <1>6 DEF Expire
  <1>7. ASSUME NEW c \in Call, Run(c) PROVE TargetsInv'
    BY <1>7 DEF Run
  <1>8. CASE ReplyInThread
    BY <1>8 DEF ReplyInThread
  <1>9. CASE ThreadTimeout
    BY <1>9 DEF ThreadTimeout
  <1>10. CASE Close
    BY <1>10 DEF Close
  <1>11. CASE SetAllowAll
    BY <1>11 DEF SetAllowAll
  <1>12. CASE LeaveTeams
    BY <1>12 DEF LeaveTeams
  <1>13. CASE StopOrchestrator
    BY <1>13 DEF StopOrchestrator
  <1>14. CASE GoOfflineEnds
    BY <1>14 DEF GoOfflineEnds
  <1>15. CASE Register
    BY <1>15 DEF Register
  <1>16. CASE RegisterEnds
    BY <1>16 DEF RegisterEnds
  <1>17. CASE Open
    BY <1>17 DEF Open
  <1>18. CASE End
    <2>1. SessionNumbers'
      BY <1>18 DEF End
    <2>2. TargetInv'
      BY <1>18 DEF End
    <2>3. RunsOnApprovedTarget'
      BY <1>18 DEF End
    <2> QED
      BY <2>1, <2>2, <2>3
  <1>19. CASE StreamError
    BY <1>19 DEF StreamError
  <1>20. ASSUME NEW s \in starting, StartSucceeds(s) PROVE TargetsInv'
    <2>1. SessionNumbers'
      BY <1>20 DEF StartSucceeds
    <2>2. TargetInv'
      BY <1>20 DEF StartSucceeds
    <2>3. RunsOnApprovedTarget'
      BY <1>20 DEF StartSucceeds
    <2> QED
      BY <2>1, <2>2, <2>3
  <1>21. ASSUME NEW s \in starting, StartFails(s) PROVE TargetsInv'
    BY <1>21 DEF StartFails
  <1>22. ASSUME NEW s \in ending, EndFinishes(s) PROVE TargetsInv'
    BY <1>22 DEF EndFinishes
  <1>23. CASE UNCHANGED vars
    BY <1>23 DEF vars
  <1> QED
    BY <1>1, <1>2, <1>3, <1>4, <1>5, <1>6, <1>7, <1>8, <1>9, <1>10, <1>11, <1>12, <1>13,
       <1>14, <1>15, <1>16, <1>17, <1>18, <1>19, <1>20, <1>21, <1>22, <1>23 DEF Next

\* The invariant holds before the first session.
LEMMA Initially == Init => IInv
  <1> SUFFICES ASSUME Init PROVE IInv
    OBVIOUS
  <1> USE GateAssumption DEF Init
  <1>1. TypeOK
    <2>1. /\ state \in [Call -> {"none"}]
          /\ of \in [Call -> {NoSession}]
          /\ since \in [Call -> {0}]
      OBVIOUS
    <2>2. /\ going = FALSE /\ record = NoCall /\ thread = NoSession /\ session = NoSession
          /\ ends \in 0..MaxEnds /\ closes \in 0..MaxCloses /\ errors \in 0..MaxErrors
          /\ registrations \in 0..MaxRegistrations /\ starts \in 0..MaxStarts
      OBVIOUS
    <2> QED
      BY <2>1, <2>2 DEF TypeOK
  <1>2. GateInv
    BY DEF GateInv, NoStaleTarget, EndedGatesStayClosed, RelayedGateIsAnswerable, CallHistory
  <1>3. TargetsInv
    BY DEF TargetsInv, SessionNumbers, TargetInv, RunsOnApprovedTarget
  <1> QED
    BY <1>1, <1>2, <1>3 DEF IInv

\* Every step of the gate preserves the invariant.
LEMMA Inductive == IInv /\ [Next]_vars => IInv'
  BY TypeStep, GateStep, TargetsStep DEF IInv

\* The invariant of the gate holds in every reachable state.
LEMMA Invariance == Spec => []IInv
  BY Initially, Inductive, PTL DEF Spec

(* The variables keep their types, and a goOffline under way has a binding *)
(* to take offline.                                                        *)
THEOREM TypeCorrect == Spec => []TypeOK
  <1>1. IInv => TypeOK
    BY DEF IInv
  <1> QED
    BY <1>1, Invariance, PTL

(* Whatever ended a call on its way to approval, nothing approves it later *)
(* (rejectAllPending, permissionEpoch).                                    *)
THEOREM EndedGatesRefused == Spec => []EndedGatesStayClosed
  <1>1. IInv => EndedGatesStayClosed
    BY DEF IInv, GateInv
  <1> QED
    BY <1>1, Invariance, PTL

(* A gate the Teams thread was asked about stays the thread's to answer    *)
(* until it is decided (onPermissionRequestEvent, goOffline).              *)
THEOREM RelayedGatesAnswered == Spec => []RelayedGateIsAnswerable
  <1>1. IInv => RelayedGateIsAnswerable
    BY DEF IInv, GateInv
  <1> QED
    BY <1>1, Invariance, PTL

(* No refused, expired or finished call leaves a target in approvedTargets.*)
THEOREM TargetsAreFresh == Spec => []NoStaleTarget
  <1>1. IInv => NoStaleTarget
    BY DEF IInv, GateInv
  <1> QED
    BY <1>1, Invariance, PTL

(* A handler runs on the target its approval named, unless endSession came *)
(* between the two.                                                        *)
THEOREM TargetsAreHonoured == Spec => []RunsOnApprovedTarget
  <1>1. IInv => RunsOnApprovedTarget
    BY DEF IInv, TargetsInv
  <1> QED
    BY <1>1, Invariance, PTL

(* approvedTargets and the calls that run agree, for any number of calls.  *)
THEOREM TargetsHonoured == Spec => []TargetsHold
  BY TargetsAreFresh, TargetsAreHonoured, PTL DEF TargetsHold
=============================================================================
