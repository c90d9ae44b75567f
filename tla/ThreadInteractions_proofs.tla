----------------------- MODULE ThreadInteractions_proofs -----------------------
(***************************************************************************)
(* The interactions of one agent, for any number of questions, plans and   *)
(* forms, replies, answers in the app, disconnections, failures, timeouts  *)
(* and resets: a reply resolves what it was meant for, once, and the       *)
(* thread is told what happened.                                           *)
(*                                                                         *)
(* None of the properties is inductive.  They rest on where an interaction *)
(* can be: in the extension's slot while it is open (SlotInv), with no     *)
(* trace in TeamsService before its record is made (FreshInv); and on      *)
(* where a reply can be: in one place between TeamsService and the         *)
(* extension (FlightInv), with its record latched (LatchInv).  From these  *)
(* follow what the thread is told (NoticeInv, AnnounceInv) and that what   *)
(* goOffline dropped is resolved (LeftInv).                                *)
(***************************************************************************)
EXTENDS ThreadInteractions, SequenceTheorems, TLAPS

Requested(i) == EventOf("requested", i)
Completed(i) == EventOf("completed", i)
Responds(m, n) == m.type = "response" /\ m.reply = n

(* What is on its way is about what was raised, and about replies that     *)
(* were given.                                                             *)
RefInv ==
    /\ \A k \in AskKind : slot[k] # NoAsk => slot[k] \in Raised /\ kind[slot[k]] = k
    /\ \A k \in AskKind : record[k].ask # NoAsk => record[k].ask \in Raised /\ kind[record[k].ask] = k
    /\ \A p \in DOMAIN toExt :
          /\ toExt[p].ask \in Raised
          /\ toExt[p].reply # 0 =>
                toExt[p].reply \in DOMAIN replies /\ replies[toExt[p].reply] = toExt[p].ask
    /\ \A p \in DOMAIN toMain :
          IF toMain[p].type = "response" THEN toMain[p].reply \in 0..Len(replies)
          ELSE toMain[p].ask \in Raised
    /\ \A i \in posting : kind[i] = "plan"
    /\ \A n \in DOMAIN replies : replies[n] \in Raised

Rec == [ask : Ask \cup {NoAsk}, latched : BOOLEAN]

Base == TITypeOK /\ RefInv

(* What was settled by an answer: a completed event is about nothing else. *)
Answered == {"app", "teams", "offline"}
SettledInv ==
    /\ \A i \in completing : outcome[i] \in Answered
    /\ \A p \in DOMAIN toMain : toMain[p].type = "completed" => outcome[toMain[p].ask] \in Answered

(* The extension's slot holds the interaction that is open; one that was   *)
(* resolved by a submission is in no slot.                                 *)
SlotInv ==
    /\ \A i \in Raised : outcome[i] = "open" => slot[kind[i]] = i
    /\ \A t \in accepted : t.slot \in Raised /\ t.slot = t.for /\ slot[kind[t.slot]] # t.slot
    /\ TakenOnce

(* Nobody has replied to an interaction before its record is made, and the *)
(* record is made once.                                                    *)
Unseen(i) ==
    /\ \A k \in AskKind : record[k].ask # i
    /\ \A n \in DOMAIN replies : replies[n] # i
    /\ \A p \in DOMAIN toExt : toExt[p].ask # i
    /\ outcome[i] \notin {"teams", "offline"}
FreshInv ==
    /\ \A p \in DOMAIN toMain : toMain[p].type = "requested" =>
          /\ Unseen(toMain[p].ask) /\ toMain[p].ask \notin posting
          /\ \A q \in DOMAIN toMain :
                toMain[q].type # "response" /\ toMain[q].ask = toMain[p].ask => p <= q
    /\ \A i \in posting : Unseen(i)

(* A reply that is awaited is on its way to the extension, or its answer   *)
(* is on its way back, and there is one of it.                             *)
FlightInv ==
    /\ \A p, q \in DOMAIN toExt : toExt[p].reply # 0 /\ toExt[p].reply = toExt[q].reply => p = q
    /\ \A p, q \in DOMAIN toMain :
          /\ toMain[p].type = "response" /\ toMain[q].type = "response"
          /\ toMain[p].reply # 0 /\ toMain[p].reply = toMain[q].reply
          => p = q
    /\ \A p \in DOMAIN toExt, q \in DOMAIN toMain :
          toMain[q].type = "response" /\ toMain[q].reply # 0 => toExt[p].reply # toMain[q].reply
    /\ \A n \in flying : \/ \E p \in DOMAIN toExt : toExt[p].reply = n
                         \/ \E p \in DOMAIN toMain : Responds(toMain[p], n)
    /\ timeouts = 0 =>
          \A p \in DOMAIN toExt : toExt[p].reply # 0 => toExt[p].reply \in flying

(* A record is latched as long as a reply to it is awaited.                *)
LatchInv ==
    /\ OneReplyAtATime
    /\ \A n \in flying : record[kind[replies[n]]].ask = replies[n] => record[kind[replies[n]]].latched
    /\ \A k \in AskKind : record[k].ask # NoAsk /\ record[k].latched =>
          \E n \in flying : replies[n] = record[k].ask

(* What goOffline submits is for no record any more, and the answer to a   *)
(* reply that resolved an interaction is ahead of the completed event.     *)
OfflineInv ==
    /\ \A p \in DOMAIN toExt : toExt[p].reply = 0 => \A k \in AskKind : record[k].ask # toExt[p].ask
    /\ \A i \in Raised : outcome[i] = "offline" => \A k \in AskKind : record[k].ask # i
Ahead(i) ==
    \E p \in DOMAIN toMain :
        /\ toMain[p].type = "response" /\ toMain[p].ok
        /\ toMain[p].reply \in flying /\ replies[toMain[p].reply] = i
        /\ \A q \in DOMAIN toMain : toMain[q] = Completed(i) => p < q
AheadInv ==
    timeouts = 0 => \A i \in Raised : outcome[i] = "teams" /\ record[kind[i]].ask = i => Ahead(i)
NoticeInv == OfflineInv /\ AheadInv /\ InAppNoticeIsTrue

(* An interaction that was settled will be completed.                      *)
Completes(i) == i \in completing \/ \E p \in DOMAIN toMain : toMain[p] = Completed(i)
AnnounceInv ==
    resets = 0 =>
        /\ \A p \in DOMAIN toMain : toMain[p].type = "requested" =>
              outcome[toMain[p].ask] = "open" \/ Completes(toMain[p].ask)
        /\ \A k \in AskKind \ {"plan"} : Dead(k) =>
              \/ record[k].ask \in undelivered
              \/ Completes(record[k].ask)
              \/ \E n \in flying : replies[n] = record[k].ask

(* What goOffline dropped is settled, or will be.                          *)
LeftInv ==
    failures = 0 => \A i \in left : outcome[i] = "open" =>
        \E p \in DOMAIN toExt : toExt[p] = [ask |-> i, reply |-> 0]

IInv == /\ Base /\ SettledInv /\ SlotInv /\ FreshInv /\ FlightInv /\ LatchInv /\ NoticeInv
        /\ AnnounceInv /\ LeftInv

-----------------------------------------------------------------------------
(* Sequences that grow at the end and lose their head.                     *)

Adds(s, t, e) ==
    /\ DOMAIN t = DOMAIN s \cup {Len(s) + 1}
    /\ Len(s) + 1 \notin DOMAIN s
    /\ \A p \in DOMAIN s : t[p] = s[p] /\ p < Len(s) + 1
    /\ t[Len(s) + 1] = e

Drops(s, t) ==
    /\ 1 \in DOMAIN s
    /\ DOMAIN s \subseteq Nat /\ DOMAIN t \subseteq Nat
    /\ \A p \in DOMAIN t : p >= 1 /\ p + 1 \in DOMAIN s /\ t[p] = s[p + 1]
    /\ \A p \in DOMAIN s : p # 1 => p > 1 /\ p - 1 \in DOMAIN t /\ t[p - 1] = s[p]

LEMMA FunctionIsSeq ==
  ASSUME NEW S, NEW n \in Nat, NEW f \in [1..n -> S]
  PROVE  f \in Seq(S) /\ Len(f) = n
  OBVIOUS

LEMMA Appends ==
  ASSUME NEW S, NEW s \in Seq(S), NEW e \in S
  PROVE  Append(s, e) \in Seq(S) /\ Adds(s, Append(s, e), e)
  BY AppendProperties DEF Adds

LEMMA Tails ==
  ASSUME NEW S, NEW s \in Seq(S), s # <<>>
  PROVE  Tail(s) \in Seq(S) /\ Drops(s, Tail(s)) /\ Head(s) = s[1] /\ Head(s) \in S
  <1>1. /\ Tail(s) \in Seq(S) /\ Len(Tail(s)) = Len(s) - 1 /\ Head(s) \in S
        /\ \A p \in 1..Len(Tail(s)) : Tail(s)[p] = s[p + 1]
    BY HeadTailProperties
  <1>2. Len(s) \in Nat /\ Len(s) # 0 /\ DOMAIN s = 1..Len(s) /\ DOMAIN Tail(s) = 1..(Len(s) - 1)
    BY <1>1, EmptySeq
  <1> QED BY <1>1, <1>2 DEF Drops

LEMMA Latching ==
  ASSUME NEW r \in Rec
  PROVE  [r EXCEPT !.latched = FALSE] = [ask |-> r.ask, latched |-> FALSE]
  <1>1. [r EXCEPT !.latched = FALSE] \in Rec
    BY DEF Rec
  <1>2. [r EXCEPT !.latched = FALSE].ask = r.ask
    BY DEF Rec
  <1>3. [r EXCEPT !.latched = FALSE].latched = FALSE
    BY DEF Rec
  <1>4. \A x, y \in Rec : x.ask = y.ask /\ x.latched = y.latched => x = y
    BY DEF Rec
  <1>5. [ask |-> r.ask, latched |-> FALSE] \in Rec
    BY DEF Rec
  <1> DEFINE x == [r EXCEPT !.latched = FALSE]
             y == [ask |-> r.ask, latched |-> FALSE]
  <1>6. x \in Rec /\ y \in Rec /\ x.ask = y.ask /\ x.latched = y.latched
    BY <1>1, <1>2, <1>3, <1>5
  <1> HIDE DEF x, y
  <1>7. x = y
    BY <1>4, <1>6
  <1> QED BY <1>7 DEF x, y

LEMMA Facts ==
  ASSUME TITypeOK
  PROVE  /\ Raised = 1..Len(kind) /\ Len(kind) \in Nat /\ Raised \subseteq Ask
         /\ NoAsk \notin Raised /\ NoAsk \notin Ask /\ Ask \subseteq Nat /\ Raised \subseteq Nat
         /\ \A i \in Raised : kind[i] \in AskKind
         /\ DOMAIN replies = 1..Len(replies) /\ Len(replies) \in Nat /\ 0 \notin DOMAIN replies
         /\ \A p \in DOMAIN toExt : toExt[p] \in Submission
         /\ \A p \in DOMAIN toMain : toMain[p] \in Message
         /\ \A k \in AskKind : record[k] \in [ask : Ask \cup {NoAsk}, latched : BOOLEAN]
         /\ DOMAIN toExt \subseteq Nat /\ DOMAIN toMain \subseteq Nat
         /\ \A p \in DOMAIN toExt \cup DOMAIN toMain : p >= 1
  <1>1. /\ kind \in Seq(AskKind) /\ replies \in Seq(Ask) /\ Len(kind) <= MaxAsks
        /\ toExt \in Seq(Submission) /\ toMain \in Seq(Message)
        /\ record \in [AskKind -> [ask : Ask \cup {NoAsk}, latched : BOOLEAN]]
    BY DEF TITypeOK
  <1>2. /\ Len(kind) \in Nat /\ DOMAIN kind = 1..Len(kind)
        /\ \A i \in DOMAIN kind : kind[i] \in AskKind
    BY <1>1
  <1>3. /\ Raised = 1..Len(kind) /\ Raised \subseteq Ask /\ NoAsk \notin Raised /\ NoAsk \notin Ask
        /\ Ask \subseteq Nat /\ Raised \subseteq Nat
    BY <1>1, <1>2, ThreadAssumption DEF Raised, Ask, NoAsk
  <1>4. DOMAIN replies = 1..Len(replies) /\ Len(replies) \in Nat /\ 0 \notin DOMAIN replies
    BY <1>1
  <1>5. /\ \A p \in DOMAIN toExt : toExt[p] \in Submission
        /\ DOMAIN toExt \subseteq Nat /\ \A p \in DOMAIN toExt : p >= 1
    BY <1>1
  <1>6. /\ \A p \in DOMAIN toMain : toMain[p] \in Message
        /\ DOMAIN toMain \subseteq Nat /\ \A p \in DOMAIN toMain : p >= 1
    BY <1>1
  <1>7. \A k \in AskKind : record[k] \in [ask : Ask \cup {NoAsk}, latched : BOOLEAN]
    BY <1>1
  <1>8. \A i \in Raised : kind[i] \in AskKind
    BY <1>2 DEF Raised
  <1> QED BY <1>2, <1>3, <1>4, <1>5, <1>6, <1>7, <1>8

-----------------------------------------------------------------------------
(* What each step changes.                                                 *)

(* A part of goOffline or a reconnection that drops nothing. *)
Idle == UNCHANGED <<runtimeVars, channelVars, serviceVars, left, noticeVars, accepted, countVars>>

(* goOffline drops a record, and submits for a plan or a form. *)
DropsRecord(k) ==
    /\ record[k].ask # NoAsk
    /\ record' = [record EXCEPT ![k] = NoRecord]
    /\ \/ UNCHANGED <<left, toExt>>
       \/ /\ left' = left \cup {record[k].ask}
          /\ toExt' = Append(toExt, [ask |-> record[k].ask, reply |-> 0])
    /\ UNCHANGED <<runtimeVars, toMain, posting, replies, flying, noticeVars, accepted, countVars>>

ReplyTo(k) ==
    /\ record[k].ask # NoAsk /\ ~record[k].latched
    /\ Len(replies) + 1 \in 1..MaxReplies
    /\ record' = [record EXCEPT ![k].latched = TRUE]
    /\ replies' = Append(replies, record[k].ask)
    /\ flying' = flying \cup {Len(replies) + 1}
    /\ toExt' = Append(toExt, [ask |-> record[k].ask, reply |-> Len(replies) + 1])
    /\ UNCHANGED <<runtimeVars, toMain, posting, left, noticeVars, accepted, countVars>>

LEMMA Stops ==
  ASSUME NEW p \in 0..3, NextStop(p) # 4
  PROVE  /\ NextStop(p) \in 1..3 /\ Order[NextStop(p)] \in AskKind
         /\ record[Order[NextStop(p)]].ask # NoAsk
  <1>1. Found(p) \subseteq 1..3 /\ Found(p) # {}
    BY DEF Found, NextStop
  <1>2. \E q \in Found(p) : \A r \in Found(p) : q <= r
    <2>1. CASE 1 \in Found(p)
      BY <1>1, <2>1
    <2>2. CASE 1 \notin Found(p) /\ 2 \in Found(p)
      BY <1>1, <2>2
    <2>3. CASE 1 \notin Found(p) /\ 2 \notin Found(p)
      BY <1>1, <2>3
    <2> QED BY <2>1, <2>2, <2>3
  <1>3. NextStop(p) \in Found(p)
    BY <1>1, <1>2 DEF NextStop
  <1> QED BY <1>1, <1>3 DEF Found

LEMMA DropEffect ==
  ASSUME NEW p \in 0..3, Drop(NextStop(p)),
         UNCHANGED <<runtimeVars, toMain, posting, replies, flying, noticeVars, accepted, countVars>>
  PROVE  Idle \/ \E k \in AskKind : DropsRecord(k)
  <1>1. CASE NextStop(p) = 4
    BY <1>1 DEF Drop, Idle, channelVars, serviceVars
  <1>2. CASE NextStop(p) # 4
    <2> DEFINE k == Order[NextStop(p)]
    <2>1. k \in AskKind /\ record[k].ask # NoAsk
      BY <1>2, Stops
    <2>2. DropsRecord(k)
      BY <1>2, <2>1 DEF Drop, DropsRecord, Unclaimed
    <2> QED BY <2>1, <2>2
  <1> QED BY <1>1, <1>2

LEMMA Addressee ==
  ASSUME Addressed
  PROVE  Routed \in AskKind /\ record[Routed].ask # NoAsk
  <1> DEFINE R(k) == /\ record[k].ask # NoAsk
                     /\ \/ k = "plan"
                        \/ k = "question" /\ ("plan" \in AskKind => record["plan"].ask = NoAsk)
                        \/ \A j \in AskKind : record[j].ask # NoAsk => j = k
  <1>1. \E k \in AskKind : R(k)
    <2>1. CASE "plan" \in AskKind /\ record["plan"].ask # NoAsk
      BY <2>1
    <2>2. CASE /\ ~("plan" \in AskKind /\ record["plan"].ask # NoAsk)
               /\ "question" \in AskKind /\ record["question"].ask # NoAsk
      BY <2>2
    <2>3. CASE /\ ~("plan" \in AskKind /\ record["plan"].ask # NoAsk)
               /\ ~("question" \in AskKind /\ record["question"].ask # NoAsk)
      <3>1. \A j \in AskKind : record[j].ask # NoAsk => j = "form"
        BY <2>3, ThreadAssumption
      <3> QED BY <3>1 DEF Addressed
    <2> QED BY <2>1, <2>2, <2>3
  <1>2. Routed = CHOOSE k \in AskKind : R(k)
    BY DEF Routed
  <1> HIDE DEF R
  <1>3. Routed \in AskKind /\ R(Routed)
    BY <1>1, <1>2
  <1> QED BY <1>3 DEF R

LEMMA ReplyEffect ==
  ASSUME Base, Reply
  PROVE  \E k \in AskKind : ReplyTo(k)
  <1>1. Routed \in AskKind /\ record[Routed].ask # NoAsk
    BY Addressee DEF Reply
  <1>2. Len(replies) + 1 \in 1..MaxReplies
    BY Facts, ThreadAssumption DEF Base, Reply
  <1>3. ReplyTo(Routed)
    BY <1>1, <1>2 DEF Reply, ReplyTo, Takes, connectionVars
  <1> QED BY <1>1, <1>3

LEMMA Steps ==
  ASSUME Base, TINext \/ UNCHANGED tiVars
  PROVE  \/ Idle
         \/ \E k \in AskKind : Raise(k) \/ ReplyTo(k) \/ DropsRecord(k)
         \/ \E i \in Raised : AnswerInApp(i) \/ Complete(i) \/ PlanBodyPosted(i)
         \/ ExtensionReceives \/ Undeliverable \/ SlashNew \/ MainReceives
         \/ \E n \in flying : RequestTimesOut(n)
  <1>1. CASE UNCHANGED tiVars \/ GoOfflineEnds \/ Reconnect
    BY <1>1 DEF tiVars, GoOfflineEnds, Reconnect, Idle, connectionVars
  <1>2. CASE GoOffline
    BY <1>2, DropEffect DEF GoOffline
  <1>3. CASE GoOfflineGoesOn
    BY <1>3, DropEffect DEF GoOfflineGoesOn
  <1>4. CASE Reply
    BY <1>4, ReplyEffect
  <1> QED BY <1>1, <1>2, <1>3, <1>4 DEF TINext

LEMMA RaiseEffect ==
  ASSUME Base, NEW k \in AskKind, Raise(k), NEW i, i = Len(kind) + 1
  PROVE  /\ i \in Ask /\ i \notin Raised /\ Raised' = Raised \cup {i}
         /\ kind' \in Seq(AskKind) /\ Len(kind') <= MaxAsks
         /\ outcome' \in [Raised' -> {"open", "app", "teams", "offline", "killed"}]
         /\ \A j \in Raised : kind'[j] = kind[j] /\ outcome'[j] = outcome[j]
         /\ kind'[i] = k /\ outcome'[i] = "open"
         /\ toMain' \in Seq(Message) /\ Adds(toMain, toMain', Requested(i))
         /\ slot' = [slot EXCEPT ![k] = i]
         /\ UNCHANGED <<completing, toExt, record, posting, replies, flying, left, undelivered,
                        inApp, accepted, timeouts, failures, resets>>
  <1> DEFINE Out == {"open", "app", "teams", "offline", "killed"}
  <1>1. /\ kind \in Seq(AskKind) /\ outcome \in [1..Len(kind) -> Out] /\ Len(kind) \in Nat
        /\ toMain \in Seq(Message) /\ i \in Ask /\ kind' = Append(kind, k)
        /\ outcome' = Append(outcome, "open") /\ toMain' = Append(toMain, Requested(i))
        /\ slot' = [slot EXCEPT ![k] = i]
    BY Facts DEF Base, TITypeOK, Raise, Requested
  <1>2. outcome \in Seq(Out) /\ Len(outcome) = Len(kind)
    BY <1>1, FunctionIsSeq
  <1>3. Requested(i) \in Message
    BY <1>1 DEF Requested, EventOf, Message
  <1>4. kind' \in Seq(AskKind) /\ Adds(kind, kind', k)
    BY <1>1, Appends
  <1>5. outcome' \in Seq(Out) /\ Adds(outcome, outcome', "open")
    BY <1>1, <1>2, Appends
  <1>6. toMain' \in Seq(Message) /\ Adds(toMain, toMain', Requested(i))
    BY <1>1, <1>3, Appends
  <1>7. DOMAIN kind = 1..Len(kind) /\ DOMAIN outcome = 1..Len(kind) /\ DOMAIN kind' = 1..Len(kind')
    BY <1>1, <1>4
  <1>8. Len(kind') = Len(kind) + 1
    BY <1>1, AppendProperties
  <1>9. Len(kind') <= MaxAsks
    BY <1>1, <1>8, ThreadAssumption DEF Ask
  <1>10. outcome' \in [DOMAIN kind' -> Out]
    <2>1. Len(outcome') = Len(kind')
      BY <1>1, <1>2, <1>8, AppendProperties
    <2> QED BY <1>5, <1>7, <2>1, LenProperties
  <1>11. UNCHANGED <<completing, toExt, record, posting, replies, flying, left, undelivered,
                        inApp, accepted, timeouts, failures, resets>>
    BY DEF Raise, serviceVars, connectionVars, noticeVars, countVars
  <1>12. DOMAIN kind' = DOMAIN kind \cup {i} /\ i \notin DOMAIN kind
    BY <1>4 DEF Adds
  <1>13. \A j \in DOMAIN kind : kind'[j] = kind[j] /\ outcome'[j] = outcome[j]
    BY <1>4, <1>5, <1>7 DEF Adds
  <1>14. kind'[i] = k /\ outcome'[i] = "open"
    BY <1>2, <1>4, <1>5 DEF Adds
  <1> QED BY <1>1, <1>4, <1>6, <1>9, <1>10, <1>11, <1>12, <1>13, <1>14 DEF Raised

LEMMA ExtensionEffect ==
  ASSUME Base, ExtensionReceives, NEW s, s = toExt[1]
  PROVE  /\ s \in Submission /\ s.ask \in Raised /\ kind[s.ask] \in AskKind
         /\ toExt' \in Seq(Submission) /\ Drops(toExt, toExt')
         /\ \E ok \in BOOLEAN : /\ toMain' \in Seq(Message)
                                /\ Adds(toMain, toMain', Response(s.reply, ok))
                                /\ ok <=> slot[kind[s.ask]] = s.ask
         /\ \/ /\ slot[kind[s.ask]] = s.ask
               /\ slot' = [slot EXCEPT ![kind[s.ask]] = NoAsk]
               /\ accepted' = accepted \cup {[for |-> s.ask, slot |-> s.ask, reply |-> s.reply]}
               /\ \/ /\ outcome[s.ask] = "open"
                     /\ outcome' = [outcome EXCEPT ![s.ask] = SettledAs(s)]
                     /\ completing' = completing \cup {s.ask}
                  \/ outcome[s.ask] # "open" /\ UNCHANGED <<outcome, completing>>
            \/ slot[kind[s.ask]] # s.ask /\ UNCHANGED <<slot, accepted, outcome, completing>>
         /\ UNCHANGED <<kind, record, posting, replies, flying, left, undelivered, inApp,
                        timeouts, failures, resets>>
  <1>1. toExt \in Seq(Submission) /\ toMain \in Seq(Message) /\ toExt # <<>>
    BY DEF Base, TITypeOK, ExtensionReceives
  <1>2. s \in Submission /\ Head(toExt) = s /\ Tail(toExt) \in Seq(Submission) /\ Drops(toExt, Tail(toExt))
    BY <1>1, Tails
  <1>3. s.ask \in Raised /\ kind[s.ask] \in AskKind
    BY <1>2, Facts DEF Base, RefInv, Drops
  <1>4. ASSUME NEW ok \in BOOLEAN, toMain' = Append(toMain, Response(s.reply, ok))
        PROVE  toMain' \in Seq(Message) /\ Adds(toMain, toMain', Response(s.reply, ok))
    <2>1. Response(s.reply, ok) \in Message
      BY <1>2 DEF Response, Message, Submission
    <2> QED BY <1>1, <1>4, <2>1, Appends
  <1>5. /\ Execute(s) /\ toExt' = Tail(toExt)
        /\ UNCHANGED <<kind, record, posting, replies, flying, left, undelivered, inApp,
                        timeouts, failures, resets>>
    BY <1>2 DEF ExtensionReceives, serviceVars, connectionVars, noticeVars, countVars
  <1>6. CASE slot[kind[s.ask]] = s.ask
    BY <1>2, <1>3, <1>4, <1>5, <1>6 DEF Execute, Accepts, Emptied
  <1>7. CASE slot[kind[s.ask]] # s.ask
    BY <1>2, <1>3, <1>4, <1>5, <1>7 DEF Execute, Accepts
  <1> QED BY <1>6, <1>7

LEMMA UndeliverableEffect ==
  ASSUME Base, Undeliverable, NEW s, s = toExt[1]
  PROVE  /\ s \in Submission /\ s.ask \in Raised
         /\ toExt' \in Seq(Submission) /\ Drops(toExt, toExt')
         /\ toMain' \in Seq(Message) /\ Adds(toMain, toMain', Response(s.reply, FALSE))
         /\ failures' = failures + 1 /\ failures' \in 0..MaxFailures
         /\ UNCHANGED <<kind, outcome, completing, slot, record, posting, replies, flying, left,
                        undelivered, inApp, accepted, timeouts, resets>>
  <1>1. toExt \in Seq(Submission) /\ toMain \in Seq(Message) /\ toExt # <<>>
    BY DEF Base, TITypeOK, Undeliverable
  <1>2. s \in Submission /\ Head(toExt) = s /\ Tail(toExt) \in Seq(Submission) /\ Drops(toExt, Tail(toExt))
    BY <1>1, Tails
  <1>3. s.ask \in Raised
    BY <1>2, Facts DEF Base, RefInv, Drops
  <1>4. Response(s.reply, FALSE) \in Message
    BY <1>2 DEF Response, Message, Submission
  <1>5. toMain' \in Seq(Message) /\ Adds(toMain, toMain', Response(s.reply, FALSE))
    <2>1. toMain' = Append(toMain, Response(s.reply, FALSE))
      BY <1>2 DEF Undeliverable
    <2> QED BY <1>1, <1>4, <2>1, Appends
  <1>6. failures' = failures + 1 /\ failures' \in 0..MaxFailures
    <2>1. failures \in 0..MaxFailures
      BY DEF Base, TITypeOK
    <2>2. failures < MaxFailures /\ failures' = failures + 1
      BY DEF Undeliverable
    <2>3. MaxFailures \in Nat
      BY ThreadAssumption
    <2> QED BY <2>1, <2>2, <2>3
  <1> QED BY <1>2, <1>3, <1>5, <1>6 DEF Undeliverable, runtimeVars, serviceVars, connectionVars,
                                         noticeVars

LEMMA SlashEffect ==
  ASSUME Base, SlashNew
  PROVE  /\ toExt' = <<>> /\ DOMAIN toExt' = {} /\ toMain' \in Seq(Message)
         /\ DOMAIN toMain \subseteq DOMAIN toMain'
         /\ \A p \in DOMAIN toMain : toMain'[p] = toMain[p]
         /\ \A p \in DOMAIN toMain' : p \notin DOMAIN toMain =>
               /\ p - Len(toMain) \in DOMAIN toExt
               /\ toMain'[p] = Response(toExt[p - Len(toMain)].reply, FALSE)
               /\ \A q \in DOMAIN toMain : q < p
         /\ \A q \in DOMAIN toExt : /\ q + Len(toMain) \in DOMAIN toMain'
                                    /\ toMain'[q + Len(toMain)] = Response(toExt[q].reply, FALSE)
         /\ Len(toMain) \in Nat
         /\ \A i \in Raised : outcome'[i] = IF outcome[i] = "open" THEN "killed" ELSE outcome[i]
         /\ outcome' \in [Raised -> {"open", "app", "teams", "offline", "killed"}]
         /\ completing' = {} /\ slot' = [k \in AskKind |-> NoAsk]
         /\ resets' = resets + 1 /\ resets' \in 0..MaxResets
         /\ UNCHANGED <<kind, record, posting, replies, flying, left, undelivered, inApp,
                        accepted, timeouts, failures>>
  <1>1. /\ toExt \in Seq(Submission) /\ toMain \in Seq(Message) /\ Len(toMain) \in Nat
        /\ Len(toExt) \in Nat /\ DOMAIN toExt = 1..Len(toExt) /\ DOMAIN toMain = 1..Len(toMain)
    BY DEF Base, TITypeOK
  <1>2. \A q \in DOMAIN toExt : Response(toExt[q].reply, FALSE) \in Message
    <2>1. ASSUME NEW q \in DOMAIN toExt PROVE Response(toExt[q].reply, FALSE) \in Message
      <3>1. toExt[q] \in Submission
        BY <1>1
      <3>2. toExt[q].reply \in 0..MaxReplies
        BY <3>1 DEF Submission
      <3> QED BY <3>2 DEF Response, Message
    <2> QED BY <2>1
  <1>3. Refusals \in [1..Len(toExt) -> Message]
    BY <1>1, <1>2 DEF Refusals
  <1>4. Refusals \in Seq(Message) /\ Len(Refusals) = Len(toExt)
    BY <1>1, <1>3, FunctionIsSeq
  <1>5. /\ toMain \o Refusals \in Seq(Message)
        /\ Len(toMain \o Refusals) = Len(toMain) + Len(toExt)
        /\ \A p \in 1..(Len(toMain) + Len(toExt)) : (toMain \o Refusals)[p] =
              IF p <= Len(toMain) THEN toMain[p] ELSE Refusals[p - Len(toMain)]
    <2>1. \A i \in 1..(Len(toMain) + Len(Refusals)) : (toMain \o Refusals)[i] =
             IF i <= Len(toMain) THEN toMain[i] ELSE Refusals[i - Len(toMain)]
      BY <1>1, <1>4, ConcatProperties
    <2>2. toMain \o Refusals \in Seq(Message) /\ Len(toMain \o Refusals) = Len(toMain) + Len(Refusals)
      BY <1>1, <1>4, ConcatProperties
    <2> QED BY <1>4, <2>1, <2>2
  <1>6. DOMAIN (toMain \o Refusals) = 1..(Len(toMain) + Len(toExt))
    BY <1>5
  <1> DEFINE t == toMain \o Refusals
  <1> HIDE DEF t
  <1>7. /\ DOMAIN toMain \subseteq DOMAIN t
        /\ \A p \in DOMAIN toMain : t[p] = toMain[p]
    BY <1>1, <1>5, <1>6 DEF t
  <1>8. ASSUME NEW p \in DOMAIN t, p \notin DOMAIN toMain
        PROVE  /\ p - Len(toMain) \in DOMAIN toExt
               /\ t[p] = Response(toExt[p - Len(toMain)].reply, FALSE)
               /\ \A q \in DOMAIN toMain : q < p
    <2>1. p \in Nat /\ p > Len(toMain) /\ p <= Len(toMain) + Len(toExt)
      BY <1>1, <1>6, <1>8 DEF t
    <2>2. p - Len(toMain) \in DOMAIN toExt /\ t[p] = Refusals[p - Len(toMain)]
      BY <1>1, <1>5, <2>1 DEF t
    <2> QED BY <1>1, <2>1, <2>2 DEF Refusals
  <1>9. ASSUME NEW q \in DOMAIN toExt
        PROVE  q + Len(toMain) \in DOMAIN t /\ t[q + Len(toMain)] = Response(toExt[q].reply, FALSE)
    <2>1. q \in Nat /\ q >= 1 /\ q <= Len(toExt)
      BY <1>1
    <2>2. q + Len(toMain) \in DOMAIN t /\ t[q + Len(toMain)] = Refusals[(q + Len(toMain)) - Len(toMain)]
      BY <1>1, <1>5, <1>6, <2>1 DEF t
    <2>3. (q + Len(toMain)) - Len(toMain) = q
      BY <1>1, <2>1
    <2> QED BY <2>2, <2>3 DEF Refusals
  <1>10. toMain' = t /\ t \in Seq(Message) /\ toExt' = <<>> /\ DOMAIN toExt' = {}
    BY <1>5 DEF SlashNew, t
  <1>11. resets' = resets + 1 /\ resets' \in 0..MaxResets
    <2>1. resets \in 0..MaxResets
      BY DEF Base, TITypeOK
    <2>2. resets < MaxResets /\ resets' = resets + 1
      BY DEF SlashNew
    <2>3. MaxResets \in Nat
      BY ThreadAssumption
    <2> QED BY <2>1, <2>2, <2>3
  <1>12. /\ \A i \in Raised : outcome'[i] = IF outcome[i] = "open" THEN "killed" ELSE outcome[i]
         /\ outcome' \in [Raised -> {"open", "app", "teams", "offline", "killed"}]
    BY DEF Base, TITypeOK, SlashNew
  <1>13. /\ completing' = {} /\ slot' = [k \in AskKind |-> NoAsk]
         /\ UNCHANGED <<kind, record, posting, replies, flying, left, undelivered, inApp,
                        accepted, timeouts, failures>>
    BY DEF SlashNew, serviceVars, connectionVars, noticeVars
  <1> QED BY <1>1, <1>7, <1>8, <1>9, <1>10, <1>11, <1>12, <1>13

LEMMA MainEffect ==
  ASSUME Base, MainReceives, NEW m, m = toMain[1]
  PROVE  /\ m \in Message /\ toMain' \in Seq(Message) /\ Drops(toMain, toMain')
         /\ \/ m.type = "requested" /\ m.ask \in Raised /\ OnRequested(m.ask)
            \/ m.type = "completed" /\ m = Completed(m.ask) /\ m.ask \in Raised /\ OnCompleted(m.ask)
            \/ /\ m.type = "response" /\ m.reply \in 0..Len(replies) /\ m.ok \in BOOLEAN
               /\ OnResponse(m.reply, m.ok)
         /\ UNCHANGED <<kind, outcome, completing, slot, toExt, left, accepted, timeouts, failures,
                        resets>>
  <1>1. toMain \in Seq(Message) /\ toMain # <<>> /\ toMain' = Tail(toMain)
    BY DEF Base, TITypeOK, MainReceives
  <1>2. m \in Message /\ Head(toMain) = m /\ toMain' \in Seq(Message) /\ Drops(toMain, toMain')
    BY <1>1, Tails
  <1>3. IF m.type = "response" THEN m.reply \in 0..Len(replies) ELSE m.ask \in Raised
    BY <1>2 DEF Base, RefInv, Drops
  <1>4. /\ m.type \in {"requested", "completed", "response"}
        /\ m.type = "response" => m.ok \in BOOLEAN
        /\ m.type = "completed" => m = Completed(m.ask)
    BY <1>2 DEF Message, Completed, EventOf
  <1>5. /\ CASE m.type = "requested" -> OnRequested(m.ask)
              [] m.type = "completed" -> OnCompleted(m.ask)
              [] m.type = "response" -> OnResponse(m.reply, m.ok)
        /\ UNCHANGED <<kind, outcome, completing, slot, toExt, left, accepted, timeouts, failures,
                        resets>>
    BY <1>2 DEF MainReceives, runtimeVars, connectionVars, countVars
  <1>6. CASE m.type = "requested"
    BY <1>2, <1>3, <1>5, <1>6
  <1>7. CASE m.type = "completed"
    BY <1>2, <1>3, <1>4, <1>5, <1>7
  <1>8. CASE m.type = "response"
    BY <1>2, <1>3, <1>4, <1>5, <1>8
  <1> QED BY <1>4, <1>6, <1>7, <1>8

LEMMA CompleteEffect ==
  ASSUME Base, NEW i \in Raised, Complete(i)
  PROVE  /\ i \in completing /\ completing' = completing \ {i}
         /\ \A k \in AskKind : slot'[k] = IF slot[k] = i THEN NoAsk ELSE slot[k]
         /\ slot' \in [AskKind -> Ask \cup {NoAsk}]
         /\ toMain' \in Seq(Message) /\ Adds(toMain, toMain', Completed(i))
         /\ UNCHANGED <<kind, outcome, toExt, record, posting, replies, flying, left, undelivered,
                        inApp, accepted, timeouts, failures, resets>>
  <1>1. toMain \in Seq(Message) /\ slot \in [AskKind -> Ask \cup {NoAsk}]
    BY DEF Base, TITypeOK
  <1>2. Completed(i) \in Message
    BY Facts DEF Base, Completed, EventOf, Message
  <1>3. toMain' \in Seq(Message) /\ Adds(toMain, toMain', Completed(i))
    BY <1>1, <1>2, Appends DEF Complete, Completed
  <1>4. kind[i] \in AskKind /\ i # NoAsk
    BY Facts DEF Base
  <1>5. \A k \in AskKind : slot[k] = i => k = kind[i]
    BY <1>4 DEF Base, RefInv
  <1>6. /\ \A k \in AskKind : slot'[k] = IF slot[k] = i THEN NoAsk ELSE slot[k]
        /\ slot' \in [AskKind -> Ask \cup {NoAsk}]
    BY <1>1, <1>4, <1>5 DEF Complete, ClearsSlot, NoAsk
  <1> QED BY <1>3, <1>6 DEF Complete, serviceVars, connectionVars, noticeVars, countVars

(* An answer to an awaited reply, or the relay's giving up on it: the      *)
(* record is removed, released, or left alone; another kind's always is.   *)
Settlement(n, ok) ==
    /\ n \in flying /\ flying' = flying \ {n}
    /\ \A k \in AskKind : k # kind[replies[n]] => record'[k] = record[k]
    /\ \/ ok /\ record'[kind[replies[n]]] = NoRecord /\ UNCHANGED undelivered
       \/ /\ ~ok /\ record[kind[replies[n]]].ask = replies[n]
          /\ record'[kind[replies[n]]] = Pending(replies[n])
          /\ undelivered' = undelivered \cup {replies[n]}
       \/ ~ok /\ record[kind[replies[n]]].ask # replies[n] /\ UNCHANGED <<record, undelivered>>

LEMMA SettleEffect ==
  ASSUME Base, NEW n \in flying, NEW ok \in BOOLEAN, flying' = flying \ {n}, Settle(replies[n], ok)
  PROVE  /\ Settlement(n, ok) /\ replies[n] \in Raised /\ kind[replies[n]] \in AskKind
         /\ record' \in [AskKind -> Rec]
  <1>1. replies[n] \in Raised /\ kind[replies[n]] \in AskKind /\ n \in DOMAIN replies
    BY Facts DEF Base, TITypeOK, RefInv
  <1> DEFINE k == kind[replies[n]]
  <1>2. record \in [AskKind -> Rec] /\ k \in AskKind /\ NoRecord \in Rec /\ record[k] \in Rec
    BY <1>1 DEF Base, TITypeOK, NoRecord, Rec
  <1>3. CASE ok
    BY <1>1, <1>2, <1>3 DEF Settle, Settlement, Removed
  <1>4. CASE ~ok /\ record[k].ask = replies[n]
    <2>1. record' = [record EXCEPT ![k].latched = FALSE] /\ undelivered' = undelivered \cup {replies[n]}
      BY <1>4 DEF Settle, Released
    <2>2. record' = [record EXCEPT ![k] = Pending(replies[n])] /\ Pending(replies[n]) \in Rec
      <3>2. [record[k] EXCEPT !.latched = FALSE] = Pending(replies[n])
        BY <1>2, <1>4, Latching DEF Pending
      <3>3. Pending(replies[n]) \in Rec
        BY <1>1, Facts DEF Pending, Base, Rec
      <3> QED BY <2>1, <1>2, <3>2, <3>3
    <2> QED BY <1>1, <1>2, <1>4, <2>1, <2>2 DEF Settlement
  <1>5. CASE ~ok /\ record[k].ask # replies[n]
    BY <1>1, <1>2, <1>5 DEF Settle, Settlement
  <1> QED BY <1>3, <1>4, <1>5

LEMMA ResponseEffect ==
  ASSUME Base, NEW n \in Nat, NEW ok \in BOOLEAN, OnResponse(n, ok)
  PROVE  /\ \/ n \notin flying /\ UNCHANGED <<flying, record, undelivered>>
            \/ n \in flying /\ replies[n] \in Raised /\ kind[replies[n]] \in AskKind /\ Settlement(n, ok)
         /\ record' \in [AskKind -> Rec]
         /\ UNCHANGED <<posting, replies, inApp>>
  <1>1. CASE n \in flying
    BY <1>1, SettleEffect DEF OnResponse
  <1>2. CASE n \notin flying
    BY <1>2 DEF OnResponse, Base, TITypeOK, Rec
  <1> QED BY <1>1, <1>2 DEF OnResponse

LEMMA TimeoutEffect ==
  ASSUME Base, NEW n \in flying, RequestTimesOut(n)
  PROVE  /\ Settlement(n, FALSE) /\ replies[n] \in Raised /\ kind[replies[n]] \in AskKind
         /\ record' \in [AskKind -> Rec]
         /\ timeouts' = timeouts + 1 /\ timeouts' \in 0..MaxTimeouts /\ timeouts' # 0
         /\ UNCHANGED <<kind, outcome, completing, slot, toExt, toMain, posting, replies, left,
                        inApp, accepted, failures, resets>>
  <1>1. /\ Settlement(n, FALSE) /\ replies[n] \in Raised /\ kind[replies[n]] \in AskKind
        /\ record' \in [AskKind -> Rec]
    BY SettleEffect DEF RequestTimesOut
  <1>2. timeouts' = timeouts + 1 /\ timeouts' \in 0..MaxTimeouts /\ timeouts' # 0
    <2>1. timeouts \in 0..MaxTimeouts
      BY DEF Base, TITypeOK
    <2>2. timeouts < MaxTimeouts /\ timeouts' = timeouts + 1
      BY DEF RequestTimesOut
    <2>3. MaxTimeouts \in Nat
      BY ThreadAssumption
    <2> QED BY <2>1, <2>2, <2>3
  <1> QED BY <1>1, <1>2 DEF RequestTimesOut, runtimeVars, channelVars, connectionVars

(* A requested event makes a record, or has a plan's body posted first, or *)
(* finds the agent offline.                                                *)
LEMMA RequestedEffect ==
  ASSUME Base, NEW i \in Raised, OnRequested(i)
  PROVE  /\ \/ posting' = posting \cup {i} /\ kind[i] = "plan" /\ UNCHANGED record
            \/ record' = [record EXCEPT ![kind[i]] = Pending(i)] /\ UNCHANGED posting
            \/ UNCHANGED <<record, posting>>
         /\ Pending(i) \in Rec
         /\ UNCHANGED <<replies, flying, undelivered, inApp>>
  <1>1. Pending(i) \in Rec
    BY Facts DEF Base, Pending, Rec
  <1> QED BY <1>1 DEF OnRequested, noticeVars

LEMMA CompletedEffect ==
  ASSUME Base, NEW i \in Raised, OnCompleted(i)
  PROVE  /\ \/ /\ record[kind[i]].ask = i /\ ~record[kind[i]].latched
               /\ record' = [record EXCEPT ![kind[i]] = NoRecord] /\ inApp' = inApp \cup {i}
            \/ (record[kind[i]].ask # i \/ record[kind[i]].latched) /\ UNCHANGED <<record, inApp>>
         /\ UNCHANGED <<posting, replies, flying, undelivered>>
  BY DEF OnCompleted, HandledInApp

-----------------------------------------------------------------------------
(* The types, and what is referred to.                                     *)

RuntimeTypes ==
    /\ kind \in Seq(AskKind)
    /\ Len(kind) <= MaxAsks
    /\ outcome \in [Raised -> {"open", "app", "teams", "offline", "killed"}]
    /\ completing \subseteq Raised
    /\ slot \in [AskKind -> Ask \cup {NoAsk}]
    /\ \A k \in AskKind : slot[k] # NoAsk => slot[k] \in Raised /\ kind[slot[k]] = k
    /\ accepted \subseteq [for : Ask, slot : Ask, reply : 0..MaxReplies]

ChannelTypes ==
    /\ toExt \in Seq(Submission)
    /\ toMain \in Seq(Message)
    /\ \A p \in DOMAIN toExt :
          /\ toExt[p].ask \in Raised
          /\ toExt[p].reply # 0 =>
                toExt[p].reply \in DOMAIN replies /\ replies[toExt[p].reply] = toExt[p].ask
    /\ \A p \in DOMAIN toMain :
          IF toMain[p].type = "response" THEN toMain[p].reply \in 0..Len(replies)
          ELSE toMain[p].ask \in Raised

ServiceTypes ==
    /\ record \in [AskKind -> Rec]
    /\ \A k \in AskKind : record[k].ask # NoAsk => record[k].ask \in Raised /\ kind[record[k].ask] = k
    /\ posting \subseteq Raised
    /\ \A i \in posting : kind[i] = "plan"
    /\ replies \in Seq(Ask)
    /\ \A n \in DOMAIN replies : replies[n] \in Raised
    /\ flying \subseteq DOMAIN replies
    /\ undelivered \cup inApp \cup left \subseteq Raised

CountTypes ==
    /\ timeouts \in 0..MaxTimeouts
    /\ failures \in 0..MaxFailures
    /\ resets \in 0..MaxResets

ConnectionTypes == online \in BOOLEAN /\ going \in 0..4 /\ offlines \in 0..MaxOffline

LEMMA BaseParts ==
  /\ Base <=> RuntimeTypes /\ ChannelTypes /\ ServiceTypes /\ CountTypes /\ ConnectionTypes
  /\ Base' <=> RuntimeTypes' /\ ChannelTypes' /\ ServiceTypes' /\ CountTypes' /\ ConnectionTypes'
  BY DEF Base, TITypeOK, RefInv, RuntimeTypes, ChannelTypes, ServiceTypes, CountTypes,
         ConnectionTypes, Rec

LEMMA ConnectionStep ==
  ASSUME ConnectionTypes, TINext \/ UNCHANGED tiVars
  PROVE  ConnectionTypes'
  <1>1. CASE UNCHANGED connectionVars
    BY <1>1 DEF ConnectionTypes, connectionVars
  <1>2. ASSUME NEW p \in 0..3 PROVE NextStop(p) \in 0..4
    <2>1. CASE NextStop(p) = 4
      BY <2>1
    <2>2. CASE NextStop(p) # 4
      BY <2>2, Stops
    <2> QED BY <2>1, <2>2
  <1>3. CASE GoOffline
    BY <1>2, <1>3, ThreadAssumption DEF GoOffline, ConnectionTypes
  <1>4. CASE GoOfflineGoesOn
    BY <1>2, <1>4 DEF GoOfflineGoesOn, ConnectionTypes
  <1>5. CASE GoOfflineEnds
    <2>1. going' = 0 /\ online' = FALSE /\ UNCHANGED offlines
      BY <1>5 DEF GoOfflineEnds
    <2>2. online' \in BOOLEAN
      BY <2>1
    <2>3. going' \in 0..4 /\ offlines' \in 0..MaxOffline
      BY <2>1 DEF ConnectionTypes
    <2> QED BY <2>2, <2>3 DEF ConnectionTypes
  <1>6. CASE Reconnect
    BY <1>6 DEF Reconnect, ConnectionTypes
  <1>7. CASE \/ UNCHANGED tiVars
             \/ \E k \in AskKind : Raise(k)
             \/ \E i \in Raised : AnswerInApp(i) \/ Complete(i) \/ PlanBodyPosted(i)
             \/ ExtensionReceives \/ Undeliverable \/ SlashNew \/ MainReceives
             \/ \E n \in flying : RequestTimesOut(n)
             \/ Reply
    <2>1. UNCHANGED connectionVars
      BY <1>7 DEF tiVars, Raise, AnswerInApp, Complete, PlanBodyPosted, ExtensionReceives,
                  Undeliverable, SlashNew, MainReceives, RequestTimesOut, Reply
    <2> QED BY <2>1, <1>1
  <1> QED BY <1>3, <1>4, <1>5, <1>6, <1>7 DEF TINext

LEMMA RecordTypes ==
  ASSUME ServiceTypes, NEW k \in AskKind, NEW r \in Rec, record' = [record EXCEPT ![k] = r],
         r.ask # NoAsk => r.ask \in Raised /\ kind[r.ask] = k, UNCHANGED kind
  PROVE  /\ record' \in [AskKind -> Rec]
         /\ \A j \in AskKind : record'[j].ask # NoAsk =>
                 record'[j].ask \in Raised /\ kind'[record'[j].ask] = j
  BY DEF ServiceTypes

LEMMA RuntimeBase ==
  ASSUME Base
  PROVE  /\ \A k \in AskKind : Raise(k) => RuntimeTypes'
         /\ \A i \in Raised : AnswerInApp(i) => RuntimeTypes'
         /\ \A i \in Raised : Complete(i) => RuntimeTypes'
         /\ ExtensionReceives => RuntimeTypes'
         /\ SlashNew => RuntimeTypes'
  <1> USE BaseParts
  <1>1. ASSUME NEW k \in AskKind, Raise(k) PROVE RuntimeTypes'
    <2>1. RuntimeTypes
      OBVIOUS
    <2> HIDE BaseParts
    <2>2. PICK j : j = Len(kind) + 1
      OBVIOUS
    <2>3. /\ j \in Ask /\ j \notin Raised /\ Raised' = Raised \cup {j}
          /\ kind' \in Seq(AskKind) /\ Len(kind') <= MaxAsks
          /\ outcome' \in [Raised' -> {"open", "app", "teams", "offline", "killed"}]
          /\ \A h \in Raised : kind'[h] = kind[h]
          /\ kind'[j] = k /\ slot' = [slot EXCEPT ![k] = j]
          /\ UNCHANGED <<completing, accepted>>
      BY <1>1, <2>2, RaiseEffect
    <2>4. slot' \in [AskKind -> Ask \cup {NoAsk}]
      BY <2>1, <2>3 DEF RuntimeTypes
    <2>5. \A h \in AskKind : slot'[h] # NoAsk => slot'[h] \in Raised' /\ kind'[slot'[h]] = h
      BY <2>1, <2>3 DEF RuntimeTypes
    <2> QED BY <2>1, <2>3, <2>4, <2>5 DEF RuntimeTypes
  <1>2. ASSUME NEW i \in Raised, AnswerInApp(i) PROVE RuntimeTypes'
    BY <1>2 DEF AnswerInApp, RuntimeTypes, Raised
  <1>3. ASSUME NEW i \in Raised, Complete(i) PROVE RuntimeTypes'
    BY <1>3, CompleteEffect DEF RuntimeTypes, Raised
  <1>4. ASSUME ExtensionReceives PROVE RuntimeTypes'
    <2>1. PICK s : s = toExt[1]
      OBVIOUS
    <2>2. /\ s \in Submission /\ s.ask \in Raised /\ kind[s.ask] \in AskKind
          /\ \/ /\ slot' = [slot EXCEPT ![kind[s.ask]] = NoAsk]
                /\ accepted' = accepted \cup {[for |-> s.ask, slot |-> s.ask, reply |-> s.reply]}
                /\ \/ /\ outcome' = [outcome EXCEPT ![s.ask] = SettledAs(s)]
                      /\ completing' = completing \cup {s.ask}
                   \/ UNCHANGED <<outcome, completing>>
             \/ UNCHANGED <<slot, accepted, outcome, completing>>
          /\ UNCHANGED kind
      BY <1>4, <2>1, ExtensionEffect
    <2>3. SettledAs(s) \in {"open", "app", "teams", "offline", "killed"}
      BY DEF SettledAs
    <2>4. [for |-> s.ask, slot |-> s.ask, reply |-> s.reply] \in [for : Ask, slot : Ask, reply : 0..MaxReplies]
      BY <2>2 DEF Submission
    <2>5. RuntimeTypes
      OBVIOUS
    <2> HIDE BaseParts
    <2>6. /\ accepted' \subseteq [for : Ask, slot : Ask, reply : 0..MaxReplies]
          /\ completing' \subseteq Raised
      BY <2>2, <2>4, <2>5 DEF RuntimeTypes
    <2>7. outcome' \in [Raised -> {"open", "app", "teams", "offline", "killed"}]
      BY <2>2, <2>3, <2>5 DEF RuntimeTypes
    <2>8. /\ slot' \in [AskKind -> Ask \cup {NoAsk}]
          /\ \A k \in AskKind : slot'[k] # NoAsk => slot'[k] \in Raised /\ kind[slot'[k]] = k
      BY <2>2, <2>5 DEF RuntimeTypes
    <2> QED BY <2>2, <2>5, <2>6, <2>7, <2>8 DEF RuntimeTypes, Raised
  <1>5. ASSUME SlashNew PROVE RuntimeTypes'
    BY <1>5, SlashEffect DEF RuntimeTypes, Raised
  <1> QED BY <1>1, <1>2, <1>3, <1>4, <1>5

LEMMA ChannelBase ==
  ASSUME Base
  PROVE  /\ \A k \in AskKind : Raise(k) \/ ReplyTo(k) \/ DropsRecord(k) => ChannelTypes'
         /\ \A i \in Raised : Complete(i) => ChannelTypes'
         /\ ExtensionReceives \/ Undeliverable \/ SlashNew \/ MainReceives => ChannelTypes'
  <1>1. ChannelTypes /\ ServiceTypes
    BY BaseParts
  <1>2. Len(replies) \in Nat /\ DOMAIN replies = 1..Len(replies)
    BY Facts DEF Base
  <1>3. ASSUME NEW k \in AskKind, Raise(k) PROVE ChannelTypes'
    <2>1. PICK i : i = Len(kind) + 1
      OBVIOUS
    <2>2. /\ Raised' = Raised \cup {i} /\ toMain' \in Seq(Message)
          /\ Adds(toMain, toMain', Requested(i)) /\ UNCHANGED <<toExt, replies>>
      BY <1>3, <2>1, RaiseEffect
    <2> QED BY <1>1, <2>2 DEF ChannelTypes, Adds, Requested, EventOf
  <1>4. ASSUME NEW k \in AskKind, ReplyTo(k) PROVE ChannelTypes'
    <2>1. PICK a, n : a = record[k].ask /\ n = Len(replies) + 1
      OBVIOUS
    <2>2. a \in Raised /\ a \in Ask /\ n \in 0..MaxReplies /\ n # 0 /\ n \notin DOMAIN replies
      BY <1>1, <1>2, <1>4, <2>1, Facts DEF ServiceTypes, ReplyTo, Base
    <2>3. [ask |-> a, reply |-> n] \in Submission
      BY <2>2 DEF Submission
    <2>4. /\ toExt' = Append(toExt, [ask |-> a, reply |-> n]) /\ replies' = Append(replies, a)
          /\ UNCHANGED <<toMain, kind>>
      BY <1>4, <2>1 DEF ReplyTo, runtimeVars
    <2>5. toExt' \in Seq(Submission) /\ Adds(toExt, toExt', [ask |-> a, reply |-> n])
      BY <1>1, <2>3, <2>4, Appends DEF ChannelTypes
    <2>6. /\ Adds(replies, replies', a) /\ Len(replies') = n
      BY <1>1, <2>1, <2>2, <2>4, Appends, AppendProperties DEF ServiceTypes
    <2>7. ASSUME NEW p \in DOMAIN toExt'
          PROVE  /\ toExt'[p].ask \in Raised'
                 /\ toExt'[p].reply # 0 =>
                      toExt'[p].reply \in DOMAIN replies' /\ replies'[toExt'[p].reply] = toExt'[p].ask
      <3>1. CASE p \in DOMAIN toExt
        BY <1>1, <2>4, <2>5, <2>6, <3>1 DEF Adds, ChannelTypes, Raised
      <3>2. CASE p = Len(toExt) + 1
        BY <2>1, <2>2, <2>4, <2>5, <2>6, <3>2 DEF Adds, Raised
      <3> QED BY <2>5, <3>1, <3>2 DEF Adds
    <2>8. ASSUME NEW p \in DOMAIN toMain'
          PROVE  IF toMain'[p].type = "response" THEN toMain'[p].reply \in 0..Len(replies')
                 ELSE toMain'[p].ask \in Raised'
      BY <1>1, <1>2, <2>1, <2>4, <2>6 DEF ChannelTypes, Raised
    <2> QED BY <1>1, <2>4, <2>5, <2>7, <2>8 DEF ChannelTypes
  <1>5. ASSUME NEW k \in AskKind, DropsRecord(k) PROVE ChannelTypes'
    <2>1. UNCHANGED <<toMain, replies, kind>> /\ Raised' = Raised
      BY <1>5 DEF DropsRecord, runtimeVars, Raised
    <2>2. CASE UNCHANGED toExt
      BY <1>1, <2>1, <2>2 DEF ChannelTypes
    <2>3. CASE toExt' = Append(toExt, [ask |-> record[k].ask, reply |-> 0])
      <3>1. record[k].ask \in Raised /\ [ask |-> record[k].ask, reply |-> 0] \in Submission
        BY <1>1, <1>5, Facts, ThreadAssumption DEF ServiceTypes, DropsRecord, Base, Submission
      <3>2. toExt' \in Seq(Submission) /\ Adds(toExt, toExt', [ask |-> record[k].ask, reply |-> 0])
        BY <1>1, <2>3, <3>1, Appends DEF ChannelTypes
      <3> QED BY <1>1, <2>1, <3>1, <3>2 DEF ChannelTypes, Adds
    <2> QED BY <1>5, <2>2, <2>3 DEF DropsRecord
  <1>6. ASSUME NEW i \in Raised, Complete(i) PROVE ChannelTypes'
    <2>1. /\ toMain' \in Seq(Message) /\ Adds(toMain, toMain', Completed(i))
          /\ UNCHANGED <<toExt, replies, kind>> /\ Raised' = Raised
      BY <1>6, CompleteEffect DEF Raised
    <2> QED BY <1>1, <2>1 DEF ChannelTypes, Adds, Completed, EventOf
  <1>7. ASSUME ExtensionReceives \/ Undeliverable PROVE ChannelTypes'
    <2>1. PICK s : s = toExt[1]
      OBVIOUS
    <2>2. /\ toExt' \in Seq(Submission) /\ Drops(toExt, toExt')
          /\ toMain' \in Seq(Message)
          /\ \E ok \in BOOLEAN : Adds(toMain, toMain', Response(s.reply, ok))
          /\ UNCHANGED <<replies, kind>> /\ Raised' = Raised
      BY <1>7, <2>1, ExtensionEffect, UndeliverableEffect DEF Raised
    <2>3. s.reply \in 0..Len(replies)
      BY <1>1, <1>2, <2>1, <2>2 DEF ChannelTypes, Drops
    <2>4. PICK ok \in BOOLEAN : Adds(toMain, toMain', Response(s.reply, ok))
      BY <2>2
    <2>5. ASSUME NEW p \in DOMAIN toExt'
          PROVE  /\ toExt'[p].ask \in Raised'
                 /\ toExt'[p].reply # 0 =>
                      toExt'[p].reply \in DOMAIN replies' /\ replies'[toExt'[p].reply] = toExt'[p].ask
      BY <1>1, <2>2 DEF ChannelTypes, Drops
    <2>6. ASSUME NEW p \in DOMAIN toMain'
          PROVE  IF toMain'[p].type = "response" THEN toMain'[p].reply \in 0..Len(replies')
                 ELSE toMain'[p].ask \in Raised'
      BY <1>1, <2>2, <2>3, <2>4 DEF ChannelTypes, Adds, Response
    <2> QED BY <2>2, <2>5, <2>6 DEF ChannelTypes
  <1>8. ASSUME SlashNew PROVE ChannelTypes'
    <2>1. UNCHANGED <<replies, kind>> /\ Raised' = Raised /\ toExt' = <<>> /\ toMain' \in Seq(Message)
      BY <1>8, SlashEffect DEF Raised
    <2>2. ASSUME NEW p \in DOMAIN toMain'
          PROVE  IF toMain'[p].type = "response" THEN toMain'[p].reply \in 0..Len(replies')
                 ELSE toMain'[p].ask \in Raised'
      <3>1. CASE p \in DOMAIN toMain
        BY <1>1, <1>8, <2>1, <3>1, SlashEffect DEF ChannelTypes
      <3>2. CASE p \notin DOMAIN toMain
        <4>1. PICK q \in DOMAIN toExt : toMain'[p] = Response(toExt[q].reply, FALSE)
          BY <1>8, <3>2, SlashEffect
        <4>2. toExt[q].reply \in 0..Len(replies)
          BY <1>1, <1>2, <4>1 DEF ChannelTypes
        <4> QED BY <2>1, <4>1, <4>2 DEF Response
      <3> QED BY <3>1, <3>2
    <2> QED BY <2>1, <2>2 DEF ChannelTypes
  <1>9. ASSUME MainReceives PROVE ChannelTypes'
    <2>1. PICK m : m = toMain[1]
      OBVIOUS
    <2>2. /\ toMain' \in Seq(Message) /\ Drops(toMain, toMain')
          /\ UNCHANGED <<toExt, kind, replies>> /\ Raised' = Raised
      BY <1>9, <2>1, MainEffect DEF OnRequested, OnCompleted, OnResponse, Raised
    <2> QED BY <1>1, <2>2 DEF ChannelTypes, Drops
  <1> QED BY <1>3, <1>4, <1>5, <1>6, <1>7, <1>8, <1>9

LEMMA ServiceFrame ==
  ASSUME ServiceTypes, UNCHANGED <<kind, record, posting, replies, flying, undelivered, inApp, left>>
  PROVE  ServiceTypes'
  BY DEF ServiceTypes, Raised

LEMMA SettlementTypes ==
  ASSUME ServiceTypes, NEW n \in flying, NEW ok \in BOOLEAN, replies[n] \in Raised,
         kind[replies[n]] \in AskKind, Settlement(n, ok), record' \in [AskKind -> Rec],
         UNCHANGED <<kind, posting, replies, inApp, left>>
  PROVE  ServiceTypes'
  <1>1. \A k \in AskKind : record'[k].ask # NoAsk =>
             record'[k].ask \in Raised' /\ kind'[record'[k].ask] = k
    BY DEF Settlement, ServiceTypes, NoRecord, Pending, Raised
  <1>2. undelivered' \subseteq Raised' /\ flying' \subseteq DOMAIN replies'
    BY DEF Settlement, ServiceTypes, Raised
  <1> QED BY <1>1, <1>2 DEF ServiceTypes, Raised

LEMMA ServiceBase ==
  ASSUME Base
  PROVE  /\ \A k \in AskKind : Raise(k) \/ ReplyTo(k) \/ DropsRecord(k) => ServiceTypes'
         /\ \A i \in Raised : PlanBodyPosted(i) => ServiceTypes'
         /\ MainReceives => ServiceTypes'
         /\ \A n \in flying : RequestTimesOut(n) => ServiceTypes'
  <1>1. ServiceTypes /\ NoRecord \in Rec
    BY BaseParts DEF NoRecord, Rec
  <1>2. ASSUME NEW k \in AskKind, Raise(k) PROVE ServiceTypes'
    <2>1. PICK i : i = Len(kind) + 1
      OBVIOUS
    <2>2. /\ Raised' = Raised \cup {i} /\ \A j \in Raised : kind'[j] = kind[j]
          /\ UNCHANGED <<record, posting, replies, flying, left, undelivered, inApp>>
      BY <1>2, <2>1, RaiseEffect
    <2> QED BY <1>1, <2>2 DEF ServiceTypes
  <1>3. ASSUME NEW k \in AskKind, ReplyTo(k) PROVE ServiceTypes'
    <2>1. PICK a, n : a = record[k].ask /\ n = Len(replies) + 1
      OBVIOUS
    <2>2. a \in Raised /\ a \in Ask /\ kind[a] = k
      BY <1>1, <1>3, <2>1, Facts DEF ServiceTypes, ReplyTo, Base
    <2>3. /\ record' = [record EXCEPT ![k].latched = TRUE] /\ replies' = Append(replies, a)
          /\ flying' = flying \cup {n} /\ UNCHANGED <<kind, posting, undelivered, inApp, left>>
      BY <1>3, <2>1 DEF ReplyTo, runtimeVars, noticeVars
    <2>4. replies' \in Seq(Ask) /\ Adds(replies, replies', a)
      BY <1>1, <2>2, <2>3, Appends DEF ServiceTypes
    <2>5. /\ record' \in [AskKind -> Rec]
          /\ \A j \in AskKind : record'[j].ask # NoAsk =>
                 record'[j].ask \in Raised' /\ kind'[record'[j].ask] = j
      <3>1. ASSUME NEW r \in Rec
            PROVE  [r EXCEPT !.latched = TRUE] \in Rec /\ [r EXCEPT !.latched = TRUE].ask = r.ask
        <4>1. [r EXCEPT !.latched = TRUE] \in Rec
          BY DEF Rec
        <4>2. [r EXCEPT !.latched = TRUE].ask = r.ask
          BY DEF Rec
        <4> QED BY <4>1, <4>2
      <3>2. record' \in [AskKind -> Rec] /\ \A j \in AskKind : record'[j].ask = record[j].ask
        BY <1>1, <2>3, <3>1 DEF ServiceTypes
      <3> QED BY <1>1, <2>3, <3>2 DEF ServiceTypes, Raised
    <2>6. /\ \A h \in DOMAIN replies' : replies'[h] \in Raised'
          /\ flying' \subseteq DOMAIN replies'
      BY <1>1, <2>1, <2>2, <2>3, <2>4 DEF ServiceTypes, Adds, Raised
    <2> QED BY <1>1, <2>3, <2>4, <2>5, <2>6 DEF ServiceTypes, Raised
  <1>4. ASSUME NEW k \in AskKind, DropsRecord(k) PROVE ServiceTypes'
    <2>1. /\ record' = [record EXCEPT ![k] = NoRecord]
          /\ UNCHANGED <<kind, posting, replies, flying, undelivered, inApp>>
          /\ record[k].ask # NoAsk /\ left' \subseteq left \cup {record[k].ask}
      BY <1>4 DEF DropsRecord, runtimeVars, noticeVars
    <2>2. left' \subseteq Raised
      BY <1>1, <2>1 DEF ServiceTypes
    <2> QED BY <1>1, <2>1, <2>2, RecordTypes DEF ServiceTypes, Raised, NoRecord
  <1>5. ASSUME NEW i \in Raised, PlanBodyPosted(i) PROVE ServiceTypes'
    <2>1. /\ i \in posting /\ posting' = posting \ {i} /\ record' = [record EXCEPT !["plan"] = Pending(i)]
          /\ UNCHANGED <<kind, replies, flying, undelivered, inApp, left>>
      BY <1>5 DEF PlanBodyPosted, runtimeVars, noticeVars, connectionVars
    <2>2. kind[i] = "plan" /\ "plan" \in AskKind /\ Pending(i) \in Rec
      BY <1>1, <2>1, Facts DEF ServiceTypes, Base, Pending, Rec
    <2> QED BY <1>1, <2>1, <2>2, RecordTypes DEF ServiceTypes, Raised, Pending
  <1>6. ASSUME MainReceives PROVE ServiceTypes'
    <2>1. PICK m : m = toMain[1]
      OBVIOUS
    <2>2. UNCHANGED <<kind, left>>
      BY <1>6, <2>1, MainEffect
    <2>3. CASE m.ask \in Raised /\ OnRequested(m.ask)
      <3>1. kind[m.ask] \in AskKind /\ Pending(m.ask) \in Rec /\ Pending(m.ask).ask = m.ask
        BY <2>3, RequestedEffect, Facts DEF Base, Rec, Pending
      <3>2. UNCHANGED <<replies, flying, undelivered, inApp>>
        BY <2>3, RequestedEffect
      <3>3. CASE posting' = posting \cup {m.ask} /\ kind[m.ask] = "plan" /\ UNCHANGED record
        BY <1>1, <2>2, <2>3, <3>2, <3>3 DEF ServiceTypes, Raised
      <3>4. CASE record' = [record EXCEPT ![kind[m.ask]] = Pending(m.ask)] /\ UNCHANGED posting
        BY <1>1, <2>2, <2>3, <3>1, <3>2, <3>4, RecordTypes DEF ServiceTypes, Raised
      <3>5. CASE UNCHANGED <<record, posting>>
        BY <1>1, <2>2, <3>2, <3>5, ServiceFrame
      <3> QED BY <2>3, <3>3, <3>4, <3>5, RequestedEffect
    <2>4. CASE m.ask \in Raised /\ OnCompleted(m.ask)
      <3>1. kind[m.ask] \in AskKind
        BY <2>4, Facts DEF Base
      <3>2. UNCHANGED <<posting, replies, flying, undelivered>> /\ inApp' \subseteq inApp \cup {m.ask}
        BY <2>4, CompletedEffect
      <3>3. CASE record' = [record EXCEPT ![kind[m.ask]] = NoRecord]
        BY <1>1, <2>2, <2>4, <3>1, <3>2, <3>3, RecordTypes DEF ServiceTypes, Raised, NoRecord
      <3>4. CASE UNCHANGED record
        BY <1>1, <2>2, <2>4, <3>2, <3>4 DEF ServiceTypes, Raised
      <3> QED BY <2>4, <3>3, <3>4, CompletedEffect
    <2>5. CASE m.reply \in 0..Len(replies) /\ m.ok \in BOOLEAN /\ OnResponse(m.reply, m.ok)
      <3>1. m.reply \in Nat
        BY <2>5, Facts DEF Base
      <3>2. /\ \/ m.reply \notin flying /\ UNCHANGED <<flying, record, undelivered>>
               \/ /\ m.reply \in flying /\ replies[m.reply] \in Raised
                  /\ kind[replies[m.reply]] \in AskKind /\ Settlement(m.reply, m.ok)
            /\ record' \in [AskKind -> Rec]
            /\ UNCHANGED <<posting, replies, inApp>>
        BY <2>5, <3>1, ResponseEffect DEF Rec
      <3> QED BY <1>1, <2>2, <2>5, <3>2, ServiceFrame, SettlementTypes
    <2> QED BY <1>6, <2>1, <2>3, <2>4, <2>5, MainEffect
  <1>7. ASSUME NEW n \in flying, RequestTimesOut(n) PROVE ServiceTypes'
    BY <1>1, <1>7, TimeoutEffect, SettlementTypes DEF Rec
  <1> QED BY <1>2, <1>3, <1>4, <1>5, <1>6, <1>7

LEMMA BaseStep ==
  ASSUME Base, TINext \/ UNCHANGED tiVars
  PROVE  Base'
  <1>1. RuntimeTypes /\ ChannelTypes /\ ServiceTypes /\ CountTypes /\ ConnectionTypes
    BY BaseParts
  <1>2. ConnectionTypes'
    BY <1>1, ConnectionStep
  <1>3. /\ UNCHANGED <<runtimeVars, accepted>> => RuntimeTypes'
        /\ UNCHANGED <<kind, channelVars, replies>> => ChannelTypes'
        /\ UNCHANGED <<timeouts, failures, resets>> => CountTypes'
    <2>1. UNCHANGED <<runtimeVars, accepted>> => UNCHANGED <<kind, outcome, completing, slot, accepted>>
      BY DEF runtimeVars
    <2> QED BY <1>1, <2>1 DEF RuntimeTypes, ChannelTypes, CountTypes, channelVars, Raised
  <1>4. CASE Idle
    <2>1. /\ UNCHANGED <<runtimeVars, accepted>> /\ UNCHANGED <<kind, channelVars, replies>>
          /\ UNCHANGED <<timeouts, failures, resets>>
          /\ UNCHANGED <<kind, record, posting, replies, flying, undelivered, inApp, left>>
      BY <1>4 DEF Idle, runtimeVars, serviceVars, noticeVars, countVars
    <2> QED BY <1>1, <1>2, <1>3, <2>1, ServiceFrame, BaseParts
  <1>5. ASSUME NEW k \in AskKind, Raise(k) PROVE Base'
    <2>1. UNCHANGED <<timeouts, failures, resets>>
      BY <1>5 DEF Raise, countVars
    <2> QED BY <1>2, <1>3, <1>5, <2>1, RuntimeBase, ChannelBase, ServiceBase, BaseParts
  <1>6. ASSUME NEW k \in AskKind, ReplyTo(k) \/ DropsRecord(k) PROVE Base'
    <2>1. UNCHANGED <<timeouts, failures, resets>> /\ UNCHANGED <<runtimeVars, accepted>>
      BY <1>6 DEF ReplyTo, DropsRecord, countVars
    <2> QED BY <1>2, <1>3, <1>6, <2>1, ChannelBase, ServiceBase, BaseParts
  <1>7. ASSUME NEW i \in Raised, AnswerInApp(i) PROVE Base'
    <2>1. /\ UNCHANGED <<kind, channelVars, replies>> /\ UNCHANGED <<timeouts, failures, resets>>
          /\ UNCHANGED <<kind, record, posting, replies, flying, undelivered, inApp, left>>
      BY <1>7 DEF AnswerInApp, serviceVars, noticeVars, countVars, connectionVars
    <2> QED BY <1>1, <1>2, <1>3, <1>7, <2>1, RuntimeBase, ServiceFrame, BaseParts
  <1>8. ASSUME NEW i \in Raised, Complete(i) PROVE Base'
    <2>1. /\ UNCHANGED <<timeouts, failures, resets>>
          /\ UNCHANGED <<kind, record, posting, replies, flying, undelivered, inApp, left>>
      BY <1>8, CompleteEffect
    <2> QED BY <1>1, <1>2, <1>3, <1>8, <2>1, RuntimeBase, ChannelBase, ServiceFrame, BaseParts
  <1>9. ASSUME NEW i \in Raised, PlanBodyPosted(i) PROVE Base'
    <2>1. /\ UNCHANGED <<timeouts, failures, resets>> /\ UNCHANGED <<runtimeVars, accepted>>
          /\ UNCHANGED <<kind, channelVars, replies>>
      BY <1>9 DEF PlanBodyPosted, runtimeVars, countVars
    <2> QED BY <1>2, <1>3, <1>9, <2>1, ServiceBase, BaseParts
  <1>10. CASE ExtensionReceives
    <2>1. /\ UNCHANGED <<timeouts, failures, resets>>
          /\ UNCHANGED <<kind, record, posting, replies, flying, undelivered, inApp, left>>
      BY <1>10, ExtensionEffect
    <2> QED BY <1>1, <1>2, <1>3, <1>10, <2>1, RuntimeBase, ChannelBase, ServiceFrame, BaseParts
  <1>11. CASE Undeliverable
    <2>1. /\ UNCHANGED <<kind, record, posting, replies, flying, undelivered, inApp, left>>
          /\ UNCHANGED <<runtimeVars, accepted>>
      BY <1>11, UndeliverableEffect DEF runtimeVars
    <2>2. CountTypes'
      BY <1>1, <1>11, UndeliverableEffect DEF CountTypes
    <2> QED BY <1>1, <1>2, <1>3, <1>11, <2>1, <2>2, ChannelBase, ServiceFrame, BaseParts
  <1>12. CASE SlashNew
    <2>1. UNCHANGED <<kind, record, posting, replies, flying, undelivered, inApp, left>>
      BY <1>12, SlashEffect
    <2>2. CountTypes'
      BY <1>1, <1>12, SlashEffect DEF CountTypes
    <2> QED BY <1>1, <1>2, <1>12, <2>1, <2>2, RuntimeBase, ChannelBase, ServiceFrame, BaseParts
  <1>13. CASE MainReceives
    <2>1. UNCHANGED <<timeouts, failures, resets>> /\ UNCHANGED <<runtimeVars, accepted>>
      BY <1>13 DEF MainReceives, countVars
    <2> QED BY <1>2, <1>3, <1>13, <2>1, ChannelBase, ServiceBase, BaseParts
  <1>14. ASSUME NEW n \in flying, RequestTimesOut(n) PROVE Base'
    <2>1. /\ UNCHANGED <<runtimeVars, accepted>> /\ UNCHANGED <<kind, channelVars, replies>>
      BY <1>14 DEF RequestTimesOut, runtimeVars
    <2>2. CountTypes'
      BY <1>1, <1>14, TimeoutEffect DEF CountTypes
    <2> QED BY <1>2, <1>3, <1>14, <2>1, <2>2, ServiceBase, BaseParts
  <1> QED BY <1>4, <1>5, <1>6, <1>7, <1>8, <1>9, <1>10, <1>11, <1>12, <1>13, <1>14, Steps

-----------------------------------------------------------------------------
(* Slots and settlements.                                                  *)

LEMMA SettledFrame ==
  ASSUME SettledInv, Base
  PROVE  /\ UNCHANGED <<outcome, completing, toMain>> => SettledInv'
         /\ \A e : /\ Adds(toMain, toMain', e) /\ e.type # "completed"
                   /\ UNCHANGED <<outcome, completing>>
                   => SettledInv'
  BY DEF SettledInv, Adds

LEMMA SettledStep ==
  ASSUME Base, SettledInv, SlotInv, TINext \/ UNCHANGED tiVars
  PROVE  SettledInv'
  <1>1. CASE UNCHANGED <<outcome, completing, toMain>>
    BY <1>1, SettledFrame
  <1>2. ASSUME NEW k \in AskKind, Raise(k) PROVE SettledInv'
    <2>1. PICK i : i = Len(kind) + 1
      OBVIOUS
    <2>2. /\ Adds(toMain, toMain', Requested(i)) /\ UNCHANGED completing
          /\ \A j \in Raised : outcome'[j] = outcome[j]
      BY <1>2, <2>1, RaiseEffect
    <2>3. completing \subseteq Raised
      BY DEF Base, TITypeOK
    <2>4. \A p \in DOMAIN toMain : toMain[p].type = "completed" => toMain[p].ask \in Raised
      BY DEF Base, RefInv
    <2> QED BY <2>2, <2>3, <2>4 DEF SettledInv, Adds, Requested, EventOf
  <1>3. ASSUME NEW i \in Raised, AnswerInApp(i) PROVE SettledInv'
    <2>1. /\ outcome[i] = "open" /\ outcome' = [outcome EXCEPT ![i] = "app"]
          /\ completing' = completing \cup {i} /\ UNCHANGED toMain
      BY <1>3 DEF AnswerInApp, channelVars
    <2>2. \A j \in Raised : outcome'[j] = IF j = i THEN "app" ELSE outcome[j]
      BY <2>1 DEF Base, TITypeOK
    <2>3. completing \subseteq Raised
      BY DEF Base, TITypeOK
    <2>4. \A p \in DOMAIN toMain : toMain[p].type = "completed" => toMain[p].ask \in Raised
      BY DEF Base, RefInv
    <2> QED BY <2>1, <2>2, <2>3, <2>4 DEF SettledInv, Answered
  <1>4. ASSUME NEW i \in Raised, Complete(i) PROVE SettledInv'
    <2>1. /\ i \in completing /\ completing' = completing \ {i} /\ UNCHANGED outcome
          /\ Adds(toMain, toMain', Completed(i))
      BY <1>4, CompleteEffect
    <2> QED BY <2>1 DEF SettledInv, Adds, Completed, EventOf
  <1>5. CASE ExtensionReceives
    <2>1. PICK s : s = toExt[1]
      OBVIOUS
    <2>2. /\ s.ask \in Raised
          /\ \E ok \in BOOLEAN : Adds(toMain, toMain', Response(s.reply, ok))
          /\ \/ /\ outcome' = [outcome EXCEPT ![s.ask] = SettledAs(s)]
                /\ completing' = completing \cup {s.ask}
             \/ UNCHANGED <<outcome, completing>>
      BY <1>5, <2>1, ExtensionEffect
    <2>3. \A j \in Raised : outcome'[j] \in Answered \cup {outcome[j]}
      BY <2>2 DEF Base, TITypeOK, SettledAs, Answered
    <2>4. completing \subseteq Raised /\ \A j \in completing' : outcome'[j] \in Answered
      BY <2>2, <2>3 DEF Base, TITypeOK, SettledInv, SettledAs, Answered
    <2>5. \A p \in DOMAIN toMain : toMain[p].type = "completed" => toMain[p].ask \in Raised
      BY DEF Base, RefInv
    <2>6. PICK ok \in BOOLEAN : Adds(toMain, toMain', Response(s.reply, ok))
      BY <2>2
    <2>7. \A p \in DOMAIN toMain' : toMain'[p].type = "completed" =>
              p \in DOMAIN toMain /\ toMain'[p] = toMain[p]
      BY <2>6 DEF Adds, Response
    <2> QED BY <2>3, <2>4, <2>5, <2>7 DEF SettledInv
  <1>6. CASE Undeliverable
    <2>1. PICK s : s = toExt[1]
      OBVIOUS
    <2>2. Adds(toMain, toMain', Response(s.reply, FALSE)) /\ UNCHANGED <<outcome, completing>>
      BY <1>6, <2>1, UndeliverableEffect
    <2> QED BY <2>2, SettledFrame DEF Response
  <1>7. CASE SlashNew
    <2>1. completing' = {} /\ \A j \in Raised : outcome[j] \in Answered => outcome'[j] = outcome[j]
      BY <1>7, SlashEffect DEF Answered
    <2>2. \A p \in DOMAIN toMain' : toMain'[p].type = "completed" =>
              p \in DOMAIN toMain /\ toMain'[p] = toMain[p]
      BY <1>7, SlashEffect DEF Response
    <2>3. \A p \in DOMAIN toMain : toMain[p].type = "completed" => toMain[p].ask \in Raised
      BY DEF Base, RefInv
    <2> QED BY <2>1, <2>2, <2>3 DEF SettledInv
  <1>8. CASE MainReceives
    <2>1. PICK m : m = toMain[1]
      OBVIOUS
    <2>2. Drops(toMain, toMain') /\ UNCHANGED <<outcome, completing>>
      BY <1>8, <2>1, MainEffect
    <2> QED BY <2>2 DEF SettledInv, Drops
  <1>9. CASE \/ Idle
             \/ \E k \in AskKind : ReplyTo(k) \/ DropsRecord(k)
             \/ \E i \in Raised : PlanBodyPosted(i)
             \/ \E n \in flying : RequestTimesOut(n)
    <2>1. UNCHANGED runtimeVars /\ UNCHANGED toMain
      BY <1>9 DEF Idle, ReplyTo, DropsRecord, PlanBodyPosted, RequestTimesOut, channelVars
    <2> QED BY <1>1, <2>1 DEF runtimeVars
  <1> QED BY <1>2, <1>3, <1>4, <1>5, <1>6, <1>7, <1>8, <1>9, Steps

LEMMA SlotStep ==
  ASSUME Base, SettledInv, SlotInv, TINext \/ UNCHANGED tiVars
  PROVE  SlotInv'
  <1>1. CASE UNCHANGED <<kind, outcome, slot, accepted>>
    BY <1>1 DEF SlotInv, TakenOnce, Raised
  <1>2. ASSUME NEW k \in AskKind, Raise(k) PROVE SlotInv'
    <2>1. PICK i : i = Len(kind) + 1
      OBVIOUS
    <2>2. /\ i \notin Raised /\ Raised' = Raised \cup {i} /\ slot' = [slot EXCEPT ![k] = i]
          /\ \A j \in Raised : kind'[j] = kind[j] /\ outcome'[j] = outcome[j]
          /\ kind'[i] = k /\ UNCHANGED accepted
      BY <1>2, <2>1, RaiseEffect
    <2>3. \A j \in Raised : kind[j] = k => outcome[j] # "open"
      BY <1>2 DEF Raise
    <2>4. slot \in [AskKind -> Ask \cup {NoAsk}] /\ \A j \in Raised : kind[j] \in AskKind
      BY Facts DEF Base, TITypeOK
    <2>5. \A j \in Raised' : outcome'[j] = "open" => slot'[kind'[j]] = j
      BY <2>2, <2>3, <2>4 DEF SlotInv
    <2>6. \A t \in accepted' : t.slot \in Raised' /\ t.slot = t.for /\ slot'[kind'[t.slot]] # t.slot
      BY <2>2, <2>4 DEF SlotInv
    <2> QED BY <2>2, <2>5, <2>6 DEF SlotInv, TakenOnce
  <1>3. ASSUME NEW i \in Raised, AnswerInApp(i) PROVE SlotInv'
    <2>1. outcome' = [outcome EXCEPT ![i] = "app"] /\ UNCHANGED <<kind, slot, accepted>>
      BY <1>3 DEF AnswerInApp
    <2>2. \A j \in Raised : outcome'[j] = "open" => outcome[j] = "open"
      BY <2>1 DEF Base, TITypeOK
    <2> QED BY <2>1, <2>2 DEF SlotInv, TakenOnce, Raised
  <1>4. ASSUME NEW i \in Raised, Complete(i) PROVE SlotInv'
    <2>1. /\ i \in completing /\ UNCHANGED <<kind, outcome, accepted>>
          /\ \A k \in AskKind : slot'[k] = IF slot[k] = i THEN NoAsk ELSE slot[k]
      BY <1>4, CompleteEffect
    <2>2. outcome[i] # "open"
      BY <2>1 DEF SettledInv, Answered
    <2>3. NoAsk \notin Raised /\ \A j \in Raised : kind[j] \in AskKind
      BY Facts DEF Base
    <2> QED BY <2>1, <2>2, <2>3 DEF SlotInv, TakenOnce, Raised
  <1>5. CASE ExtensionReceives
    <2>1. PICK s : s = toExt[1]
      OBVIOUS
    <2>2. PICK j, k : j = s.ask /\ k = kind[s.ask]
      OBVIOUS
    <2>3. /\ j \in Raised /\ k \in AskKind /\ kind[j] = k /\ UNCHANGED kind
          /\ \/ /\ slot[k] = j
                /\ slot' = [slot EXCEPT ![k] = NoAsk]
                /\ accepted' = accepted \cup {[for |-> j, slot |-> j, reply |-> s.reply]}
                /\ \/ outcome[j] = "open" /\ outcome' = [outcome EXCEPT ![j] = SettledAs(s)]
                   \/ outcome[j] # "open" /\ UNCHANGED outcome
             \/ UNCHANGED <<slot, accepted, outcome>>
      BY <1>5, <2>1, <2>2, ExtensionEffect
    <2>4. CASE UNCHANGED <<slot, accepted, outcome>>
      BY <1>1, <2>3, <2>4
    <2>5. CASE /\ slot[k] = j /\ slot' = [slot EXCEPT ![k] = NoAsk]
               /\ accepted' = accepted \cup {[for |-> j, slot |-> j, reply |-> s.reply]}
               /\ \/ outcome[j] = "open" /\ outcome' = [outcome EXCEPT ![j] = SettledAs(s)]
                  \/ outcome[j] # "open" /\ UNCHANGED outcome
      <3>1. SettledAs(s) # "open" /\ NoAsk \notin Raised /\ \A i \in Raised : kind[i] \in AskKind
        BY Facts DEF SettledAs, Base
      <3>2. \A i \in Raised : outcome'[i] = "open" => i # j /\ outcome[i] = "open"
        BY <2>3, <2>5, <3>1 DEF Base, TITypeOK
      <3>3. \A i \in AskKind : slot'[i] = IF i = k THEN NoAsk ELSE slot[i]
        BY <2>3, <2>5 DEF Base, TITypeOK
      <3>4. \A i \in Raised : outcome'[i] = "open" => slot'[kind[i]] = i
        BY <2>5, <3>1, <3>2, <3>3 DEF SlotInv
      <3>5. \A t \in accepted' : t.slot \in Raised /\ t.slot = t.for /\ slot'[kind[t.slot]] # t.slot
        BY <2>3, <2>5, <3>1, <3>3 DEF SlotInv
      <3>6. \A t \in accepted : t.slot # j
        BY <2>3, <2>5 DEF SlotInv
      <3>7. TakenOnce'
        BY <2>5, <3>6 DEF SlotInv, TakenOnce
      <3> QED BY <2>3, <3>4, <3>5, <3>7 DEF SlotInv, Raised
    <2> QED BY <2>3, <2>4, <2>5
  <1>6. CASE SlashNew
    <2>1. /\ \A i \in Raised : outcome'[i] # "open"
          /\ slot' = [k \in AskKind |-> NoAsk] /\ UNCHANGED <<kind, accepted>>
      BY <1>6, SlashEffect
    <2>2. NoAsk \notin Raised /\ \A i \in Raised : kind[i] \in AskKind
      BY Facts DEF Base
    <2> QED BY <2>1, <2>2 DEF SlotInv, TakenOnce, Raised
  <1>7. CASE \/ Idle
             \/ \E k \in AskKind : ReplyTo(k) \/ DropsRecord(k)
             \/ \E i \in Raised : PlanBodyPosted(i)
             \/ \E n \in flying : RequestTimesOut(n)
             \/ Undeliverable \/ MainReceives
    <2>1. UNCHANGED runtimeVars /\ UNCHANGED accepted
      BY <1>7 DEF Idle, ReplyTo, DropsRecord, PlanBodyPosted, RequestTimesOut, Undeliverable,
                  MainReceives
    <2> QED BY <1>1, <2>1 DEF runtimeVars
  <1> QED BY <1>2, <1>3, <1>4, <1>5, <1>6, <1>7, Steps

-----------------------------------------------------------------------------
(* Interactions TeamsService has not seen.                                 *)

Shrinks == \A k \in AskKind : record'[k].ask \in {record[k].ask, NoAsk}

(* What TeamsService is to receive grows by what is no requested event. *)
Extended ==
    /\ DOMAIN toMain \subseteq DOMAIN toMain'
    /\ \A p \in DOMAIN toMain : toMain'[p] = toMain[p]
    /\ \A q \in DOMAIN toMain' : q \notin DOMAIN toMain =>
          toMain'[q].type # "requested" /\ \A p \in DOMAIN toMain : p < q

LEMMA ShrinkEffect ==
  ASSUME Base
  PROVE  /\ \A k \in AskKind : ReplyTo(k) \/ DropsRecord(k) => Shrinks
         /\ \A n, ok : Settlement(n, ok) => Shrinks
         /\ \A i \in Raised : OnCompleted(i) => Shrinks
         /\ UNCHANGED record => Shrinks
  <1>1. record \in [AskKind -> Rec] /\ NoRecord.ask = NoAsk
    BY DEF Base, TITypeOK, Rec, NoRecord
  <1>2. ASSUME NEW k \in AskKind, ReplyTo(k) PROVE Shrinks
    <2>1. ASSUME NEW r \in Rec PROVE [r EXCEPT !.latched = TRUE].ask = r.ask
      BY DEF Rec
    <2> QED BY <1>1, <1>2, <2>1 DEF ReplyTo, Shrinks
  <1>3. ASSUME NEW k \in AskKind, DropsRecord(k) PROVE Shrinks
    BY <1>1, <1>3 DEF DropsRecord, Shrinks
  <1>4. ASSUME NEW n, NEW ok, Settlement(n, ok) PROVE Shrinks
    BY <1>1, <1>4 DEF Settlement, Shrinks, Pending
  <1>5. ASSUME NEW i \in Raised, OnCompleted(i) PROVE Shrinks
    BY <1>1, <1>5 DEF OnCompleted, Shrinks
  <1>6. UNCHANGED record => Shrinks
    BY DEF Shrinks
  <1> QED BY <1>2, <1>3, <1>4, <1>5, <1>6

LEMMA UnseenKept ==
  ASSUME Base, NEW i \in Raised, Unseen(i), Shrinks,
         \A n \in DOMAIN replies' : replies'[n] # i,
         \A p \in DOMAIN toExt' : toExt'[p].ask # i,
         outcome'[i] \notin {"teams", "offline"}
  PROVE  Unseen(i)'
  <1>1. i # NoAsk
    BY Facts DEF Base
  <1> QED BY <1>1 DEF Unseen, Shrinks

(* The record is what makes an interaction seen. *)
LEMMA UnseenStep ==
  ASSUME Base, NEW i \in Raised, Unseen(i)
  PROVE  /\ MainReceives /\ (toMain[1].type # "requested" \/ toMain[1].ask # i) => Unseen(i)'
         /\ \A j \in Raised : PlanBodyPosted(j) /\ j # i => Unseen(i)'
         /\ \/ Idle \/ ExtensionReceives \/ Undeliverable \/ SlashNew
            \/ \E k \in AskKind : Raise(k) \/ ReplyTo(k) \/ DropsRecord(k)
            \/ \E j \in Raised : AnswerInApp(j) \/ Complete(j)
            \/ \E n \in flying : RequestTimesOut(n)
            => Unseen(i)'
  <1>1. /\ \A n \in DOMAIN replies : replies[n] # i
        /\ \A p \in DOMAIN toExt : toExt[p].ask # i
        /\ outcome[i] \notin {"teams", "offline"}
        /\ \A k \in AskKind : record[k].ask # i
        /\ i # NoAsk
    BY Facts DEF Unseen, Base
  <1>2. ASSUME Idle PROVE Unseen(i)'
    <2>1. UNCHANGED <<outcome, toExt, record, replies>>
      BY <1>2 DEF Idle, runtimeVars, channelVars, serviceVars
    <2> QED BY <1>1, <2>1, UnseenKept, ShrinkEffect
  <1>3. ASSUME NEW k \in AskKind, Raise(k) PROVE Unseen(i)'
    <2>1. PICK j : j = Len(kind) + 1
      OBVIOUS
    <2>2. outcome'[i] = outcome[i] /\ UNCHANGED <<toExt, record, replies>>
      BY <1>3, <2>1, RaiseEffect
    <2> QED BY <1>1, <2>2, UnseenKept, ShrinkEffect
  <1>4. ASSUME NEW k \in AskKind, ReplyTo(k) PROVE Unseen(i)'
    <2>1. PICK a, n : a = record[k].ask /\ n = Len(replies) + 1
      OBVIOUS
    <2>2. replies' = Append(replies, a) /\ toExt' = Append(toExt, [ask |-> a, reply |-> n])
      BY <1>4, <2>1 DEF ReplyTo
    <2>3. a # i /\ a \in Ask /\ n \in 0..MaxReplies
      BY <1>1, <1>4, <2>1, Facts, ThreadAssumption DEF Base, RefInv, ReplyTo
    <2>4. [ask |-> a, reply |-> n] \in Submission
      BY <2>3 DEF Submission
    <2>5. Adds(replies, replies', a) /\ Adds(toExt, toExt', [ask |-> a, reply |-> n])
      BY <2>2, <2>3, <2>4, Appends DEF Base, TITypeOK
    <2>6. UNCHANGED outcome
      BY <1>4 DEF ReplyTo, runtimeVars
    <2>7. /\ \A h \in DOMAIN replies' : replies'[h] # i
          /\ \A p \in DOMAIN toExt' : toExt'[p].ask # i
      BY <1>1, <2>3, <2>5 DEF Adds
    <2> QED BY <1>1, <1>4, <2>6, <2>7, UnseenKept, ShrinkEffect
  <1>5. ASSUME NEW k \in AskKind, DropsRecord(k) PROVE Unseen(i)'
    <2>1. UNCHANGED <<outcome, replies>>
      BY <1>5 DEF DropsRecord, runtimeVars
    <2>2. \A p \in DOMAIN toExt' : toExt'[p].ask # i
      <3>1. CASE UNCHANGED toExt
        BY <1>1, <3>1
      <3>2. CASE toExt' = Append(toExt, [ask |-> record[k].ask, reply |-> 0])
        <4>1. record[k].ask \in Ask /\ record[k].ask # i
          BY <1>1, <1>5, Facts DEF DropsRecord, Base, RefInv
        <4>2. [ask |-> record[k].ask, reply |-> 0] \in Submission
          BY <4>1, ThreadAssumption DEF Submission
        <4>3. Adds(toExt, toExt', [ask |-> record[k].ask, reply |-> 0])
          BY <3>2, <4>2, Appends DEF Base, TITypeOK
        <4> QED BY <1>1, <4>1, <4>3 DEF Adds
      <3> QED BY <1>5, <3>1, <3>2 DEF DropsRecord
    <2> QED BY <1>1, <1>5, <2>1, <2>2, UnseenKept, ShrinkEffect
  <1>6. ASSUME NEW j \in Raised, AnswerInApp(j) PROVE Unseen(i)'
    <2>1. outcome' = [outcome EXCEPT ![j] = "app"] /\ UNCHANGED <<toExt, record, replies>>
      BY <1>6 DEF AnswerInApp, channelVars, serviceVars
    <2>2. outcome'[i] \notin {"teams", "offline"}
      BY <1>1, <2>1 DEF Base, TITypeOK
    <2> QED BY <1>1, <2>1, <2>2, UnseenKept, ShrinkEffect
  <1>7. ASSUME NEW j \in Raised, Complete(j) PROVE Unseen(i)'
    <2>1. UNCHANGED <<outcome, toExt, record, replies>>
      BY <1>7, CompleteEffect
    <2> QED BY <1>1, <2>1, UnseenKept, ShrinkEffect
  <1>8. ASSUME NEW j \in Raised, PlanBodyPosted(j), j # i PROVE Unseen(i)'
    <2>1. /\ UNCHANGED <<outcome, toExt, replies>> /\ j # i /\ kind[j] = "plan"
          /\ record' = [record EXCEPT !["plan"] = Pending(j)]
      BY <1>8 DEF PlanBodyPosted, runtimeVars, channelVars, Base, RefInv
    <2>2. \A k \in AskKind : record'[k].ask # i
      BY <1>1, <2>1 DEF Pending, Base, TITypeOK
    <2> QED BY <1>1, <2>1, <2>2 DEF Unseen
  <1>9. ASSUME ExtensionReceives PROVE Unseen(i)'
    <2>1. PICK s : s = toExt[1]
      OBVIOUS
    <2>2. /\ s.ask \in Raised /\ Drops(toExt, toExt') /\ UNCHANGED <<record, replies>>
          /\ outcome' = [outcome EXCEPT ![s.ask] = SettledAs(s)] \/ UNCHANGED outcome
      BY <1>9, <2>1, ExtensionEffect
    <2>3. s.ask # i
      BY <1>1, <2>1, <2>2 DEF Drops
    <2>4. outcome'[i] = outcome[i]
      BY <2>2, <2>3 DEF Base, TITypeOK
    <2>5. \A p \in DOMAIN toExt' : toExt'[p].ask # i
      BY <1>1, <2>2 DEF Drops
    <2> QED BY <1>1, <2>2, <2>4, <2>5, UnseenKept, ShrinkEffect
  <1>10. ASSUME Undeliverable PROVE Unseen(i)'
    <2>1. PICK s : s = toExt[1]
      OBVIOUS
    <2>2. Drops(toExt, toExt') /\ UNCHANGED <<outcome, record, replies>>
      BY <1>10, <2>1, UndeliverableEffect
    <2>3. \A p \in DOMAIN toExt' : toExt'[p].ask # i
      BY <1>1, <2>2 DEF Drops
    <2> QED BY <1>1, <2>2, <2>3, UnseenKept, ShrinkEffect
  <1>11. ASSUME SlashNew PROVE Unseen(i)'
    <2>1. /\ DOMAIN toExt' = {} /\ UNCHANGED <<record, replies>>
          /\ outcome'[i] = IF outcome[i] = "open" THEN "killed" ELSE outcome[i]
      BY <1>11, SlashEffect
    <2> QED BY <1>1, <2>1, UnseenKept, ShrinkEffect
  <1>12. ASSUME MainReceives, toMain[1].type # "requested" \/ toMain[1].ask # i PROVE Unseen(i)'
    <2>1. PICK m : m = toMain[1]
      OBVIOUS
    <2>2. /\ UNCHANGED <<outcome, toExt>>
          /\ \/ m.type = "requested" /\ m.ask \in Raised /\ OnRequested(m.ask)
             \/ m.ask \in Raised /\ OnCompleted(m.ask)
             \/ /\ m.reply \in 0..Len(replies) /\ m.ok \in BOOLEAN
                /\ OnResponse(m.reply, m.ok)
      BY <1>12, <2>1, MainEffect
    <2>3. CASE m.type = "requested" /\ m.ask \in Raised /\ OnRequested(m.ask)
      <3>1. m.ask # i
        BY <1>12, <2>1, <2>3
      <3>2. \A k \in AskKind : record'[k].ask # i
        <4>1. UNCHANGED record \/ record' = [record EXCEPT ![kind[m.ask]] = Pending(m.ask)]
          BY <2>3, RequestedEffect
        <4>2. Pending(m.ask).ask # i
          BY <3>1 DEF Pending
        <4> QED BY <1>1, <4>1, <4>2 DEF Base, TITypeOK
      <3>3. UNCHANGED replies
        BY <2>3, RequestedEffect
      <3> QED BY <1>1, <2>2, <3>2, <3>3 DEF Unseen
    <2>4. CASE m.ask \in Raised /\ OnCompleted(m.ask)
      BY <1>1, <2>2, <2>4, UnseenKept, ShrinkEffect, CompletedEffect
    <2>5. CASE /\ m.reply \in 0..Len(replies) /\ m.ok \in BOOLEAN
               /\ OnResponse(m.reply, m.ok)
      <3>1. m.reply \in Nat
        BY <2>5, Facts DEF Base
      <3>2. UNCHANGED replies /\ (UNCHANGED record \/ Settlement(m.reply, m.ok))
        BY <2>5, <3>1, ResponseEffect
      <3> QED BY <1>1, <2>2, <3>2, UnseenKept, ShrinkEffect
    <2> QED BY <2>2, <2>3, <2>4, <2>5
  <1>13. ASSUME NEW n \in flying, RequestTimesOut(n) PROVE Unseen(i)'
    <2>1. UNCHANGED <<outcome, toExt, replies>> /\ Settlement(n, FALSE)
      BY <1>13, TimeoutEffect
    <2> QED BY <1>1, <2>1, UnseenKept, ShrinkEffect
  <1> QED BY <1>2, <1>3, <1>4, <1>5, <1>6, <1>7, <1>8, <1>9, <1>10, <1>11, <1>12, <1>13

LEMMA AddsExtend ==
  ASSUME NEW e, Adds(toMain, toMain', e), e.type # "requested"
  PROVE  Extended
  BY DEF Adds, Extended

LEMMA ExtendedEffect ==
  ASSUME Base
  PROVE  /\ UNCHANGED toMain => Extended
         /\ \A i \in Raised : Complete(i) => Extended
         /\ ExtensionReceives \/ Undeliverable \/ SlashNew => Extended
  <1>1. UNCHANGED toMain => Extended
    BY DEF Extended
  <1>2. ASSUME NEW i \in Raised, Complete(i) PROVE Extended
    <2>1. Adds(toMain, toMain', Completed(i))
      BY <1>2, CompleteEffect
    <2> QED BY <2>1, AddsExtend DEF Completed, EventOf
  <1>3. ASSUME ExtensionReceives \/ Undeliverable PROVE Extended
    <2>1. PICK s : s = toExt[1]
      OBVIOUS
    <2>2. PICK ok \in BOOLEAN : Adds(toMain, toMain', Response(s.reply, ok))
      BY <1>3, <2>1, ExtensionEffect, UndeliverableEffect
    <2> QED BY <2>2, AddsExtend DEF Response
  <1>4. ASSUME SlashNew PROVE Extended
    BY <1>4, SlashEffect DEF Extended, Response
  <1> QED BY <1>1, <1>2, <1>3, <1>4

LEMMA FreshExtended ==
  ASSUME Base, Base', FreshInv, Extended, posting' \subseteq posting,
         \A i \in Raised : Unseen(i) /\ (i \in posting' \/ i \notin posting) => Unseen(i)'
  PROVE  FreshInv'
  <1>1. posting \subseteq Raised
    BY DEF Base, TITypeOK
  <1>2. \A i \in posting' : Unseen(i)'
    BY <1>1 DEF FreshInv
  <1>3. ASSUME NEW p \in DOMAIN toMain', toMain'[p].type = "requested", NEW i, i = toMain'[p].ask
        PROVE  /\ Unseen(i)' /\ i \notin posting'
               /\ \A q \in DOMAIN toMain' :
                     toMain'[q].type # "response" /\ toMain'[q].ask = i => p <= q
    <2>1. p \in DOMAIN toMain /\ toMain'[p] = toMain[p]
      BY <1>3 DEF Extended
    <2>2. i \in Raised /\ Unseen(i) /\ i \notin posting
      BY <1>3, <2>1 DEF FreshInv, Base, RefInv
    <2>3. Unseen(i)' /\ i \notin posting'
      BY <2>2
    <2>4. ASSUME NEW q \in DOMAIN toMain', toMain'[q].type # "response", toMain'[q].ask = i
          PROVE  p <= q
      <3>1. CASE q \in DOMAIN toMain
        BY <1>3, <2>1, <2>4, <3>1 DEF FreshInv, Extended
      <3>2. CASE q \notin DOMAIN toMain
        <4>1. p < q
          BY <2>1, <3>2 DEF Extended
        <4>2. p \in Nat /\ q \in Nat
          <5>1. toMain \in Seq(Message) /\ toMain' \in Seq(Message)
            BY DEF Base, TITypeOK
          <5> QED BY <2>1, <5>1
        <4> QED BY <4>1, <4>2
      <3> QED BY <3>1, <3>2
    <2> QED BY <2>3, <2>4
  <1> QED BY <1>2, <1>3 DEF FreshInv

LEMMA FreshStep ==
  ASSUME Base, Base', FreshInv, TINext \/ UNCHANGED tiVars
  PROVE  FreshInv'
  <1>1. posting \subseteq Raised /\ DOMAIN toMain \subseteq Nat
    BY Facts DEF Base, TITypeOK
  <1>2. ASSUME NEW k \in AskKind, Raise(k) PROVE FreshInv'
    <2>1. PICK i : i = Len(kind) + 1
      OBVIOUS
    <2>2. /\ i \notin Raised /\ i \in Ask /\ Adds(toMain, toMain', Requested(i)) /\ outcome'[i] = "open"
          /\ UNCHANGED <<record, toExt, replies, posting>>
      BY <1>2, <2>1, RaiseEffect
    <2>3. \A j \in Raised : Unseen(j) => Unseen(j)'
      BY <1>2, UnseenStep
    <2>4. Unseen(i)'
      <3>1. i # NoAsk
        BY <2>2, Facts DEF Base
      <3> QED BY <2>2, <3>1 DEF Unseen, Base, RefInv
    <2>5. i \notin posting' /\ \A j \in posting' : Unseen(j)'
      BY <1>1, <2>2, <2>3 DEF FreshInv
    <2>6. ASSUME NEW p \in DOMAIN toMain', toMain'[p].type = "requested", NEW j, j = toMain'[p].ask
          PROVE  /\ Unseen(j)' /\ j \notin posting'
                 /\ \A q \in DOMAIN toMain' :
                       toMain'[q].type # "response" /\ toMain'[q].ask = j => p <= q
      <3>1. \A q \in DOMAIN toMain : toMain[q].type # "response" => toMain[q].ask \in Raised
        BY DEF Base, RefInv
      <3>2. CASE p \in DOMAIN toMain
        <4>1. j \in Raised /\ Unseen(j) /\ j \notin posting /\ toMain'[p] = toMain[p]
          BY <2>2, <2>6, <3>1, <3>2 DEF FreshInv, Adds
        <4>2. ASSUME NEW q \in DOMAIN toMain', toMain'[q].type # "response", toMain'[q].ask = j
              PROVE  p <= q
          <5>1. q \in DOMAIN toMain /\ toMain'[q] = toMain[q]
            BY <2>2, <4>1, <4>2 DEF Adds, Requested, EventOf
          <5> QED BY <2>6, <3>2, <4>1, <4>2, <5>1 DEF FreshInv
        <4> QED BY <2>2, <2>3, <4>1, <4>2
      <3>3. CASE p = Len(toMain) + 1
        <4>1. j = i
          BY <2>2, <2>6, <3>3 DEF Adds, Requested, EventOf
        <4>2. ASSUME NEW q \in DOMAIN toMain', toMain'[q].type # "response", toMain'[q].ask = j
              PROVE  q = p
          BY <2>2, <3>1, <3>3, <4>1, <4>2 DEF Adds
        <4>3. p \in Nat
          BY <3>3 DEF Base, TITypeOK
        <4> QED BY <2>4, <2>5, <4>1, <4>2, <4>3
      <3> QED BY <2>2, <3>2, <3>3 DEF Adds
    <2> QED BY <2>5, <2>6 DEF FreshInv
  <1>3. ASSUME NEW j \in Raised, PlanBodyPosted(j) PROVE FreshInv'
    <2>1. j \in posting /\ posting' = posting \ {j} /\ UNCHANGED toMain
      BY <1>3 DEF PlanBodyPosted, channelVars
    <2>2. Extended
      BY <2>1, ExtendedEffect
    <2>3. \A i \in Raised : Unseen(i) /\ i # j => Unseen(i)'
      BY <1>3, UnseenStep
    <2> QED BY <2>1, <2>2, <2>3, FreshExtended
  <1>4. CASE MainReceives
    <2>1. PICK m : m = toMain[1]
      OBVIOUS
    <2>2. /\ Drops(toMain, toMain')
          /\ \/ m.type = "requested" /\ m.ask \in Raised /\ OnRequested(m.ask)
             \/ m.type = "completed" /\ m.ask \in Raised /\ OnCompleted(m.ask)
             \/ /\ m.type = "response" /\ m.reply \in 0..Len(replies) /\ m.ok \in BOOLEAN
                /\ OnResponse(m.reply, m.ok)
      BY <1>4, <2>1, MainEffect
    <2>3. ASSUME NEW i \in Raised, Unseen(i), m.type # "requested" \/ m.ask # i PROVE Unseen(i)'
      BY <1>4, <2>1, <2>3, UnseenStep
    <2>4. \/ posting' = posting
          \/ m.type = "requested" /\ posting' = posting \cup {m.ask} /\ UNCHANGED record
      BY <2>2, RequestedEffect DEF OnCompleted, OnResponse
    <2>5. \A i \in posting : m.type # "requested" \/ m.ask # i
      BY <2>1, <2>2 DEF FreshInv, Drops
    <2>6. ASSUME m.type = "requested", posting' = posting \cup {m.ask}, UNCHANGED record
          PROVE  Unseen(m.ask)'
      <3>1. Unseen(m.ask)
        BY <2>1, <2>2, <2>6 DEF FreshInv, Drops
      <3>2. UNCHANGED <<outcome, toExt, replies>>
        BY <1>4, <2>1, <2>2, <2>6, MainEffect, RequestedEffect
      <3> QED BY <2>6, <3>1, <3>2 DEF Unseen
    <2>7. \A i \in posting' : Unseen(i)'
      <3>1. \A i \in posting : Unseen(i)'
        BY <1>1, <2>3, <2>5 DEF FreshInv
      <3> QED BY <2>4, <2>6, <3>1
    <2>8. ASSUME NEW p \in DOMAIN toMain', toMain'[p].type = "requested", NEW i, i = toMain'[p].ask
          PROVE  /\ Unseen(i)' /\ i \notin posting'
                 /\ \A q \in DOMAIN toMain' :
                       toMain'[q].type # "response" /\ toMain'[q].ask = i => p <= q
      <3>1. p >= 1 /\ p \in Nat /\ p + 1 \in DOMAIN toMain /\ toMain[p + 1] = toMain'[p] /\ 1 \in DOMAIN toMain
        BY <2>2 DEF Drops
      <3>2. i \in Raised /\ Unseen(i) /\ i \notin posting
        BY <2>8, <3>1 DEF FreshInv, Base, RefInv
      <3>3. \A q \in DOMAIN toMain : toMain[q].type # "response" /\ toMain[q].ask = i => p + 1 <= q
        BY <2>8, <3>1 DEF FreshInv
      <3>4. m.type # "requested" \/ m.ask # i
        BY <2>1, <3>1, <3>3
      <3>5. Unseen(i)' /\ i \notin posting'
        BY <2>3, <2>4, <3>2, <3>4
      <3>6. ASSUME NEW q \in DOMAIN toMain', toMain'[q].type # "response", toMain'[q].ask = i
            PROVE  p <= q
        <4>1. q \in Nat /\ q + 1 \in DOMAIN toMain /\ toMain[q + 1] = toMain'[q]
          BY <2>2 DEF Drops
        <4>2. p + 1 <= q + 1
          BY <3>3, <3>6, <4>1
        <4> QED BY <3>1, <4>1, <4>2
      <3> QED BY <3>5, <3>6
    <2> QED BY <2>7, <2>8 DEF FreshInv
  <1>5. CASE \/ Idle \/ ExtensionReceives \/ Undeliverable \/ SlashNew
             \/ \E k \in AskKind : ReplyTo(k) \/ DropsRecord(k)
             \/ \E j \in Raised : AnswerInApp(j) \/ Complete(j)
             \/ \E n \in flying : RequestTimesOut(n)
    <2>1. \A i \in Raised : Unseen(i) => Unseen(i)'
      BY <1>5, UnseenStep
    <2>2. UNCHANGED posting
      BY <1>5 DEF Idle, ExtensionReceives, Undeliverable, SlashNew, ReplyTo, DropsRecord, AnswerInApp,
                  Complete, RequestTimesOut, serviceVars
    <2>3. CASE ExtensionReceives \/ Undeliverable \/ SlashNew \/ \E j \in Raised : Complete(j)
      BY <2>1, <2>2, <2>3, ExtendedEffect, FreshExtended
    <2>4. CASE \/ Idle
               \/ \E k \in AskKind : ReplyTo(k) \/ DropsRecord(k)
               \/ \E j \in Raised : AnswerInApp(j)
               \/ \E n \in flying : RequestTimesOut(n)
      <3>1. UNCHANGED toMain
        BY <2>4 DEF Idle, ReplyTo, DropsRecord, AnswerInApp, RequestTimesOut, channelVars
      <3> QED BY <2>1, <2>2, <3>1, ExtendedEffect, FreshExtended
    <2> QED BY <1>5, <2>3, <2>4
  <1> QED BY <1>2, <1>3, <1>4, <1>5, Steps

-----------------------------------------------------------------------------
(* Replies on their way.                                                   *)

(* A submission leaves the extension's channel as an answer to it. *)
LEMMA FlightAnswered ==
  ASSUME Base, FlightInv, NEW s, s = toExt[1], Drops(toExt, toExt'), NEW ok \in BOOLEAN,
         Adds(toMain, toMain', Response(s.reply, ok)), UNCHANGED <<flying, timeouts>>
  PROVE  FlightInv'
  <1>1. PICK n, e : n = s.reply /\ e = Len(toMain) + 1
    OBVIOUS
  <1>2. toMain'[e].type = "response" /\ toMain'[e].reply = n
    BY <1>1 DEF Adds, Response
  <1>3. \A p, q \in DOMAIN toExt' : toExt'[p].reply # 0 /\ toExt'[p].reply = toExt'[q].reply => p = q
    <2>1. ASSUME NEW p \in DOMAIN toExt', NEW q \in DOMAIN toExt',
                 toExt'[p].reply # 0, toExt'[p].reply = toExt'[q].reply
          PROVE  p = q
      <3>1. p + 1 \in DOMAIN toExt /\ q + 1 \in DOMAIN toExt /\ toExt[p + 1] = toExt'[p]
            /\ toExt[q + 1] = toExt'[q] /\ p \in Nat /\ q \in Nat
        BY DEF Drops
      <3>2. p + 1 = q + 1
        BY <2>1, <3>1 DEF FlightInv
      <3> QED BY <3>1, <3>2
    <2> QED BY <2>1
  <1>4. \A p \in DOMAIN toExt' : toExt'[p].reply # 0 => toExt'[p].reply # n
    <2>1. ASSUME NEW p \in DOMAIN toExt', toExt'[p].reply # 0, toExt'[p].reply = n PROVE FALSE
      <3>1. p + 1 \in DOMAIN toExt /\ toExt[p + 1] = toExt'[p] /\ p \in Nat /\ p >= 1 /\ 1 \in DOMAIN toExt
        BY DEF Drops
      <3>2. p + 1 = 1
        BY <1>1, <2>1, <3>1 DEF FlightInv
      <3> QED BY <3>1, <3>2
    <2> QED BY <2>1
  <1>5. \A q \in DOMAIN toMain : toMain[q].type = "response" /\ toMain[q].reply # 0 => toMain[q].reply # n
    BY <1>1 DEF FlightInv, Drops
  <1>6. ASSUME NEW p \in DOMAIN toMain', NEW q \in DOMAIN toMain',
               toMain'[p].type = "response", toMain'[q].type = "response",
               toMain'[p].reply # 0, toMain'[p].reply = toMain'[q].reply
        PROVE  p = q
    BY <1>1, <1>2, <1>5, <1>6 DEF FlightInv, Adds
  <1>7. ASSUME NEW p \in DOMAIN toExt', NEW q \in DOMAIN toMain',
               toMain'[q].type = "response", toMain'[q].reply # 0
        PROVE  toExt'[p].reply # toMain'[q].reply
    <2>1. p + 1 \in DOMAIN toExt /\ toExt[p + 1] = toExt'[p]
      BY DEF Drops
    <2>2. CASE q \in DOMAIN toMain
      BY <1>7, <2>1, <2>2 DEF FlightInv, Adds
    <2>3. CASE q = e
      BY <1>2, <1>4, <1>7, <2>3
    <2> QED BY <1>1, <2>2, <2>3 DEF Adds
  <1>8. ASSUME NEW h \in flying
        PROVE  \/ \E p \in DOMAIN toExt' : toExt'[p].reply = h
               \/ \E p \in DOMAIN toMain' : Responds(toMain'[p], h)
    <2>1. CASE \E p \in DOMAIN toMain : Responds(toMain[p], h)
      BY <2>1 DEF Adds
    <2>2. ASSUME NEW p \in DOMAIN toExt, toExt[p].reply = h
          PROVE  \/ \E q \in DOMAIN toExt' : toExt'[q].reply = h
                 \/ \E q \in DOMAIN toMain' : Responds(toMain'[q], h)
      <3>1. CASE p = 1
        BY <1>1, <1>2, <2>2, <3>1 DEF Adds, Responds
      <3>2. CASE p # 1
        BY <2>2, <3>2 DEF Drops
      <3> QED BY <3>1, <3>2
    <2> QED BY <2>1, <2>2 DEF FlightInv
  <1>9. timeouts = 0 => \A p \in DOMAIN toExt' : toExt'[p].reply # 0 => toExt'[p].reply \in flying
    BY DEF FlightInv, Drops
  <1> QED BY <1>3, <1>6, <1>7, <1>8, <1>9 DEF FlightInv

LEMMA FlightFrame ==
  ASSUME FlightInv, UNCHANGED <<toExt, flying, timeouts>>,
         UNCHANGED toMain \/ \E e : e.type # "response" /\ Adds(toMain, toMain', e)
  PROVE  FlightInv'
  <1>1. CASE UNCHANGED toMain
    BY <1>1 DEF FlightInv
  <1>2. ASSUME NEW e, e.type # "response", Adds(toMain, toMain', e) PROVE FlightInv'
    <2>1. \A p \in DOMAIN toMain' : toMain'[p].type = "response" => p \in DOMAIN toMain
      BY <1>2 DEF Adds
    <2>2. /\ \A p \in DOMAIN toMain : toMain'[p] = toMain[p]
          /\ DOMAIN toMain \subseteq DOMAIN toMain'
      BY <1>2 DEF Adds
    <2>3. \A n \in flying : \/ \E p \in DOMAIN toExt : toExt[p].reply = n
                            \/ \E p \in DOMAIN toMain' : Responds(toMain'[p], n)
      BY <2>2 DEF FlightInv
    <2> QED BY <2>1, <2>2, <2>3 DEF FlightInv
  <1> QED BY <1>1, <1>2

(* A new submission; if it is for a reply, it is awaited. *)
LEMMA FlightSubmits ==
  ASSUME Base, FlightInv, NEW a, NEW n, Adds(toExt, toExt', [ask |-> a, reply |-> n]),
         UNCHANGED <<toMain, timeouts>>,
         \/ n = 0 /\ UNCHANGED flying
         \/ n = Len(replies) + 1 /\ flying' = flying \cup {n}
  PROVE  FlightInv'
  <1>1. PICK e : e = Len(toExt) + 1
    OBVIOUS
  <1>2. toExt'[e].reply = n
    BY <1>1 DEF Adds
  <1>3. n # 0 => n \notin DOMAIN replies /\ n \notin 0..Len(replies)
    BY Facts DEF Base
  <1>4. /\ \A p \in DOMAIN toExt : toExt[p].reply # 0 => toExt[p].reply # n
        /\ \A p \in DOMAIN toMain : toMain[p].type = "response" /\ toMain[p].reply # 0 => toMain[p].reply # n
    BY <1>3 DEF Base, RefInv
  <1>5. \A p, q \in DOMAIN toExt' : toExt'[p].reply # 0 /\ toExt'[p].reply = toExt'[q].reply => p = q
    BY <1>1, <1>2, <1>4 DEF FlightInv, Adds
  <1>6. ASSUME NEW p \in DOMAIN toExt', NEW q \in DOMAIN toMain,
               toMain[q].type = "response", toMain[q].reply # 0
        PROVE  toExt'[p].reply # toMain[q].reply
    BY <1>1, <1>2, <1>4, <1>6 DEF FlightInv, Adds
  <1>7. ASSUME NEW h \in flying'
        PROVE  \/ \E p \in DOMAIN toExt' : toExt'[p].reply = h
               \/ \E p \in DOMAIN toMain : Responds(toMain[p], h)
    <2>1. CASE h \in flying
      BY <2>1 DEF FlightInv, Adds
    <2>2. CASE h \notin flying
      BY <1>1, <1>2, <1>7, <2>2 DEF Adds
    <2> QED BY <2>1, <2>2
  <1>8. timeouts = 0 => \A p \in DOMAIN toExt' : toExt'[p].reply # 0 => toExt'[p].reply \in flying'
    BY <1>1, <1>2 DEF FlightInv, Adds
  <1> QED BY <1>5, <1>6, <1>7, <1>8 DEF FlightInv

LEMMA FlightSlash ==
  ASSUME Base, FlightInv, SlashNew
  PROVE  FlightInv'
  <1>1. /\ DOMAIN toExt' = {} /\ UNCHANGED <<flying, timeouts>> /\ DOMAIN toMain \subseteq DOMAIN toMain'
        /\ \A p \in DOMAIN toMain : toMain'[p] = toMain[p]
        /\ Len(toMain) \in Nat /\ DOMAIN toExt \subseteq Nat /\ DOMAIN toMain' \subseteq Nat
    <2>1. toMain' \in Seq(Message)
      BY SlashEffect
    <2> QED BY <2>1, SlashEffect, Facts DEF Base
  <1>2. ASSUME NEW p \in DOMAIN toMain', p \notin DOMAIN toMain
        PROVE  /\ p - Len(toMain) \in DOMAIN toExt
               /\ toMain'[p].reply = toExt[p - Len(toMain)].reply
    BY <1>2, SlashEffect DEF Response
  <1>3. ASSUME NEW q \in DOMAIN toExt
        PROVE  q + Len(toMain) \in DOMAIN toMain' /\ Responds(toMain'[q + Len(toMain)], toExt[q].reply)
    <2>1. /\ q + Len(toMain) \in DOMAIN toMain'
          /\ toMain'[q + Len(toMain)] = Response(toExt[q].reply, FALSE)
      BY SlashEffect
    <2> QED BY <2>1 DEF Response, Responds
  <1>4. ASSUME NEW p \in DOMAIN toMain', NEW q \in DOMAIN toMain',
               toMain'[p].type = "response", toMain'[q].type = "response",
               toMain'[p].reply # 0, toMain'[p].reply = toMain'[q].reply
        PROVE  p = q
    <2>1. CASE p \in DOMAIN toMain /\ q \in DOMAIN toMain
      BY <1>1, <1>4, <2>1 DEF FlightInv
    <2>2. CASE p \in DOMAIN toMain /\ q \notin DOMAIN toMain
      BY <1>1, <1>2, <1>4, <2>2 DEF FlightInv
    <2>3. CASE p \notin DOMAIN toMain /\ q \in DOMAIN toMain
      BY <1>1, <1>2, <1>4, <2>3 DEF FlightInv
    <2>4. CASE p \notin DOMAIN toMain /\ q \notin DOMAIN toMain
      <3>1. p - Len(toMain) = q - Len(toMain)
        BY <1>2, <1>4, <2>4 DEF FlightInv
      <3> QED BY <1>1, <3>1
    <2> QED BY <2>1, <2>2, <2>3, <2>4
  <1>5. ASSUME NEW n \in flying PROVE \E p \in DOMAIN toMain' : Responds(toMain'[p], n)
    <2>1. CASE \E p \in DOMAIN toMain : Responds(toMain[p], n)
      BY <1>1, <2>1
    <2>2. CASE \E p \in DOMAIN toExt : toExt[p].reply = n
      BY <1>3, <2>2
    <2> QED BY <2>1, <2>2 DEF FlightInv
  <1> QED BY <1>1, <1>4, <1>5 DEF FlightInv

LEMMA FlightMain ==
  ASSUME Base, FlightInv, MainReceives
  PROVE  FlightInv'
  <1>1. PICK m : m = toMain[1]
    OBVIOUS
  <1>2. /\ Drops(toMain, toMain') /\ UNCHANGED <<toExt, timeouts>>
        /\ \/ m.type = "requested" /\ m.ask \in Raised /\ OnRequested(m.ask)
           \/ m.type = "completed" /\ m.ask \in Raised /\ OnCompleted(m.ask)
           \/ m.type = "response" /\ OnResponse(m.reply, m.ok)
    BY <1>1, MainEffect
  <1>3. flying' = IF m.type = "response" THEN flying \ {m.reply} ELSE flying
    BY <1>2, RequestedEffect, CompletedEffect DEF OnResponse
  <1>4. ASSUME NEW p \in DOMAIN toMain', NEW q \in DOMAIN toMain',
               toMain'[p].type = "response", toMain'[q].type = "response",
               toMain'[p].reply # 0, toMain'[p].reply = toMain'[q].reply
        PROVE  p = q
    <2>1. p + 1 \in DOMAIN toMain /\ q + 1 \in DOMAIN toMain /\ toMain[p + 1] = toMain'[p]
          /\ toMain[q + 1] = toMain'[q] /\ p \in Nat /\ q \in Nat
      BY <1>2 DEF Drops
    <2>2. p + 1 = q + 1
      BY <1>4, <2>1 DEF FlightInv
    <2> QED BY <2>1, <2>2
  <1>5. \A p \in DOMAIN toExt, q \in DOMAIN toMain' :
            toMain'[q].type = "response" /\ toMain'[q].reply # 0 => toExt[p].reply # toMain'[q].reply
    BY <1>2 DEF FlightInv, Drops
  <1>6. ASSUME NEW n \in flying'
        PROVE  \/ \E p \in DOMAIN toExt : toExt[p].reply = n
               \/ \E p \in DOMAIN toMain' : Responds(toMain'[p], n)
    <2>1. n \in flying /\ ~Responds(m, n)
      BY <1>3 DEF Responds
    <2>2. ASSUME NEW p \in DOMAIN toMain, Responds(toMain[p], n)
          PROVE  \E q \in DOMAIN toMain' : Responds(toMain'[q], n)
      <3>1. p # 1
        BY <1>1, <2>1, <2>2
      <3> QED BY <1>2, <2>2, <3>1 DEF Drops
    <2> QED BY <2>1, <2>2 DEF FlightInv
  <1>7. timeouts = 0 => \A p \in DOMAIN toExt : toExt[p].reply # 0 => toExt[p].reply \in flying'
    <2>1. 0 \notin flying /\ 1 \in DOMAIN toMain
      BY <1>2, Facts DEF Base, TITypeOK, Drops
    <2>2. \A p \in DOMAIN toExt : toExt[p].reply # 0 /\ m.type = "response" => toExt[p].reply # m.reply
      BY <1>1, <2>1 DEF FlightInv
    <2> QED BY <1>3, <2>2 DEF FlightInv
  <1> QED BY <1>2, <1>4, <1>5, <1>6, <1>7 DEF FlightInv

LEMMA FlightStep ==
  ASSUME Base, FlightInv, TINext \/ UNCHANGED tiVars
  PROVE  FlightInv'
  <1>1. CASE Idle \/ \E i \in Raised : AnswerInApp(i) \/ PlanBodyPosted(i)
    <2>1. UNCHANGED <<toExt, toMain, flying, timeouts>>
      BY <1>1 DEF Idle, AnswerInApp, PlanBodyPosted, channelVars, serviceVars, countVars
    <2> QED BY <2>1, FlightFrame
  <1>2. ASSUME NEW k \in AskKind, Raise(k) PROVE FlightInv'
    <2>1. PICK i : i = Len(kind) + 1
      OBVIOUS
    <2>2. Adds(toMain, toMain', Requested(i)) /\ UNCHANGED <<toExt, flying, timeouts>>
      BY <1>2, <2>1, RaiseEffect
    <2>3. Requested(i).type # "response"
      BY DEF Requested, EventOf
    <2> QED BY <2>2, <2>3, FlightFrame
  <1>3. ASSUME NEW i \in Raised, Complete(i) PROVE FlightInv'
    <2>1. Adds(toMain, toMain', Completed(i)) /\ UNCHANGED <<toExt, flying, timeouts>>
      BY <1>3, CompleteEffect
    <2>2. Completed(i).type # "response"
      BY DEF Completed, EventOf
    <2> QED BY <2>1, <2>2, FlightFrame
  <1>4. ASSUME NEW k \in AskKind, ReplyTo(k) PROVE FlightInv'
    <2>1. PICK a, n : a = record[k].ask /\ n = Len(replies) + 1
      OBVIOUS
    <2>2. /\ toExt' = Append(toExt, [ask |-> a, reply |-> n]) /\ flying' = flying \cup {n}
          /\ UNCHANGED <<toMain, timeouts>>
      BY <1>4, <2>1 DEF ReplyTo, countVars
    <2>3. a \in Ask /\ n \in 0..MaxReplies
      BY <1>4, <2>1, Facts, ThreadAssumption DEF ReplyTo, Base, RefInv
    <2>4. [ask |-> a, reply |-> n] \in Submission
      BY <2>3 DEF Submission
    <2>5. Adds(toExt, toExt', [ask |-> a, reply |-> n])
      BY <2>2, <2>4, Appends DEF Base, TITypeOK
    <2> QED BY <2>1, <2>2, <2>5, FlightSubmits
  <1>5. ASSUME NEW k \in AskKind, DropsRecord(k) PROVE FlightInv'
    <2>1. UNCHANGED <<toMain, flying, timeouts>>
      BY <1>5 DEF DropsRecord, countVars
    <2>2. CASE UNCHANGED toExt
      BY <2>1, <2>2, FlightFrame
    <2>3. CASE toExt' = Append(toExt, [ask |-> record[k].ask, reply |-> 0])
      <3>1. record[k].ask \in Ask
        BY <1>5, Facts DEF DropsRecord, Base, RefInv
      <3>2. [ask |-> record[k].ask, reply |-> 0] \in Submission
        BY <3>1, ThreadAssumption DEF Submission
      <3>3. Adds(toExt, toExt', [ask |-> record[k].ask, reply |-> 0])
        BY <2>3, <3>2, Appends DEF Base, TITypeOK
      <3> QED BY <2>1, <3>3, FlightSubmits
    <2> QED BY <1>5, <2>2, <2>3 DEF DropsRecord
  <1>6. CASE ExtensionReceives \/ Undeliverable
    <2>1. PICK s : s = toExt[1]
      OBVIOUS
    <2>2. /\ Drops(toExt, toExt') /\ UNCHANGED <<flying, timeouts>>
          /\ \E ok \in BOOLEAN : Adds(toMain, toMain', Response(s.reply, ok))
      BY <1>6, <2>1, ExtensionEffect, UndeliverableEffect
    <2> QED BY <2>1, <2>2, FlightAnswered
  <1>7. ASSUME NEW n \in flying, RequestTimesOut(n) PROVE FlightInv'
    <2>1. UNCHANGED <<toExt, toMain>> /\ flying' = flying \ {n} /\ timeouts' # 0
      BY <1>7, TimeoutEffect DEF Settlement
    <2> QED BY <2>1 DEF FlightInv
  <1> QED BY <1>1, <1>2, <1>3, <1>4, <1>5, <1>6, <1>7, FlightSlash, FlightMain, Steps

-----------------------------------------------------------------------------
(* Latches.                                                                *)

LEMMA Awaited ==
  ASSUME Base
  PROVE  /\ \A n \in flying : /\ n \in DOMAIN replies /\ replies[n] \in Raised /\ replies[n] # NoAsk
                              /\ kind[replies[n]] \in AskKind
         /\ record \in [AskKind -> Rec]
         /\ \A k \in AskKind : record[k].ask # NoAsk => record[k].ask \in Raised /\ kind[record[k].ask] = k
  BY Facts DEF Base, TITypeOK, RefInv, Rec

LEMMA LatchRemoves ==
  ASSUME Base, LatchInv, NEW k \in AskKind, record' = [record EXCEPT ![k] = NoRecord],
         UNCHANGED <<kind, replies, flying>>
  PROVE  LatchInv'
  BY Awaited DEF LatchInv, OneReplyAtATime, NoRecord

LEMMA LatchMakes ==
  ASSUME Base, LatchInv, NEW i \in Raised, Unseen(i), record' = [record EXCEPT ![kind[i]] = Pending(i)],
         UNCHANGED <<kind, replies, flying>>
  PROVE  LatchInv'
  <1>1. \A n \in flying : replies[n] # i
    BY Awaited DEF Unseen
  <1> QED BY <1>1, Awaited DEF LatchInv, OneReplyAtATime, Pending

LEMMA LatchSettles ==
  ASSUME Base, LatchInv, NEW n \in flying, NEW ok, Settlement(n, ok), UNCHANGED <<kind, replies>>
  PROVE  LatchInv'
  <1>1. PICK i, k : i = replies[n] /\ k = kind[i]
    OBVIOUS
  <1>2. /\ i \in Raised /\ i # NoAsk /\ k \in AskKind /\ flying' = flying \ {n}
        /\ \A j \in AskKind : j # k => record'[j] = record[j]
        /\ \/ record'[k] = NoRecord
           \/ record[k].ask = i /\ record'[k] = Pending(i)
           \/ record[k].ask # i /\ UNCHANGED record
    BY <1>1, Awaited DEF Settlement
  <1>3. OneReplyAtATime'
    BY <1>2 DEF LatchInv, OneReplyAtATime
  <1>4. ASSUME NEW m \in flying', record'[kind[replies[m]]].ask = replies[m]
        PROVE  record'[kind[replies[m]]].latched
    <2>1. m \in flying /\ m # n /\ replies[m] # i /\ replies[m] # NoAsk /\ kind[replies[m]] \in AskKind
      BY <1>1, <1>2, Awaited DEF LatchInv, OneReplyAtATime
    <2>2. CASE kind[replies[m]] = k
      BY <1>2, <1>4, <2>1, <2>2 DEF LatchInv, NoRecord, Pending
    <2>3. CASE kind[replies[m]] # k
      BY <1>2, <1>4, <2>1, <2>3 DEF LatchInv
    <2> QED BY <2>2, <2>3
  <1>5. ASSUME NEW j \in AskKind, record'[j].ask # NoAsk, record'[j].latched
        PROVE  \E m \in flying' : replies[m] = record'[j].ask
    <2>1. record'[j] = record[j] /\ record[j].ask # i
      <3>1. CASE j = k
        BY <1>2, <1>5, <3>1 DEF NoRecord, Pending
      <3>2. CASE j # k
        BY <1>1, <1>2, <1>5, <3>2, Awaited
      <3> QED BY <3>1, <3>2
    <2>2. PICK m \in flying : replies[m] = record[j].ask
      BY <1>5, <2>1 DEF LatchInv
    <2> QED BY <1>1, <1>2, <2>1, <2>2
  <1> QED BY <1>3, <1>4, <1>5 DEF LatchInv

LEMMA LatchStep ==
  ASSUME Base, FreshInv, LatchInv, TINext \/ UNCHANGED tiVars
  PROVE  LatchInv'
  <1>1. ASSUME NEW k \in AskKind, Raise(k) PROVE LatchInv'
    <2>1. PICK i : i = Len(kind) + 1
      OBVIOUS
    <2>2. UNCHANGED <<record, replies, flying>> /\ \A j \in Raised : kind'[j] = kind[j]
      BY <1>1, <2>1, RaiseEffect
    <2> QED BY <2>2, Awaited DEF LatchInv, OneReplyAtATime
  <1>2. CASE \/ Idle \/ ExtensionReceives \/ Undeliverable \/ SlashNew
             \/ \E i \in Raised : AnswerInApp(i) \/ Complete(i)
    <2>1. UNCHANGED kind /\ UNCHANGED serviceVars
      BY <1>2 DEF Idle, ExtensionReceives, Undeliverable, SlashNew, AnswerInApp, Complete, runtimeVars
    <2> QED BY <2>1 DEF LatchInv, OneReplyAtATime, serviceVars
  <1>3. ASSUME NEW k \in AskKind, ReplyTo(k) PROVE LatchInv'
    <2>1. PICK a, n : a = record[k].ask /\ n = Len(replies) + 1
      OBVIOUS
    <2>2. /\ a # NoAsk /\ ~record[k].latched /\ a \in Raised /\ kind[a] = k /\ UNCHANGED kind
          /\ record' = [record EXCEPT ![k].latched = TRUE]
          /\ replies' = Append(replies, a) /\ flying' = flying \cup {n}
      BY <1>3, <2>1, Awaited DEF ReplyTo, runtimeVars
    <2>3. Adds(replies, replies', a)
      BY <2>2, Facts, Appends DEF Base, TITypeOK
    <2>4. \A m \in flying : replies[m] # a
      BY <2>1, <2>2, Awaited DEF LatchInv
    <2>5. \A m \in flying' : m = n \/ (m \in flying /\ replies'[m] = replies[m])
      BY <2>2, <2>3, Awaited DEF Adds
    <2>6. replies'[n] = a
      BY <2>1, <2>3 DEF Adds
    <2>7. OneReplyAtATime'
      BY <2>4, <2>5, <2>6 DEF LatchInv, OneReplyAtATime
    <2>8. /\ \A j \in AskKind : record'[j].ask = record[j].ask
          /\ \A j \in AskKind : record'[j].latched <=> record[j].latched \/ j = k
      <3>1. ASSUME NEW r \in Rec
            PROVE  [r EXCEPT !.latched = TRUE].ask = r.ask /\ [r EXCEPT !.latched = TRUE].latched
        BY DEF Rec
      <3> QED BY <2>2, <3>1, Awaited
    <2>9. \A m \in flying' : record'[kind[replies'[m]]].ask = replies'[m] => record'[kind[replies'[m]]].latched
      <3>1. record'[kind[replies'[n]]].latched
        BY <2>2, <2>6, <2>8
      <3>2. ASSUME NEW m \in flying, replies'[m] = replies[m], record'[kind[replies[m]]].ask = replies[m]
            PROVE  record'[kind[replies[m]]].latched
        BY <2>8, <3>2, Awaited DEF LatchInv
      <3> QED BY <2>5, <3>1, <3>2
    <2>10. \A j \in AskKind : record'[j].ask # NoAsk /\ record'[j].latched =>
                \E m \in flying' : replies'[m] = record'[j].ask
      <3>1. ASSUME NEW j \in AskKind, record'[j].ask # NoAsk, record'[j].latched, j # k
            PROVE  \E m \in flying' : replies'[m] = record'[j].ask
        <4>1. PICK m \in flying : replies[m] = record[j].ask
          BY <2>8, <3>1 DEF LatchInv
        <4>2. m \in flying' /\ replies'[m] = replies[m]
          BY <2>2, <2>3, Awaited DEF Adds
        <4> QED BY <2>8, <4>1, <4>2
      <3>2. n \in flying' /\ replies'[n] = record'[k].ask
        BY <2>1, <2>2, <2>6, <2>8
      <3> QED BY <3>1, <3>2
    <2> QED BY <2>2, <2>7, <2>9, <2>10 DEF LatchInv
  <1>4. ASSUME NEW k \in AskKind, DropsRecord(k) PROVE LatchInv'
    BY <1>4, LatchRemoves DEF DropsRecord, runtimeVars
  <1>5. ASSUME NEW i \in Raised, PlanBodyPosted(i) PROVE LatchInv'
    <2>1. /\ i \in posting /\ kind[i] = "plan" /\ record' = [record EXCEPT ![kind[i]] = Pending(i)]
          /\ UNCHANGED <<kind, replies, flying>>
      BY <1>5 DEF PlanBodyPosted, Base, RefInv, runtimeVars
    <2> QED BY <2>1, LatchMakes DEF FreshInv
  <1>6. CASE MainReceives
    <2>1. PICK m : m = toMain[1]
      OBVIOUS
    <2>2. /\ UNCHANGED kind /\ 1 \in DOMAIN toMain
          /\ \/ m.type = "requested" /\ m.ask \in Raised /\ OnRequested(m.ask)
             \/ m.ask \in Raised /\ OnCompleted(m.ask)
             \/ m.reply \in 0..Len(replies) /\ m.ok \in BOOLEAN /\ OnResponse(m.reply, m.ok)
      BY <1>6, <2>1, MainEffect DEF Drops
    <2>3. CASE m.type = "requested" /\ m.ask \in Raised /\ OnRequested(m.ask)
      <3>1. Unseen(m.ask)
        BY <2>1, <2>2, <2>3 DEF FreshInv
      <3>2. /\ UNCHANGED <<replies, flying>>
            /\ UNCHANGED record \/ record' = [record EXCEPT ![kind[m.ask]] = Pending(m.ask)]
        BY <2>3, RequestedEffect
      <3>3. CASE UNCHANGED record
        BY <2>2, <3>2, <3>3 DEF LatchInv, OneReplyAtATime
      <3> QED BY <2>2, <2>3, <3>1, <3>2, <3>3, LatchMakes
    <2>4. CASE m.ask \in Raised /\ OnCompleted(m.ask)
      <3>1. /\ UNCHANGED <<replies, flying>> /\ kind[m.ask] \in AskKind
            /\ UNCHANGED record \/ record' = [record EXCEPT ![kind[m.ask]] = NoRecord]
        BY <2>4, CompletedEffect, Facts DEF Base
      <3>2. CASE UNCHANGED record
        BY <2>2, <3>1, <3>2 DEF LatchInv, OneReplyAtATime
      <3> QED BY <2>2, <3>1, <3>2, LatchRemoves
    <2>5. CASE m.reply \in 0..Len(replies) /\ m.ok \in BOOLEAN /\ OnResponse(m.reply, m.ok)
      <3>1. m.reply \in Nat
        BY <2>5, Facts DEF Base
      <3>2. /\ UNCHANGED replies
            /\ \/ UNCHANGED <<flying, record>>
               \/ m.reply \in flying /\ Settlement(m.reply, m.ok)
        BY <2>5, <3>1, ResponseEffect
      <3>3. CASE UNCHANGED <<flying, record>>
        BY <2>2, <3>2, <3>3 DEF LatchInv, OneReplyAtATime
      <3> QED BY <2>2, <3>2, <3>3, LatchSettles
    <2> QED BY <2>2, <2>3, <2>4, <2>5
  <1>7. ASSUME NEW n \in flying, RequestTimesOut(n) PROVE LatchInv'
    BY <1>7, TimeoutEffect, LatchSettles
  <1> QED BY <1>1, <1>2, <1>3, <1>4, <1>5, <1>6, <1>7, Steps

-----------------------------------------------------------------------------
(* What the thread is told.                                                *)

LEMMA OfflineShrinks ==
  ASSUME Base, OfflineInv, Shrinks,
         \A p \in DOMAIN toExt' : toExt'[p].reply = 0 =>
             \/ \E q \in DOMAIN toExt : toExt[q].reply = 0 /\ toExt[q].ask = toExt'[p].ask
             \/ \A k \in AskKind : record'[k].ask # toExt'[p].ask,
         \A i \in Raised' : outcome'[i] = "offline" =>
             \/ i \in Raised /\ outcome[i] = "offline"
             \/ \A k \in AskKind : record'[k].ask # i
  PROVE  OfflineInv'
  <1>1. NoAsk \notin Raised /\ \A q \in DOMAIN toExt : toExt[q].ask \in Raised
    BY Facts DEF Base, RefInv
  <1>2. ASSUME NEW i \in Raised, \A k \in AskKind : record[k].ask # i
        PROVE  \A k \in AskKind : record'[k].ask # i
    BY <1>1, <1>2 DEF Shrinks
  <1> QED BY <1>1, <1>2 DEF OfflineInv

LEMMA OfflineMakes ==
  ASSUME Base, OfflineInv, NEW i \in Raised, Unseen(i),
         record' = [record EXCEPT ![kind[i]] = Pending(i)], UNCHANGED <<kind, toExt, outcome>>
  PROVE  OfflineInv'
  <1>1. \A k \in AskKind : record'[k].ask \in {record[k].ask, i}
    BY Awaited DEF Pending
  <1> QED BY <1>1 DEF OfflineInv, Unseen, Raised

LEMMA OfflineStep ==
  ASSUME Base, FreshInv, OfflineInv, TINext \/ UNCHANGED tiVars
  PROVE  OfflineInv'
  <1>1. CASE \/ Idle \/ \E i \in Raised : Complete(i)
             \/ \E n \in flying : RequestTimesOut(n)
    <2>1. CASE Idle \/ \E i \in Raised : Complete(i)
      <3>1. UNCHANGED <<kind, outcome, toExt, record>>
        BY <2>1, CompleteEffect DEF Idle, runtimeVars, channelVars, serviceVars
      <3> QED BY <3>1 DEF OfflineInv, Raised
    <2>2. ASSUME NEW n \in flying, RequestTimesOut(n) PROVE OfflineInv'
      <3>1. UNCHANGED <<kind, outcome, toExt>> /\ Raised' = Raised /\ Shrinks
        BY <2>2, TimeoutEffect, ShrinkEffect DEF Raised
      <3> QED BY <3>1, OfflineShrinks
    <2> QED BY <1>1, <2>1, <2>2
  <1>2. ASSUME NEW k \in AskKind, Raise(k) PROVE OfflineInv'
    <2>1. PICK i : i = Len(kind) + 1
      OBVIOUS
    <2>2. /\ Raised' = Raised \cup {i} /\ outcome'[i] = "open" /\ UNCHANGED <<record, toExt>>
          /\ \A j \in Raised : outcome'[j] = outcome[j]
      BY <1>2, <2>1, RaiseEffect
    <2> QED BY <2>2 DEF OfflineInv
  <1>3. ASSUME NEW k \in AskKind, ReplyTo(k) PROVE OfflineInv'
    <2>1. PICK a, n : a = record[k].ask /\ n = Len(replies) + 1
      OBVIOUS
    <2>2. /\ toExt' = Append(toExt, [ask |-> a, reply |-> n]) /\ UNCHANGED <<kind, outcome>>
          /\ Shrinks /\ Raised' = Raised
      BY <1>3, <2>1, ShrinkEffect DEF ReplyTo, runtimeVars, Raised
    <2>3. a \in Ask /\ n \in 0..MaxReplies /\ n # 0
      BY <1>3, <2>1, Facts, ThreadAssumption DEF ReplyTo, Base, RefInv
    <2>4. [ask |-> a, reply |-> n] \in Submission
      BY <2>3 DEF Submission
    <2>5. Adds(toExt, toExt', [ask |-> a, reply |-> n])
      BY <2>2, <2>4, Appends DEF Base, TITypeOK
    <2>6. \A p \in DOMAIN toExt' : toExt'[p].reply = 0 =>
             \E q \in DOMAIN toExt : toExt[q].reply = 0 /\ toExt[q].ask = toExt'[p].ask
      BY <2>3, <2>5 DEF Adds
    <2> QED BY <2>2, <2>6, OfflineShrinks
  <1>4. ASSUME NEW k \in AskKind, DropsRecord(k) PROVE OfflineInv'
    <2>1. UNCHANGED <<kind, outcome>> /\ Shrinks /\ Raised' = Raised
      BY <1>4, ShrinkEffect DEF DropsRecord, runtimeVars, Raised
    <2>2. CASE UNCHANGED toExt
      BY <2>1, <2>2, OfflineShrinks
    <2>3. CASE toExt' = Append(toExt, [ask |-> record[k].ask, reply |-> 0])
      <3>1. PICK a : a = record[k].ask
        OBVIOUS
      <3>2. /\ a \in Ask /\ a # NoAsk /\ kind[a] = k /\ record' = [record EXCEPT ![k] = NoRecord]
        BY <1>4, <3>1, Facts DEF DropsRecord, Base, RefInv
      <3>3. [ask |-> a, reply |-> 0] \in Submission
        BY <3>2, ThreadAssumption DEF Submission
      <3>4. Adds(toExt, toExt', [ask |-> a, reply |-> 0])
        BY <2>3, <3>1, <3>3, Appends DEF Base, TITypeOK
      <3>5. \A j \in AskKind : record'[j].ask # a
        BY <3>1, <3>2, Awaited DEF NoRecord
      <3>6. \A p \in DOMAIN toExt' : toExt'[p].reply = 0 =>
               \/ \E q \in DOMAIN toExt : toExt[q].reply = 0 /\ toExt[q].ask = toExt'[p].ask
               \/ \A j \in AskKind : record'[j].ask # toExt'[p].ask
        BY <3>4, <3>5 DEF Adds
      <3> QED BY <2>1, <3>6, OfflineShrinks
    <2> QED BY <1>4, <2>2, <2>3 DEF DropsRecord
  <1>5. ASSUME NEW i \in Raised, AnswerInApp(i) PROVE OfflineInv'
    <2>1. outcome' = [outcome EXCEPT ![i] = "app"] /\ UNCHANGED <<kind, toExt, record>>
      BY <1>5 DEF AnswerInApp, channelVars, serviceVars
    <2>2. \A j \in Raised : outcome'[j] = "offline" => outcome[j] = "offline"
      BY <2>1 DEF Base, TITypeOK
    <2> QED BY <2>1, <2>2 DEF OfflineInv, Raised
  <1>6. ASSUME NEW i \in Raised, PlanBodyPosted(i) PROVE OfflineInv'
    <2>1. /\ i \in posting /\ kind[i] = "plan" /\ record' = [record EXCEPT ![kind[i]] = Pending(i)]
          /\ UNCHANGED <<kind, toExt, outcome>>
      BY <1>6 DEF PlanBodyPosted, Base, RefInv, runtimeVars, channelVars
    <2> QED BY <2>1, OfflineMakes DEF FreshInv
  <1>7. CASE ExtensionReceives
    <2>1. PICK s : s = toExt[1]
      OBVIOUS
    <2>2. /\ s.ask \in Raised /\ Drops(toExt, toExt') /\ UNCHANGED <<kind, record>>
          /\ outcome' = [outcome EXCEPT ![s.ask] = SettledAs(s)] \/ UNCHANGED outcome
      BY <1>7, <2>1, ExtensionEffect
    <2>3. \A j \in Raised : outcome'[j] = "offline" => outcome[j] = "offline" \/ (j = s.ask /\ s.reply = 0)
      BY <2>2 DEF Base, TITypeOK, SettledAs
    <2>4. s.reply = 0 => \A k \in AskKind : record[k].ask # s.ask
      BY <2>1, <2>2 DEF OfflineInv, Drops
    <2>5. \A j \in Raised : outcome'[j] = "offline" => \A k \in AskKind : record[k].ask # j
      BY <2>3, <2>4 DEF OfflineInv
    <2>6. \A p \in DOMAIN toExt' : toExt'[p].reply = 0 => \A k \in AskKind : record[k].ask # toExt'[p].ask
      BY <2>2 DEF OfflineInv, Drops
    <2> QED BY <2>2, <2>5, <2>6 DEF OfflineInv, Raised
  <1>8. CASE Undeliverable
    <2>1. PICK s : s = toExt[1]
      OBVIOUS
    <2>2. Drops(toExt, toExt') /\ UNCHANGED <<kind, outcome, record>>
      BY <1>8, <2>1, UndeliverableEffect
    <2> QED BY <2>2 DEF OfflineInv, Drops, Raised
  <1>9. CASE SlashNew
    <2>1. /\ DOMAIN toExt' = {} /\ UNCHANGED <<kind, record>>
          /\ \A i \in Raised : outcome'[i] = IF outcome[i] = "open" THEN "killed" ELSE outcome[i]
      BY <1>9, SlashEffect
    <2> QED BY <2>1 DEF OfflineInv, Raised
  <1>10. CASE MainReceives
    <2>1. PICK m : m = toMain[1]
      OBVIOUS
    <2>2. /\ UNCHANGED <<kind, outcome, toExt>> /\ 1 \in DOMAIN toMain /\ Raised' = Raised
          /\ \/ m.type = "requested" /\ m.ask \in Raised /\ OnRequested(m.ask)
             \/ m.ask \in Raised /\ OnCompleted(m.ask)
             \/ m.reply \in 0..Len(replies) /\ m.ok \in BOOLEAN /\ OnResponse(m.reply, m.ok)
      BY <1>10, <2>1, MainEffect DEF Drops, Raised
    <2>3. CASE m.type = "requested" /\ m.ask \in Raised /\ OnRequested(m.ask)
      <3>1. Unseen(m.ask)
        BY <2>1, <2>2, <2>3 DEF FreshInv
      <3>2. UNCHANGED record \/ record' = [record EXCEPT ![kind[m.ask]] = Pending(m.ask)]
        BY <2>3, RequestedEffect
      <3>3. CASE UNCHANGED record
        BY <2>2, <3>3 DEF OfflineInv
      <3> QED BY <2>2, <2>3, <3>1, <3>2, <3>3, OfflineMakes
    <2>4. CASE m.ask \in Raised /\ OnCompleted(m.ask)
      BY <2>2, <2>4, ShrinkEffect, OfflineShrinks
    <2>5. CASE m.reply \in 0..Len(replies) /\ m.ok \in BOOLEAN /\ OnResponse(m.reply, m.ok)
      <3>1. m.reply \in Nat
        BY <2>5, Facts DEF Base
      <3>2. Shrinks
        BY <2>5, <3>1, ResponseEffect, ShrinkEffect
      <3> QED BY <2>2, <3>2, OfflineShrinks
    <2> QED BY <2>2, <2>3, <2>4, <2>5
  <1> QED BY <1>1, <1>2, <1>3, <1>4, <1>5, <1>6, <1>7, <1>8, <1>9, <1>10, Steps

Longer ==
    /\ DOMAIN toMain \subseteq DOMAIN toMain'
    /\ \A p \in DOMAIN toMain : toMain'[p] = toMain[p]
    /\ \A q \in DOMAIN toMain' : q \notin DOMAIN toMain => \A p \in DOMAIN toMain : p < q

LEMMA LongerEffect ==
  /\ Extended => Longer
  /\ \A e : Adds(toMain, toMain', e) => Longer
  /\ UNCHANGED toMain => Longer
  BY DEF Extended, Adds, Longer

LEMMA AheadKept ==
  ASSUME Base, NEW i \in Raised, Ahead(i), flying \subseteq flying',
         \A n \in DOMAIN replies : replies'[n] = replies[n], Longer
  PROVE  Ahead(i)'
  <1>1. PICK p \in DOMAIN toMain :
            /\ toMain[p].type = "response" /\ toMain[p].ok
            /\ toMain[p].reply \in flying /\ replies[toMain[p].reply] = i
            /\ \A q \in DOMAIN toMain : toMain[q] = Completed(i) => p < q
    BY DEF Ahead
  <1>2. toMain[p].reply \in DOMAIN replies
    BY <1>1 DEF Base, TITypeOK
  <1>3. \A q \in DOMAIN toMain' : toMain'[q] = Completed(i) => p < q
    BY <1>1 DEF Longer
  <1>4. Completed(i)' = Completed(i)
    BY DEF Completed, EventOf
  <1> QED BY <1>1, <1>2, <1>3, <1>4 DEF Ahead, Longer

LEMMA AheadDrops ==
  ASSUME Base, FlightInv, NEW i \in Raised, Ahead(i), NEW m, m = toMain[1], Drops(toMain, toMain'),
         UNCHANGED replies,
         ~(m.type = "response" /\ m.reply \in flying /\ replies[m.reply] = i /\ m.ok),
         UNCHANGED flying \/ (m.type = "response" /\ flying' = flying \ {m.reply})
  PROVE  Ahead(i)'
  <1>1. PICK p \in DOMAIN toMain :
            /\ toMain[p].type = "response" /\ toMain[p].ok
            /\ toMain[p].reply \in flying /\ replies[toMain[p].reply] = i
            /\ \A q \in DOMAIN toMain : toMain[q] = Completed(i) => p < q
    BY DEF Ahead
  <1>2. p # 1
    BY <1>1
  <1>3. p > 1 /\ p \in Nat /\ p - 1 \in DOMAIN toMain' /\ toMain'[p - 1] = toMain[p] /\ 1 \in DOMAIN toMain
    BY <1>1, <1>2 DEF Drops
  <1>4. toMain[p].reply \in flying'
    <2>1. toMain[p].reply # 0
      BY <1>1, Awaited, Facts DEF Base, TITypeOK
    <2>2. m.type = "response" => m.reply # toMain[p].reply
      BY <1>1, <1>2, <1>3, <2>1 DEF FlightInv
    <2> QED BY <1>1, <2>2
  <1>5. ASSUME NEW q \in DOMAIN toMain', toMain'[q] = Completed(i) PROVE p - 1 < q
    <2>1. q \in Nat /\ q + 1 \in DOMAIN toMain /\ toMain[q + 1] = toMain'[q]
      BY DEF Drops
    <2>2. p < q + 1
      BY <1>1, <1>5, <2>1
    <2> QED BY <1>3, <2>1, <2>2
  <1>6. Completed(i)' = Completed(i)
    BY DEF Completed, EventOf
  <1> QED BY <1>1, <1>3, <1>4, <1>5, <1>6 DEF Ahead

LEMMA AheadFrame ==
  ASSUME Base, AheadInv, UNCHANGED timeouts, flying \subseteq flying',
         \A n \in DOMAIN replies : replies'[n] = replies[n], Longer,
         \A i \in Raised' : outcome'[i] = "teams" /\ record'[kind'[i]].ask = i =>
             i \in Raised /\ outcome[i] = "teams" /\ record[kind[i]].ask = i
  PROVE  AheadInv'
  BY AheadKept DEF AheadInv

LEMMA AheadShrinks ==
  ASSUME Base, AheadInv, UNCHANGED timeouts, flying \subseteq flying',
         \A n \in DOMAIN replies : replies'[n] = replies[n], Longer, Shrinks, UNCHANGED kind,
         \A i \in Raised : outcome'[i] = "teams" => outcome[i] = "teams"
  PROVE  AheadInv'
  <1>1. Raised' = Raised /\ NoAsk \notin Raised /\ \A i \in Raised : kind[i] \in AskKind
    BY Facts DEF Raised, Base
  <1>2. \A i \in Raised' : outcome'[i] = "teams" /\ record'[kind'[i]].ask = i =>
            i \in Raised /\ outcome[i] = "teams" /\ record[kind[i]].ask = i
    BY <1>1 DEF Shrinks
  <1> QED BY <1>2, AheadFrame

(* A reply resolves an open interaction: its answer is sent, and the       *)
(* completed event is not yet out.                                         *)
LEMMA AheadExtension ==
  ASSUME Base, SettledInv, FlightInv, AheadInv, ExtensionReceives
  PROVE  AheadInv'
  <1>1. PICK s : s = toExt[1]
    OBVIOUS
  <1>2. PICK j, e : j = s.ask /\ e = Len(toMain) + 1
    OBVIOUS
  <1>3. /\ j \in Raised /\ s \in Submission /\ 1 \in DOMAIN toExt /\ UNCHANGED <<kind, record, replies, flying, timeouts>>
        /\ \E ok \in BOOLEAN : /\ Adds(toMain, toMain', Response(s.reply, ok))
                               /\ ok <=> slot[kind[j]] = j
        /\ \/ /\ slot[kind[j]] = j /\ outcome[j] = "open"
              /\ outcome' = [outcome EXCEPT ![j] = SettledAs(s)]
           \/ UNCHANGED outcome
    BY <1>1, <1>2, ExtensionEffect DEF Drops
  <1>4. Longer /\ Raised' = Raised /\ Shrinks
    BY <1>3, LongerEffect, ShrinkEffect DEF Raised
  <1>5. CASE UNCHANGED outcome
    BY <1>3, <1>4, <1>5, AheadShrinks
  <1>6. CASE /\ slot[kind[j]] = j /\ outcome[j] = "open"
             /\ outcome' = [outcome EXCEPT ![j] = SettledAs(s)]
    <2>1. ASSUME timeouts' = 0, NEW i \in Raised, outcome'[i] = "teams", record'[kind'[i]].ask = i
          PROVE  Ahead(i)'
      <3>1. CASE i # j
        <4>1. outcome[i] = "teams" /\ record[kind[i]].ask = i
          BY <1>3, <1>6, <2>1, <3>1 DEF Base, TITypeOK
        <4>2. Ahead(i)
          BY <1>3, <2>1, <4>1 DEF AheadInv
        <4> QED BY <1>3, <1>4, <4>2, AheadKept
      <3>2. CASE i = j
        <4>1. s.reply # 0
          BY <1>6, <2>1, <3>2 DEF Base, TITypeOK, SettledAs
        <4>2. s.reply \in flying /\ replies[s.reply] = j
          BY <1>1, <1>2, <1>3, <2>1, <4>1 DEF FlightInv, Base, RefInv
        <4>3. Adds(toMain, toMain', Response(s.reply, TRUE))
          BY <1>3, <1>6
        <4>4. \A q \in DOMAIN toMain : toMain[q] # Completed(j)
          BY <1>6 DEF SettledInv, Answered, Completed, EventOf
        <4>5. /\ e \in DOMAIN toMain' /\ toMain'[e].type = "response" /\ toMain'[e].ok
              /\ toMain'[e].reply = s.reply
          BY <1>2, <4>3 DEF Adds, Response
        <4>6. Response(s.reply, TRUE) # Completed(j)
          BY DEF Response, Completed, EventOf
        <4>7. \A q \in DOMAIN toMain' : toMain'[q] # Completed(j)
          BY <4>3, <4>4, <4>6 DEF Adds
        <4>8. Completed(j)' = Completed(j)
          BY DEF Completed, EventOf
        <4> QED BY <1>3, <3>2, <4>2, <4>5, <4>7, <4>8 DEF Ahead
      <3> QED BY <3>1, <3>2
    <2> QED BY <1>4, <2>1 DEF AheadInv
  <1> QED BY <1>3, <1>5, <1>6

(* The answer that is received removes the record; every other stays       *)
(* ahead, since a completed event is received after it.                    *)
LEMMA AheadMain ==
  ASSUME Base, FreshInv, FlightInv, AheadInv, MainReceives
  PROVE  AheadInv'
  <1>1. PICK m : m = toMain[1]
    OBVIOUS
  <1>2. /\ UNCHANGED <<kind, outcome, timeouts>> /\ Drops(toMain, toMain')
        /\ 1 \in DOMAIN toMain /\ Raised' = Raised
        /\ \/ m.type = "requested" /\ m.ask \in Raised /\ OnRequested(m.ask)
           \/ m.type = "completed" /\ m.ask \in Raised /\ OnCompleted(m.ask)
           \/ /\ m.type = "response" /\ m.reply \in 0..Len(replies) /\ m.ok \in BOOLEAN
              /\ OnResponse(m.reply, m.ok)
    BY <1>1, MainEffect DEF Drops, Raised
  <1>3. CASE m.type = "requested" /\ m.ask \in Raised /\ OnRequested(m.ask)
    <2>1. Unseen(m.ask)
      BY <1>1, <1>2, <1>3 DEF FreshInv
    <2>2. /\ UNCHANGED <<replies, flying>>
          /\ UNCHANGED record \/ record' = [record EXCEPT ![kind[m.ask]] = Pending(m.ask)]
      BY <1>3, RequestedEffect
    <2>3. ASSUME timeouts' = 0, NEW i \in Raised, outcome'[i] = "teams", record'[kind'[i]].ask = i
          PROVE  Ahead(i)'
      <3>1. i # m.ask /\ kind[i] \in AskKind
        BY <1>2, <2>1, <2>3, Facts DEF Unseen, Base
      <3>2. record[kind[i]].ask = i
        BY <1>2, <2>2, <2>3, <3>1, Awaited DEF Pending
      <3>3. Ahead(i)
        BY <1>2, <2>3, <3>2 DEF AheadInv
      <3> QED BY <1>1, <1>2, <1>3, <2>2, <3>3, AheadDrops
    <2> QED BY <1>2, <2>3 DEF AheadInv
  <1>4. CASE m.type = "completed" /\ m.ask \in Raised /\ OnCompleted(m.ask)
    <2>1. UNCHANGED <<replies, flying>> /\ Shrinks
      BY <1>4, CompletedEffect, ShrinkEffect
    <2>2. ASSUME timeouts' = 0, NEW i \in Raised, outcome'[i] = "teams", record'[kind'[i]].ask = i
          PROVE  Ahead(i)'
      <3>1. record[kind[i]].ask = i
        BY <1>2, <2>1, <2>2, Facts DEF Shrinks, Base
      <3>2. Ahead(i)
        BY <1>2, <2>2, <3>1 DEF AheadInv
      <3> QED BY <1>1, <1>2, <1>4, <2>1, <3>2, AheadDrops
    <2> QED BY <1>2, <2>2 DEF AheadInv
  <1>5. CASE /\ m.type = "response" /\ m.reply \in 0..Len(replies) /\ m.ok \in BOOLEAN
             /\ OnResponse(m.reply, m.ok)
    <2>1. m.reply \in Nat
      BY <1>5, Facts DEF Base
    <2>2. /\ UNCHANGED replies /\ Shrinks /\ flying' = flying \ {m.reply}
          /\ m.reply \in flying => Settlement(m.reply, m.ok) /\ kind[replies[m.reply]] \in AskKind
      BY <1>5, <2>1, ResponseEffect, ShrinkEffect DEF OnResponse
    <2>3. ASSUME timeouts' = 0, NEW i \in Raised, outcome'[i] = "teams", record'[kind'[i]].ask = i
          PROVE  Ahead(i)'
      <3>1. record[kind[i]].ask = i /\ i # NoAsk
        BY <1>2, <2>2, <2>3, Facts DEF Shrinks, Base
      <3>2. Ahead(i)
        BY <1>2, <2>3, <3>1 DEF AheadInv
      <3>3. ~(m.reply \in flying /\ replies[m.reply] = i /\ m.ok)
        BY <1>2, <2>2, <2>3, <3>1 DEF Settlement, NoRecord
      <3> QED BY <1>1, <1>2, <1>5, <2>2, <3>2, <3>3, AheadDrops
    <2> QED BY <1>2, <2>3 DEF AheadInv
  <1> QED BY <1>2, <1>3, <1>4, <1>5

LEMMA AheadStep ==
  ASSUME Base, SettledInv, FreshInv, FlightInv, AheadInv, TINext \/ UNCHANGED tiVars
  PROVE  AheadInv'
  <1>1. CASE \/ Idle \/ \E i \in Raised : Complete(i)
             \/ \E k \in AskKind : DropsRecord(k)
             \/ Undeliverable
    <2>1. UNCHANGED <<kind, outcome, replies, flying, timeouts>> /\ Shrinks
      BY <1>1, CompleteEffect, UndeliverableEffect, ShrinkEffect
         DEF Idle, DropsRecord, runtimeVars, serviceVars, countVars
    <2>2. Longer
      <3>1. CASE Idle \/ \E k \in AskKind : DropsRecord(k)
        BY <3>1, LongerEffect DEF Idle, DropsRecord, channelVars
      <3>2. CASE Undeliverable \/ \E i \in Raised : Complete(i)
        BY <3>2, ExtendedEffect, LongerEffect
      <3> QED BY <1>1, <3>1, <3>2
    <2> QED BY <2>1, <2>2, AheadShrinks
  <1>2. ASSUME NEW k \in AskKind, Raise(k) PROVE AheadInv'
    <2>1. PICK i : i = Len(kind) + 1
      OBVIOUS
    <2>2. /\ Raised' = Raised \cup {i} /\ outcome'[i] = "open" /\ Longer
          /\ \A j \in Raised : outcome'[j] = outcome[j] /\ kind'[j] = kind[j]
          /\ UNCHANGED <<record, replies, flying, timeouts>>
      BY <1>2, <2>1, RaiseEffect, LongerEffect
    <2> QED BY <2>2, AheadFrame
  <1>3. ASSUME NEW k \in AskKind, ReplyTo(k) PROVE AheadInv'
    <2>1. PICK a : a = record[k].ask
      OBVIOUS
    <2>2. /\ UNCHANGED <<kind, outcome, toMain, timeouts>> /\ flying \subseteq flying' /\ Shrinks
          /\ replies' = Append(replies, a) /\ a # NoAsk
      BY <1>3, <2>1, ShrinkEffect DEF ReplyTo, runtimeVars, countVars
    <2>3. a \in Ask
      BY <2>1, <2>2, Awaited, Facts DEF Base
    <2>4. \A n \in DOMAIN replies : replies'[n] = replies[n]
      BY <2>2, <2>3, Appends DEF Base, TITypeOK, Adds
    <2> QED BY <2>2, <2>4, LongerEffect, AheadShrinks
  <1>4. ASSUME NEW i \in Raised, AnswerInApp(i) PROVE AheadInv'
    <2>1. /\ outcome' = [outcome EXCEPT ![i] = "app"]
          /\ UNCHANGED <<kind, toMain, record, replies, flying, timeouts>>
      BY <1>4 DEF AnswerInApp, channelVars, serviceVars, countVars
    <2>2. \A j \in Raised : outcome'[j] = "teams" => outcome[j] = "teams"
      BY <2>1 DEF Base, TITypeOK
    <2> QED BY <2>1, <2>2, LongerEffect, ShrinkEffect, AheadShrinks
  <1>5. ASSUME NEW i \in Raised, PlanBodyPosted(i) PROVE AheadInv'
    <2>1. /\ i \in posting /\ kind[i] = "plan" /\ record' = [record EXCEPT ![kind[i]] = Pending(i)]
          /\ UNCHANGED <<kind, outcome, toMain, replies, flying, timeouts>> /\ Raised' = Raised
      BY <1>5 DEF PlanBodyPosted, Base, RefInv, runtimeVars, channelVars, countVars, Raised
    <2>2. outcome[i] # "teams"
      BY <2>1 DEF FreshInv, Unseen
    <2>3. \A j \in Raised : outcome'[j] = "teams" /\ record'[kind'[j]].ask = j =>
              outcome[j] = "teams" /\ record[kind[j]].ask = j
      BY <2>1, <2>2, Awaited, Facts DEF Pending, Base
    <2> QED BY <2>1, <2>3, LongerEffect, AheadFrame
  <1>6. CASE SlashNew
    <2>1. /\ UNCHANGED <<kind, record, replies, flying, timeouts>>
          /\ \A i \in Raised : outcome'[i] = IF outcome[i] = "open" THEN "killed" ELSE outcome[i]
      BY <1>6, SlashEffect
    <2> QED BY <1>6, <2>1, ExtendedEffect, LongerEffect, ShrinkEffect, AheadShrinks
  <1>7. ASSUME NEW n \in flying, RequestTimesOut(n) PROVE AheadInv'
    BY <1>7, TimeoutEffect DEF AheadInv
  <1> QED BY <1>1, <1>2, <1>3, <1>4, <1>5, <1>6, <1>7, AheadExtension, AheadMain, Steps

LEMMA InAppFrame ==
  ASSUME Base, InAppNoticeIsTrue, UNCHANGED <<inApp, timeouts>>,
         \A i \in Raised : outcome[i] = "app" => outcome'[i] = "app"
  PROVE  InAppNoticeIsTrue'
  BY DEF InAppNoticeIsTrue, Base, TITypeOK

LEMMA InAppStep ==
  ASSUME Base, SettledInv, NoticeInv, TINext \/ UNCHANGED tiVars
  PROVE  InAppNoticeIsTrue'
  <1> USE DEF NoticeInv
  <1>1. CASE \/ Idle \/ \E i \in Raised : Complete(i) \/ PlanBodyPosted(i)
             \/ \E k \in AskKind : ReplyTo(k) \/ DropsRecord(k)
             \/ Undeliverable
    <2>1. UNCHANGED runtimeVars \/ UNCHANGED outcome
      BY <1>1 DEF Idle, Complete, PlanBodyPosted, ReplyTo, DropsRecord, Undeliverable
    <2>2. UNCHANGED <<inApp, timeouts>>
      BY <1>1 DEF Idle, Complete, PlanBodyPosted, ReplyTo, DropsRecord, Undeliverable, noticeVars, countVars
    <2> QED BY <2>1, <2>2, InAppFrame DEF runtimeVars
  <1>2. ASSUME NEW k \in AskKind, Raise(k) PROVE InAppNoticeIsTrue'
    <2>1. PICK i : i = Len(kind) + 1
      OBVIOUS
    <2> QED BY <1>2, <2>1, RaiseEffect, InAppFrame
  <1>3. ASSUME NEW i \in Raised, AnswerInApp(i) PROVE InAppNoticeIsTrue'
    <2>1. outcome' = [outcome EXCEPT ![i] = "app"] /\ UNCHANGED <<inApp, timeouts>>
      BY <1>3 DEF AnswerInApp, noticeVars, countVars
    <2>2. \A j \in Raised : outcome[j] = "app" => outcome'[j] = "app"
      BY <2>1 DEF Base, TITypeOK
    <2> QED BY <2>1, <2>2, InAppFrame
  <1>4. CASE ExtensionReceives
    <2>1. PICK s : s = toExt[1]
      OBVIOUS
    <2>2. /\ UNCHANGED <<inApp, timeouts>>
          /\ \/ outcome[s.ask] = "open" /\ outcome' = [outcome EXCEPT ![s.ask] = SettledAs(s)]
             \/ UNCHANGED outcome
      BY <1>4, <2>1, ExtensionEffect
    <2>3. \A j \in Raised : outcome[j] = "app" => outcome'[j] = "app"
      BY <2>2 DEF Base, TITypeOK
    <2> QED BY <2>2, <2>3, InAppFrame
  <1>5. CASE SlashNew
    <2>1. /\ UNCHANGED <<inApp, timeouts>>
          /\ \A i \in Raised : outcome'[i] = IF outcome[i] = "open" THEN "killed" ELSE outcome[i]
      BY <1>5, SlashEffect
    <2> QED BY <2>1, InAppFrame
  <1>6. CASE MainReceives
    <2>1. PICK m : m = toMain[1]
      OBVIOUS
    <2>2. /\ UNCHANGED <<outcome, timeouts>> /\ 1 \in DOMAIN toMain /\ DOMAIN toMain \subseteq Nat
          /\ \A p \in DOMAIN toMain : p >= 1
          /\ \/ m.ask \in Raised /\ OnRequested(m.ask)
             \/ m.type = "completed" /\ m = Completed(m.ask) /\ m.ask \in Raised /\ OnCompleted(m.ask)
             \/ OnResponse(m.reply, m.ok)
      BY <1>6, <2>1, MainEffect, Facts DEF Drops, Base
    <2>3. CASE (m.ask \in Raised /\ OnRequested(m.ask)) \/ OnResponse(m.reply, m.ok)
      BY <2>2, <2>3, RequestedEffect, InAppFrame DEF OnResponse
    <2>4. CASE m.type = "completed" /\ m = Completed(m.ask) /\ m.ask \in Raised /\ OnCompleted(m.ask)
      <3>1. PICK i : i = m.ask
        OBVIOUS
      <3>2. CASE UNCHANGED inApp
        BY <2>2, <3>2, InAppFrame
      <3>3. CASE inApp' = inApp \cup {i} /\ record[kind[i]].ask = i
        <4>1. kind[i] \in AskKind /\ outcome[i] \in Answered
          BY <2>1, <2>2, <2>4, <3>1, Facts DEF Base, SettledInv
        <4>2. outcome[i] # "offline"
          BY <2>4, <3>1, <3>3, <4>1 DEF OfflineInv
        <4>3. ~Ahead(i)
          <5>1. toMain[1] = Completed(i)
            BY <2>1, <2>4, <3>1
          <5>2. \A p \in DOMAIN toMain : ~(p < 1)
            BY <2>2
          <5> QED BY <2>2, <5>1, <5>2 DEF Ahead
        <4>4. timeouts = 0 => outcome[i] # "teams"
          BY <2>4, <3>1, <3>3, <4>3 DEF AheadInv
        <4> QED BY <2>2, <3>3, <4>1, <4>2, <4>4 DEF InAppNoticeIsTrue, Answered
      <3> QED BY <2>4, <3>1, <3>2, <3>3, CompletedEffect
    <2> QED BY <2>2, <2>3, <2>4
  <1>7. ASSUME NEW n \in flying, RequestTimesOut(n) PROVE InAppNoticeIsTrue'
    BY <1>7, TimeoutEffect DEF InAppNoticeIsTrue
  <1> QED BY <1>1, <1>2, <1>3, <1>4, <1>5, <1>6, <1>7, Steps

LEMMA NoticeStep ==
  ASSUME Base, SettledInv, FreshInv, FlightInv, NoticeInv, TINext \/ UNCHANGED tiVars
  PROVE  NoticeInv'
  BY OfflineStep, AheadStep, InAppStep DEF NoticeInv

-----------------------------------------------------------------------------
(* A dead record is announced.                                             *)

LEMMA CompletesKept ==
  ASSUME NEW i, Completes(i), Longer, completing \subseteq completing'
  PROVE  Completes(i)'
  <1>1. Completed(i)' = Completed(i)
    BY DEF Completed, EventOf
  <1>2. CASE i \in completing
    BY <1>2 DEF Completes
  <1>3. CASE \E p \in DOMAIN toMain : toMain[p] = Completed(i)
    <2>1. \E p \in DOMAIN toMain' : toMain'[p] = Completed(i)
      BY <1>3 DEF Longer
    <2> QED BY <1>1, <2>1 DEF Completes
  <1> QED BY <1>2, <1>3 DEF Completes

LEMMA CompletesSent ==
  ASSUME NEW i, Completes(i), NEW j \in completing, completing' = completing \ {j},
         Adds(toMain, toMain', Completed(j))
  PROVE  Completes(i)'
  <1>1. Completed(i)' = Completed(i)
    BY DEF Completed, EventOf
  <1>2. CASE i = j
    <2>1. \E p \in DOMAIN toMain' : toMain'[p] = Completed(i)
      BY <1>2 DEF Adds
    <2> QED BY <1>1, <2>1 DEF Completes
  <1>3. CASE i # j /\ i \in completing
    BY <1>3 DEF Completes
  <1>4. CASE \E p \in DOMAIN toMain : toMain[p] = Completed(i)
    <2>1. \E p \in DOMAIN toMain' : toMain'[p] = Completed(i)
      BY <1>4 DEF Adds
    <2> QED BY <1>1, <2>1 DEF Completes
  <1> QED BY <1>2, <1>3, <1>4 DEF Completes

LEMMA CompletesReceived ==
  ASSUME NEW i, Completes(i), Drops(toMain, toMain'), toMain[1] # Completed(i), UNCHANGED completing
  PROVE  Completes(i)'
  <1>1. Completed(i)' = Completed(i)
    BY DEF Completed, EventOf
  <1>2. CASE i \in completing
    BY <1>2 DEF Completes
  <1>3. ASSUME NEW p \in DOMAIN toMain, toMain[p] = Completed(i) PROVE Completes(i)'
    <2>1. p # 1
      BY <1>3
    <2>2. p - 1 \in DOMAIN toMain' /\ toMain'[p - 1] = Completed(i)
      BY <1>3, <2>1 DEF Drops
    <2> QED BY <1>1, <2>2 DEF Completes
  <1> QED BY <1>2, <1>3 DEF Completes

(* What is known of a dead record of a question or a form. *)
Covered(i) ==
    \/ i \in undelivered
    \/ Completes(i)
    \/ \E n \in flying : replies[n] = i

LEMMA AnnounceParts ==
  /\ AnnounceInv <=>
        (resets = 0 =>
           /\ \A p \in DOMAIN toMain : toMain[p].type = "requested" =>
                 outcome[toMain[p].ask] = "open" \/ Completes(toMain[p].ask)
           /\ \A k \in AskKind \ {"plan"} : Dead(k) => Covered(record[k].ask))
  /\ AnnounceInv' <=>
        (resets' = 0 =>
           /\ \A p \in DOMAIN toMain' : toMain'[p].type = "requested" =>
                 \A i : i = toMain'[p].ask => outcome'[i] = "open" \/ Completes(i)'
           /\ \A k \in AskKind \ {"plan"} : record'[k].ask # NoAsk /\ outcome'[record'[k].ask] # "open" =>
                 \A i : i = record'[k].ask => Covered(i)')
  BY DEF AnnounceInv, Covered, Completes, Dead, Completed, EventOf

LEMMA AnnounceFrame ==
  ASSUME Base, AnnounceInv, UNCHANGED resets, Extended,
         \A k \in AskKind \ {"plan"} : record'[k].ask \in {record[k].ask, NoAsk},
         undelivered \subseteq undelivered', flying \subseteq flying',
         \A n \in DOMAIN replies : replies'[n] = replies[n],
         \A i \in Raised : Completes(i) => Completes(i)',
         \A i \in Raised : outcome'[i] = outcome[i] \/ Completes(i)'
  PROVE  AnnounceInv'
  <1>1. SUFFICES ASSUME resets' = 0 PROVE AnnounceInv'
    BY AnnounceParts
  <1>2. \A i \in Raised : Covered(i) => Covered(i)'
    BY Awaited DEF Covered
  <1>3. ASSUME NEW p \in DOMAIN toMain', toMain'[p].type = "requested", NEW i, i = toMain'[p].ask
        PROVE  outcome'[i] = "open" \/ Completes(i)'
    <2>1. p \in DOMAIN toMain /\ toMain'[p] = toMain[p]
      BY <1>3 DEF Extended
    <2>2. i \in Raised
      BY <1>3, <2>1 DEF Base, RefInv
    <2>3. outcome[i] = "open" \/ Completes(i)
      BY <1>1, <1>3, <2>1, AnnounceParts
    <2> QED BY <2>2, <2>3
  <1>4. ASSUME NEW k \in AskKind \ {"plan"}, record'[k].ask # NoAsk,
               outcome'[record'[k].ask] # "open", NEW i, i = record'[k].ask
        PROVE  Covered(i)'
    <2>1. i = record[k].ask /\ i \in Raised
      BY <1>4, Awaited
    <2>2. CASE outcome'[i] = outcome[i]
      <3>1. Covered(i)
        BY <1>1, <1>4, <2>1, <2>2, AnnounceParts DEF Dead
      <3> QED BY <1>2, <2>1, <3>1
    <2>3. CASE Completes(i)'
      BY <2>3 DEF Covered
    <2> QED BY <2>1, <2>2, <2>3
  <1> QED BY <1>3, <1>4, AnnounceParts

(* An answer covers a dead record by its notice. *)
LEMMA SettlementCovers ==
  ASSUME Base, NEW n \in flying, NEW ok, Settlement(n, ok), UNCHANGED replies,
         NEW k \in AskKind, record'[k].ask # NoAsk, NEW i, i = record'[k].ask,
         Covered(i), Completes(i) => Completes(i)'
  PROVE  Covered(i)'
  <1>1. replies[n] \in Raised /\ kind[replies[n]] \in AskKind
    BY Awaited
  <1>2. undelivered \subseteq undelivered' /\ flying' = flying \ {n}
    BY DEF Settlement
  <1>3. CASE replies[n] # i
    BY <1>2, <1>3 DEF Covered
  <1>4. CASE replies[n] = i
    <2>1. k = kind[i] \/ record'[k] = record[k]
      BY <1>4 DEF Settlement
    <2>2. k = kind[i]
      BY <1>4, <2>1, Awaited
    <2>3. record'[kind[i]].ask = i /\ i # NoAsk
      BY <2>2
    <2>4. undelivered' = undelivered \cup {i}
      <3>1. \/ ok /\ record'[kind[i]] = NoRecord
            \/ ~ok /\ record[kind[i]].ask = i /\ undelivered' = undelivered \cup {i}
            \/ ~ok /\ record[kind[i]].ask # i /\ UNCHANGED record
        BY <1>4 DEF Settlement
      <3>2. record'[kind[i]] # NoRecord
        BY <2>3 DEF NoRecord
      <3> QED BY <2>3, <3>1, <3>2
    <2> QED BY <2>4 DEF Covered
  <1> QED BY <1>3, <1>4

LEMMA AnnounceMain ==
  ASSUME Base, FreshInv, LatchInv, AnnounceInv, MainReceives
  PROVE  AnnounceInv'
  <1>1. PICK m : m = toMain[1]
    OBVIOUS
  <1>2. /\ UNCHANGED <<kind, outcome, completing, resets>> /\ Drops(toMain, toMain')
        /\ 1 \in DOMAIN toMain /\ DOMAIN toMain \subseteq Nat
        /\ \/ m.type = "requested" /\ m.ask \in Raised /\ OnRequested(m.ask)
           \/ m.type = "completed" /\ m = Completed(m.ask) /\ m.ask \in Raised /\ OnCompleted(m.ask)
           \/ /\ m.type = "response" /\ m.reply \in 0..Len(replies) /\ m.ok \in BOOLEAN
              /\ OnResponse(m.reply, m.ok)
    BY <1>1, MainEffect, Facts DEF Drops, Base
  <1>3. SUFFICES ASSUME resets' = 0 PROVE AnnounceInv'
    BY AnnounceParts
  <1>4. \A i : Completes(i) /\ m # Completed(i) => Completes(i)'
    BY <1>1, <1>2, CompletesReceived
  <1>5. ASSUME NEW p \in DOMAIN toMain', toMain'[p].type = "requested", NEW i, i = toMain'[p].ask
        PROVE  outcome'[i] = "open" \/ Completes(i)'
    <2>1. p >= 1 /\ p \in Nat /\ p + 1 \in DOMAIN toMain /\ toMain[p + 1] = toMain'[p]
      BY <1>2 DEF Drops
    <2>2. outcome[i] = "open" \/ Completes(i)
      BY <1>2, <1>3, <1>5, <2>1, AnnounceParts
    <2>3. m # Completed(i)
      <3>1. SUFFICES ASSUME m = Completed(i) PROVE FALSE
        OBVIOUS
      <3>2. m.type # "response" /\ m.ask = i
        BY <3>1 DEF Completed, EventOf
      <3>3. p + 1 <= 1
        BY <1>1, <1>2, <1>5, <2>1, <3>2 DEF FreshInv
      <3> QED BY <2>1, <3>3
    <2> QED BY <1>2, <1>4, <2>2, <2>3
  <1>6. ASSUME NEW k \in AskKind \ {"plan"}, record'[k].ask # NoAsk,
               outcome'[record'[k].ask] # "open", NEW i, i = record'[k].ask
        PROVE  Covered(i)'
    <2>1. ASSUME record[k].ask = i PROVE Covered(i)
      BY <1>2, <1>3, <1>6, <2>1, AnnounceParts DEF Dead
    <2>2. CASE m.type = "requested" /\ m.ask \in Raised /\ OnRequested(m.ask)
      <3>1. UNCHANGED <<undelivered, flying, replies>>
        BY <2>2, RequestedEffect
      <3>2. m # Completed(i)
        BY <2>2 DEF Completed, EventOf
      <3>3. CASE record[k].ask = i
        BY <1>4, <2>1, <3>1, <3>2, <3>3 DEF Covered
      <3>4. CASE record[k].ask # i
        <4>1. UNCHANGED record \/ record' = [record EXCEPT ![kind[m.ask]] = Pending(m.ask)]
          BY <2>2, RequestedEffect
        <4>2. i = m.ask
          BY <1>6, <3>4, <4>1, Awaited DEF Pending
        <4>3. outcome[i] = "open" \/ Completes(i)
          BY <1>1, <1>2, <1>3, <2>2, <4>2, AnnounceParts
        <4> QED BY <1>2, <1>4, <1>6, <3>2, <4>3 DEF Covered
      <3> QED BY <3>3, <3>4
    <2>3. CASE m = Completed(m.ask) /\ m.ask \in Raised /\ OnCompleted(m.ask)
      <3>1. UNCHANGED <<undelivered, flying, replies>> /\ Shrinks
        BY <2>3, CompletedEffect, ShrinkEffect
      <3>2. record[k].ask = i /\ kind[i] = k
        BY <1>6, <3>1, Awaited DEF Shrinks
      <3>3. CASE m # Completed(i)
        BY <1>4, <2>1, <3>1, <3>2, <3>3 DEF Covered
      <3>4. CASE m = Completed(i)
        <4>1. m.ask = i
          BY <3>4 DEF Completed, EventOf
        <4>2. record[k].latched
          BY <1>6, <2>3, <3>2, <4>1, CompletedEffect, Awaited DEF NoRecord
        <4>3. \E n \in flying : replies[n] = i
          BY <1>6, <3>2, <4>2 DEF LatchInv
        <4> QED BY <3>1, <4>3 DEF Covered
      <3> QED BY <3>3, <3>4
    <2>4. CASE /\ m.type = "response" /\ m.reply \in 0..Len(replies) /\ m.ok \in BOOLEAN
               /\ OnResponse(m.reply, m.ok)
      <3>1. m.reply \in Nat
        BY <2>4, Facts DEF Base
      <3>2. /\ UNCHANGED replies /\ Shrinks
            /\ \/ UNCHANGED <<flying, undelivered>>
               \/ m.reply \in flying /\ Settlement(m.reply, m.ok)
        BY <2>4, <3>1, ResponseEffect, ShrinkEffect
      <3>3. record[k].ask = i
        BY <1>6, <3>2 DEF Shrinks
      <3>4. m # Completed(i)
        BY <2>4 DEF Completed, EventOf
      <3>5. Covered(i) /\ (Completes(i) => Completes(i)')
        BY <1>4, <2>1, <3>3, <3>4
      <3>6. CASE UNCHANGED <<flying, undelivered>>
        BY <3>2, <3>5, <3>6 DEF Covered
      <3>7. CASE m.reply \in flying /\ Settlement(m.reply, m.ok)
        BY <1>6, <3>2, <3>5, <3>7, SettlementCovers
      <3> QED BY <3>2, <3>6, <3>7
    <2> QED BY <1>2, <2>2, <2>3, <2>4
  <1> QED BY <1>5, <1>6, AnnounceParts

LEMMA AnnounceStep ==
  ASSUME Base, FreshInv, LatchInv, AnnounceInv, TINext \/ UNCHANGED tiVars
  PROVE  AnnounceInv'
  <1>1. CASE \/ Idle \/ Undeliverable \/ \E i \in Raised : PlanBodyPosted(i)
             \/ \E k \in AskKind : DropsRecord(k) \/ ReplyTo(k)
    <2>1. Extended
      <3>1. UNCHANGED toMain \/ Undeliverable
        BY <1>1 DEF Idle, PlanBodyPosted, DropsRecord, ReplyTo, channelVars
      <3> QED BY <3>1, ExtendedEffect
    <2>2. UNCHANGED <<outcome, completing, resets>> /\ undelivered \subseteq undelivered'
      <3>1. UNCHANGED runtimeVars /\ UNCHANGED <<resets, undelivered>>
        BY <1>1 DEF Idle, PlanBodyPosted, DropsRecord, ReplyTo, Undeliverable, noticeVars, countVars
      <3> QED BY <3>1 DEF runtimeVars
    <2>3. flying \subseteq flying'
      BY <1>1 DEF Idle, PlanBodyPosted, DropsRecord, ReplyTo, Undeliverable, serviceVars
    <2>4. \A n \in DOMAIN replies : replies'[n] = replies[n]
      <3>1. CASE UNCHANGED replies
        BY <3>1
      <3>2. ASSUME NEW k \in AskKind, ReplyTo(k)
            PROVE  \A n \in DOMAIN replies : replies'[n] = replies[n]
        <4>1. record[k].ask \in Ask /\ replies' = Append(replies, record[k].ask)
          BY <3>2, Awaited, Facts DEF ReplyTo, Base
        <4> QED BY <4>1, Appends DEF Base, TITypeOK, Adds
      <3> QED BY <1>1, <3>1, <3>2 DEF Idle, PlanBodyPosted, DropsRecord, Undeliverable, serviceVars
    <2>5. \A k \in AskKind \ {"plan"} : record'[k].ask \in {record[k].ask, NoAsk}
      <3>1. CASE Shrinks
        BY <3>1 DEF Shrinks
      <3>2. CASE \E i \in Raised : PlanBodyPosted(i)
        BY <3>2, Awaited DEF PlanBodyPosted
      <3> QED BY <1>1, <3>1, <3>2, ShrinkEffect DEF Idle, Undeliverable, serviceVars
    <2>6. \A i \in Raised : Completes(i) => Completes(i)'
      BY <2>1, <2>2, LongerEffect, CompletesKept
    <2> QED BY <2>1, <2>2, <2>3, <2>4, <2>5, <2>6, AnnounceFrame
  <1>2. ASSUME NEW k \in AskKind, Raise(k) PROVE AnnounceInv'
    <2>1. PICK i : i = Len(kind) + 1
      OBVIOUS
    <2>2. /\ i \notin Raised /\ outcome'[i] = "open" /\ \A j \in Raised : outcome'[j] = outcome[j]
          /\ Adds(toMain, toMain', Requested(i))
          /\ UNCHANGED <<completing, record, replies, flying, undelivered, resets>>
      BY <1>2, <2>1, RaiseEffect
    <2>3. \A j \in Raised : Completes(j) => Completes(j)'
      BY <2>2, LongerEffect, CompletesKept
    <2>4. SUFFICES ASSUME resets' = 0 PROVE AnnounceInv'
      BY AnnounceParts
    <2>5. ASSUME NEW p \in DOMAIN toMain', toMain'[p].type = "requested", NEW j, j = toMain'[p].ask
          PROVE  outcome'[j] = "open" \/ Completes(j)'
      <3>1. CASE p \in DOMAIN toMain
        <4>1. toMain'[p] = toMain[p] /\ j \in Raised
          BY <2>2, <2>5, <3>1 DEF Base, RefInv, Adds
        <4>2. outcome[j] = "open" \/ Completes(j)
          BY <2>2, <2>4, <2>5, <3>1, <4>1, AnnounceParts
        <4> QED BY <2>2, <2>3, <4>1, <4>2
      <3>2. CASE p = Len(toMain) + 1
        BY <2>2, <2>5, <3>2 DEF Adds, Requested, EventOf
      <3> QED BY <2>2, <3>1, <3>2 DEF Adds
    <2>6. ASSUME NEW h \in AskKind \ {"plan"}, record'[h].ask # NoAsk,
                 outcome'[record'[h].ask] # "open", NEW j, j = record'[h].ask
          PROVE  Covered(j)'
      <3>1. j \in Raised /\ record[h].ask = j
        BY <2>2, <2>6, Awaited
      <3>2. Covered(j)
        BY <2>2, <2>4, <2>6, <3>1, AnnounceParts DEF Dead
      <3> QED BY <2>2, <2>3, <3>1, <3>2 DEF Covered
    <2> QED BY <2>5, <2>6, AnnounceParts
  <1>3. ASSUME NEW i \in Raised, AnswerInApp(i) PROVE AnnounceInv'
    <2>1. /\ outcome' = [outcome EXCEPT ![i] = "app"] /\ completing' = completing \cup {i}
          /\ UNCHANGED <<toMain, record, replies, flying, undelivered, resets>>
      BY <1>3 DEF AnswerInApp, channelVars, serviceVars, noticeVars, countVars
    <2>2. Extended /\ Longer /\ Shrinks
      BY <2>1, ExtendedEffect, LongerEffect, ShrinkEffect
    <2>3. \A j \in Raised : Completes(j) => Completes(j)'
      BY <2>1, <2>2, CompletesKept
    <2>4. \A j \in Raised : outcome'[j] = outcome[j] \/ Completes(j)'
      BY <2>1 DEF Base, TITypeOK, Completes
    <2> QED BY <2>1, <2>2, <2>3, <2>4, AnnounceFrame DEF Shrinks
  <1>4. ASSUME NEW i \in Raised, Complete(i) PROVE AnnounceInv'
    <2>1. /\ i \in completing /\ completing' = completing \ {i} /\ Adds(toMain, toMain', Completed(i))
          /\ UNCHANGED <<outcome, record, replies, flying, undelivered, resets>>
      BY <1>4, CompleteEffect
    <2>2. Extended /\ Shrinks
      BY <1>4, <2>1, ExtendedEffect, ShrinkEffect
    <2>3. \A j \in Raised : Completes(j) => Completes(j)'
      BY <2>1, CompletesSent
    <2> QED BY <2>1, <2>2, <2>3, AnnounceFrame DEF Shrinks
  <1>5. CASE ExtensionReceives
    <2>1. PICK s : s = toExt[1]
      OBVIOUS
    <2>2. /\ UNCHANGED <<record, replies, flying, undelivered, resets>>
          /\ \/ /\ outcome' = [outcome EXCEPT ![s.ask] = SettledAs(s)]
                /\ completing' = completing \cup {s.ask}
             \/ UNCHANGED <<outcome, completing>>
      BY <1>5, <2>1, ExtensionEffect
    <2>3. Extended /\ Longer /\ Shrinks
      BY <1>5, <2>2, ExtendedEffect, LongerEffect, ShrinkEffect
    <2>4. \A j \in Raised : Completes(j) => Completes(j)'
      BY <2>2, <2>3, CompletesKept
    <2>5. \A j \in Raised : outcome'[j] = outcome[j] \/ Completes(j)'
      BY <2>2 DEF Base, TITypeOK, Completes
    <2> QED BY <2>2, <2>3, <2>4, <2>5, AnnounceFrame DEF Shrinks
  <1>6. CASE SlashNew
    <2>1. resets' # 0
      <3>1. resets \in Nat
        BY DEF Base, TITypeOK
      <3>2. resets' = resets + 1
        BY <1>6, SlashEffect
      <3> QED BY <3>1, <3>2
    <2> QED BY <2>1, AnnounceParts
  <1>7. ASSUME NEW n \in flying, RequestTimesOut(n) PROVE AnnounceInv'
    <2>1. /\ Settlement(n, FALSE) /\ UNCHANGED <<outcome, completing, toMain, replies, resets>> /\ Shrinks
      BY <1>7, TimeoutEffect, ShrinkEffect
    <2>2. SUFFICES ASSUME resets' = 0 PROVE AnnounceInv'
      BY AnnounceParts
    <2>3. \A j : Completes(j) => Completes(j)'
      BY <2>1, LongerEffect, CompletesKept
    <2>4. ASSUME NEW p \in DOMAIN toMain', toMain'[p].type = "requested", NEW j, j = toMain'[p].ask
          PROVE  outcome'[j] = "open" \/ Completes(j)'
      BY <2>1, <2>2, <2>3, <2>4, AnnounceParts
    <2>5. ASSUME NEW h \in AskKind \ {"plan"}, record'[h].ask # NoAsk,
                 outcome'[record'[h].ask] # "open", NEW j, j = record'[h].ask
          PROVE  Covered(j)'
      <3>1. record[h].ask = j
        BY <2>1, <2>5 DEF Shrinks
      <3>2. Covered(j)
        BY <2>1, <2>2, <2>5, <3>1, AnnounceParts DEF Dead
      <3> QED BY <2>1, <2>3, <2>5, <3>2, SettlementCovers
    <2> QED BY <2>4, <2>5, AnnounceParts
  <1> QED BY <1>1, <1>2, <1>3, <1>4, <1>5, <1>6, <1>7, AnnounceMain, Steps

-----------------------------------------------------------------------------
(* What goOffline dropped.                                                 *)

LEMMA LeftFrame ==
  ASSUME Base, LeftInv, UNCHANGED <<left, failures>>, DOMAIN toExt \subseteq DOMAIN toExt',
         \A p \in DOMAIN toExt : toExt'[p] = toExt[p],
         \A i \in Raised : outcome'[i] = "open" => outcome[i] = "open"
  PROVE  LeftInv'
  BY DEF LeftInv, Base, TITypeOK

LEMMA LeftStep ==
  ASSUME Base, SlotInv, LeftInv, TINext \/ UNCHANGED tiVars
  PROVE  LeftInv'
  <1>1. CASE \/ Idle \/ MainReceives
             \/ \E i \in Raised : PlanBodyPosted(i) \/ Complete(i)
             \/ \E n \in flying : RequestTimesOut(n)
    <2>1. UNCHANGED <<outcome, toExt, left, failures>>
      <3>1. CASE Idle \/ \E i \in Raised : PlanBodyPosted(i)
        BY <3>1 DEF Idle, PlanBodyPosted, runtimeVars, channelVars, connectionVars, countVars
      <3>2. CASE MainReceives
        BY <3>2, MainEffect
      <3> QED BY <1>1, <3>1, <3>2, CompleteEffect, TimeoutEffect
    <2> QED BY <2>1, LeftFrame
  <1>2. ASSUME NEW k \in AskKind, Raise(k) PROVE LeftInv'
    <2>1. PICK i : i = Len(kind) + 1
      OBVIOUS
    <2> QED BY <1>2, <2>1, RaiseEffect, LeftFrame
  <1>3. ASSUME NEW i \in Raised, AnswerInApp(i) PROVE LeftInv'
    <2>1. outcome' = [outcome EXCEPT ![i] = "app"] /\ UNCHANGED <<toExt, left, failures>>
      BY <1>3 DEF AnswerInApp, channelVars, connectionVars, countVars
    <2>2. \A j \in Raised : outcome'[j] = "open" => outcome[j] = "open"
      BY <2>1 DEF Base, TITypeOK
    <2> QED BY <2>1, <2>2, LeftFrame
  <1>4. ASSUME NEW k \in AskKind, ReplyTo(k) PROVE LeftInv'
    <2>1. PICK a, n : a = record[k].ask /\ n = Len(replies) + 1
      OBVIOUS
    <2>2. /\ toExt' = Append(toExt, [ask |-> a, reply |-> n]) /\ UNCHANGED <<outcome, left, failures>>
      BY <1>4, <2>1 DEF ReplyTo, runtimeVars, countVars
    <2>3. a \in Ask /\ n \in 0..MaxReplies
      BY <1>4, <2>1, Facts, ThreadAssumption DEF ReplyTo, Base, RefInv
    <2>4. [ask |-> a, reply |-> n] \in Submission
      BY <2>3 DEF Submission
    <2>5. Adds(toExt, toExt', [ask |-> a, reply |-> n])
      BY <2>2, <2>4, Appends DEF Base, TITypeOK
    <2>6. DOMAIN toExt \subseteq DOMAIN toExt' /\ \A p \in DOMAIN toExt : toExt'[p] = toExt[p]
      BY <2>5 DEF Adds
    <2> QED BY <2>2, <2>6, LeftFrame
  <1>5. ASSUME NEW k \in AskKind, DropsRecord(k) PROVE LeftInv'
    <2>1. UNCHANGED <<outcome, failures>>
      BY <1>5 DEF DropsRecord, runtimeVars, countVars
    <2>2. CASE UNCHANGED <<left, toExt>>
      BY <2>1, <2>2, LeftFrame
    <2>3. CASE /\ left' = left \cup {record[k].ask}
               /\ toExt' = Append(toExt, [ask |-> record[k].ask, reply |-> 0])
      <3>1. record[k].ask \in Ask
        BY <1>5, Awaited, Facts DEF DropsRecord, Base
      <3>2. [ask |-> record[k].ask, reply |-> 0] \in Submission
        BY <3>1, ThreadAssumption DEF Submission
      <3>3. Adds(toExt, toExt', [ask |-> record[k].ask, reply |-> 0])
        BY <2>3, <3>2, Appends DEF Base, TITypeOK
      <3>4. \E p \in DOMAIN toExt' : toExt'[p] = [ask |-> record[k].ask, reply |-> 0]
        BY <3>3 DEF Adds
      <3>5. \A i : (\E p \in DOMAIN toExt : toExt[p] = [ask |-> i, reply |-> 0])
                   => \E p \in DOMAIN toExt' : toExt'[p] = [ask |-> i, reply |-> 0]
        BY <3>3 DEF Adds
      <3> QED BY <2>1, <2>3, <3>4, <3>5 DEF LeftInv
    <2> QED BY <1>5, <2>2, <2>3 DEF DropsRecord
  <1>6. CASE ExtensionReceives
    <2>1. PICK s : s = toExt[1]
      OBVIOUS
    <2>2. /\ Drops(toExt, toExt') /\ UNCHANGED <<left, failures>> /\ s.ask \in Raised
          /\ \/ outcome' = [outcome EXCEPT ![s.ask] = SettledAs(s)]
             \/ /\ UNCHANGED outcome
                /\ slot[kind[s.ask]] = s.ask => outcome[s.ask] # "open"
      BY <1>6, <2>1, ExtensionEffect
    <2>3. outcome'[s.ask] # "open" /\ \A j \in Raised : outcome'[j] = "open" => outcome[j] = "open"
      BY <2>2 DEF Base, TITypeOK, SettledAs, SlotInv
    <2>4. ASSUME failures = 0, NEW i \in left, outcome'[i] = "open"
          PROVE  \E p \in DOMAIN toExt' : toExt'[p] = [ask |-> i, reply |-> 0]
      <3>1. i \in Raised /\ outcome[i] = "open" /\ i # s.ask
        BY <2>3, <2>4 DEF Base, TITypeOK
      <3>2. PICK p \in DOMAIN toExt : toExt[p] = [ask |-> i, reply |-> 0]
        BY <2>4, <3>1 DEF LeftInv
      <3>3. p # 1
        BY <2>1, <3>1, <3>2
      <3> QED BY <2>2, <3>2, <3>3 DEF Drops
    <2> QED BY <2>2, <2>4 DEF LeftInv
  <1>7. CASE Undeliverable
    <2>1. failures' # 0
      <3>1. failures \in Nat
        BY DEF Base, TITypeOK
      <3>2. failures' = failures + 1
        BY <1>7, UndeliverableEffect
      <3> QED BY <3>1, <3>2
    <2> QED BY <2>1 DEF LeftInv
  <1>8. CASE SlashNew
    <2>1. UNCHANGED left /\ \A i \in Raised : outcome'[i] # "open"
      BY <1>8, SlashEffect
    <2> QED BY <2>1 DEF LeftInv, Base, TITypeOK
  <1> QED BY <1>1, <1>2, <1>3, <1>4, <1>5, <1>6, <1>7, <1>8, Steps

-----------------------------------------------------------------------------
(* The theorems.                                                           *)

LEMMA Invariance == TISpec => []IInv
  <1>1. TIInit => IInv
    <2> SUFFICES ASSUME TIInit PROVE IInv
      OBVIOUS
    <2>1. /\ kind = <<>> /\ outcome = <<>> /\ completing = {} /\ slot = [k \in AskKind |-> NoAsk]
          /\ toExt = <<>> /\ toMain = <<>> /\ record = [k \in AskKind |-> NoRecord]
          /\ posting = {} /\ replies = <<>> /\ flying = {} /\ online = TRUE /\ going = 0
          /\ undelivered = {} /\ inApp = {} /\ left = {} /\ accepted = {}
          /\ timeouts = 0 /\ failures = 0 /\ offlines = 0 /\ resets = 0
      BY DEF TIInit
    <2>2. Raised = {} /\ DOMAIN toExt = {} /\ DOMAIN toMain = {} /\ DOMAIN replies = {}
      BY <2>1 DEF Raised
    <2>3. \A k \in AskKind : record[k].ask = NoAsk /\ ~record[k].latched
      BY <2>1 DEF NoRecord
    <2>4. Base
      <3>1. RuntimeTypes
        BY <2>1, <2>2, EmptySeq, ThreadAssumption DEF RuntimeTypes
      <3>2. ChannelTypes
        BY <2>1, <2>2, EmptySeq DEF ChannelTypes
      <3>3. ServiceTypes
        <4>1. NoRecord \in Rec
          BY DEF NoRecord, Rec
        <4> QED BY <2>1, <2>2, <2>3, <4>1, EmptySeq DEF ServiceTypes
      <3>4. CountTypes /\ ConnectionTypes
        BY <2>1, ThreadAssumption DEF CountTypes, ConnectionTypes
      <3> QED BY <3>1, <3>2, <3>3, <3>4, BaseParts
    <2>5. SettledInv /\ SlotInv /\ FreshInv /\ FlightInv
      BY <2>1, <2>2 DEF SettledInv, SlotInv, TakenOnce, FreshInv, FlightInv
    <2>6. LatchInv /\ NoticeInv
      BY <2>1, <2>2, <2>3 DEF LatchInv, OneReplyAtATime, NoticeInv, OfflineInv, AheadInv, InAppNoticeIsTrue
    <2>7. AnnounceInv /\ LeftInv
      BY <2>1, <2>2, <2>3 DEF AnnounceInv, Dead, LeftInv
    <2> QED BY <2>4, <2>5, <2>6, <2>7 DEF IInv
  <1>2. IInv /\ [TINext]_tiVars => IInv'
    <2> SUFFICES ASSUME IInv, TINext \/ UNCHANGED tiVars PROVE IInv'
      OBVIOUS
    <2>1. /\ Base /\ SettledInv /\ SlotInv /\ FreshInv /\ FlightInv /\ LatchInv /\ NoticeInv
          /\ AnnounceInv /\ LeftInv
      BY DEF IInv
    <2>2. Base' /\ SettledInv' /\ SlotInv'
      BY <2>1, BaseStep, SettledStep, SlotStep
    <2>3. FreshInv' /\ FlightInv' /\ LatchInv'
      BY <2>1, <2>2, FreshStep, FlightStep, LatchStep
    <2>4. NoticeInv' /\ AnnounceInv' /\ LeftInv'
      BY <2>1, NoticeStep, AnnounceStep, LeftStep
    <2> QED BY <2>2, <2>3, <2>4 DEF IInv
  <1> QED BY <1>1, <1>2, PTL DEF TISpec

(* A submission resolves the interaction it is for: the extension checks   *)
(* its requestId against the slot (executeCommand), and the slot is filled *)
(* before a submission for the interaction can be made.                    *)
THEOREM RepliesAreAddressed == TISpec => []RightAddressee
  <1>1. IInv => RightAddressee
    BY DEF IInv, SlotInv, RightAddressee
  <1> QED BY <1>1, Invariance, PTL

(* An interaction is resolved from Teams at most once, and no reply is     *)
(* submitted while another to the same interaction is awaited: the latch   *)
(* of a record (tryRouteThreadReply, settleResolution) is held exactly as  *)
(* long as a submission for it is under way.                               *)
THEOREM OneAnswer == TISpec => []AnsweredOnce
  <1>1. IInv => AnsweredOnce
    BY DEF IInv, Base, SlotInv, LatchInv, AnsweredOnce
  <1> QED BY <1>1, Invariance, PTL

(* The thread is told "Answered in the app" only of what was answered      *)
(* there, and a reply to a dead question or form is followed by a notice   *)
(* that it was not delivered, by the time nothing is under way             *)
(* (maybeLocalResolveByRequestId, settleResolution).                       *)
THEOREM ThreadIsTold == TISpec => []NoticesAreTrue
  <1>1. IInv => NoticesAreTrue
    <2> SUFFICES ASSUME IInv PROVE NoticesAreTrue
      OBVIOUS
    <2>1. InAppNoticeIsTrue
      BY DEF IInv, NoticeInv
    <2>2. DeadRecordIsAnnounced
      <3> SUFFICES ASSUME AtRest, resets = 0, NEW k \in AskKind \ {"plan"}, Dead(k)
                   PROVE  record[k].ask \in undelivered
        BY DEF DeadRecordIsAnnounced
      <3>1. DOMAIN toExt = {} /\ DOMAIN toMain = {} /\ completing = {}
        BY DEF AtRest
      <3>2. flying = {}
        BY <3>1 DEF IInv, FlightInv
      <3>3. ~Completes(record[k].ask)
        BY <3>1 DEF Completes
      <3> QED BY <3>2, <3>3 DEF IInv, AnnounceInv
    <2> QED BY <2>1, <2>2 DEF NoticesAreTrue
  <1> QED BY <1>1, Invariance, PTL

(* What goOffline dropped unanswered does not keep the agent's turn        *)
(* blocked: its automatic rejection or cancellation is accepted, since the *)
(* slot still holds what is open.                                          *)
THEOREM DroppedIsFreed == TISpec => []OfflineFreesTheTurn
  <1>1. IInv => OfflineFreesTheTurn
    <2> SUFFICES ASSUME IInv, AtRest, failures = 0, NEW i \in left, outcome[i] = "open" PROVE FALSE
      BY DEF OfflineFreesTheTurn
    <2>1. DOMAIN toExt = {}
      BY DEF AtRest
    <2> QED BY <2>1 DEF IInv, LeftInv
  <1> QED BY <1>1, Invariance, PTL

=============================================================================
