------------------------- MODULE ThreadInteractions -------------------------
(***************************************************************************)
(* The interactions of one online agent that a reply in its Teams thread   *)
(* can resolve: ask_user questions, exit_plan_mode plans and elicitation   *)
(* forms, from the Copilot runtime through the TUI extension's slots and   *)
(* the terminal server to TeamsService's pending records, and back.        *)
(*                                                                         *)
(* An interaction is a number, in the order the runtime raised them; it    *)
(* stands for its requestId, and for the record TeamsService makes of it   *)
(* (one event makes one record).  Frames from the extension travel in one  *)
(* order through the broker, the server and the relay.  A reply is one     *)
(* that parses: one that does not is answered by a nudge and changes       *)
(* nothing.  The wording of posts, the SDK and node-pty backends, and a    *)
(* second goOffline of the agent during the first are left out.            *)
(***************************************************************************)
EXTENDS Naturals, Sequences, FiniteSets

CONSTANTS
    AskKind,        \* the kinds of interaction that occur
    MaxAsks,        \* bound: interactions raised
    MaxReplies,     \* bound: replies routed to a record
    MaxAppAnswers,  \* bound: interactions resolved in the app
    MaxTimeouts,    \* bound: submissions whose request times out
    MaxFailures,    \* bound: submissions that do not reach the extension
    MaxOffline,     \* bound: disconnections of the agent
    MaxResets       \* bound: /new and /clear

(* The kinds are those an extension has a slot for.                        *)
ASSUME ThreadAssumption ==
    /\ AskKind \subseteq {"question", "plan", "form"}
    /\ {MaxAsks, MaxReplies, MaxAppAnswers, MaxTimeouts, MaxFailures, MaxOffline, MaxResets}
          \subseteq Nat

VARIABLES
    kind,       \* the kinds of the interactions raised, in order
    outcome,    \* how the runtime settled each of them
    completing, \* settled ones whose completed event is not out yet
    slot,       \* the extension's pending interaction of each kind, 0 if none
    toExt,      \* submissions on their way to the extension
    toMain,     \* events and responses on their way to TeamsService
    record,     \* pendingQuestions, pendingPlans, pendingElicitations
    posting,    \* plans whose body onPlanEvent is posting
    replies,    \* the interaction each reply was submitted for, in order
    flying,     \* replies whose submission is awaited
    online,     \* the agent has an online binding
    going,      \* goOffline: the notice it awaits, 0 if it is not under way
    undelivered,\* interactions with a "couldn't deliver ... reply again" notice
    inApp,      \* interactions with an "Answered in the app" notice
    left,       \* plans and forms whose unlatched record goOffline dropped
    accepted,   \* ghost: submissions that resolved a slot, with what they were for
    timeouts, failures, offlines, resets

runtimeVars == <<kind, outcome, completing, slot>>
channelVars == <<toExt, toMain>>
serviceVars == <<record, posting, replies, flying>>
connectionVars == <<online, going, offlines, left>>
noticeVars == <<undelivered, inApp>>
countVars == <<timeouts, failures, resets>>
tiVars == <<runtimeVars, channelVars, serviceVars, connectionVars, noticeVars, accepted,
          countVars>>

Ask == 1..MaxAsks
NoAsk == 0
NoRecord == [ask |-> NoAsk, latched |-> FALSE]
Pending(i) == [ask |-> i, latched |-> FALSE]

(* Submission 0 is an automatic one: TeamsService does not use its answer. *)
Submission == [ask : Ask, reply : 0..MaxReplies]
Message == [type : {"requested", "completed"}, ask : Ask]
           \cup [type : {"response"}, reply : 0..MaxReplies, ok : BOOLEAN]

Raised == DOMAIN kind

TITypeOK ==
    /\ kind \in Seq(AskKind)
    /\ Len(kind) <= MaxAsks
    /\ outcome \in [Raised -> {"open", "app", "teams", "offline", "killed"}]
    /\ completing \subseteq Raised
    /\ slot \in [AskKind -> Ask \cup {NoAsk}]
    /\ toExt \in Seq(Submission)
    /\ toMain \in Seq(Message)
    /\ record \in [AskKind -> [ask : Ask \cup {NoAsk}, latched : BOOLEAN]]
    /\ \A k \in AskKind : record[k].ask # NoAsk => kind[record[k].ask] = k
    /\ \A k \in AskKind : slot[k] # NoAsk => kind[slot[k]] = k
    /\ posting \subseteq Raised
    /\ replies \in Seq(Ask)
    /\ flying \subseteq DOMAIN replies
    /\ online \in BOOLEAN
    /\ going \in 0..4
    /\ undelivered \cup inApp \cup left \subseteq Raised
    /\ accepted \subseteq [for : Ask, slot : Ask, reply : 0..MaxReplies]
    /\ timeouts \in 0..MaxTimeouts
    /\ failures \in 0..MaxFailures
    /\ offlines \in 0..MaxOffline
    /\ resets \in 0..MaxResets

TIInit ==
    /\ kind = <<>>
    /\ outcome = <<>>
    /\ completing = {}
    /\ slot = [k \in AskKind |-> NoAsk]
    /\ toExt = <<>>
    /\ toMain = <<>>
    /\ record = [k \in AskKind |-> NoRecord]
    /\ posting = {}
    /\ replies = <<>>
    /\ flying = {}
    /\ online = TRUE
    /\ going = 0
    /\ undelivered = {}
    /\ inApp = {}
    /\ left = {}
    /\ accepted = {}
    /\ timeouts = 0
    /\ failures = 0
    /\ offlines = 0
    /\ resets = 0

EventOf(type, i) == [type |-> type, ask |-> i]
Response(n, ok) == [type |-> "response", reply |-> n, ok |-> ok]

-----------------------------------------------------------------------------
(* The runtime and the extension.  The runtime has one open interaction of *)
(* a kind at a time: the extension takes a new one for the proof that its  *)
(* slot is stale, and settles that slot's promise, which changes nothing   *)
(* at the runtime.  The callback fills the slot and the requested event,   *)
(* which follows it, gives it the requestId: no submission for the new     *)
(* interaction can come between.                                           *)

Raise(k) ==
    LET i == Len(kind) + 1 IN
    /\ i \in Ask
    /\ \A j \in Raised : kind[j] = k => outcome[j] # "open"
    /\ kind' = Append(kind, k)
    /\ outcome' = Append(outcome, "open")
    /\ slot' = [slot EXCEPT ![k] = i]
    /\ toMain' = Append(toMain, EventOf("requested", i))
    /\ UNCHANGED <<completing, toExt, serviceVars, connectionVars, noticeVars, accepted,
                   countVars>>

(* The user answers, or dismisses, the interaction in the TUI.             *)
AnswerInApp(i) ==
    /\ outcome[i] = "open"
    /\ Cardinality({j \in Raised : outcome[j] = "app"}) < MaxAppAnswers
    /\ outcome' = [outcome EXCEPT ![i] = "app"]
    /\ completing' = completing \cup {i}
    /\ UNCHANGED <<kind, slot, channelVars, serviceVars, connectionVars, noticeVars, accepted,
                   countVars>>

(* The completed event clears the slot of its own interaction only.        *)
ClearsSlot(i) == slot[kind[i]] = i

Complete(i) ==
    /\ i \in completing
    /\ completing' = completing \ {i}
    /\ slot' = [slot EXCEPT ![kind[i]] = IF ClearsSlot(i) THEN NoAsk ELSE @]
    /\ toMain' = Append(toMain, EventOf("completed", i))
    /\ UNCHANGED <<kind, outcome, toExt, serviceVars, connectionVars, noticeVars, accepted,
                   countVars>>

(* submit-answer, submit-plan-decision, submit-elicitation: an error unless *)
(* the slot holds the interaction the submission names.  (Mutant: whatever *)
(* the slot holds is resolved.)                                            *)
AcceptsAny(s) == slot[kind[s.ask]] # NoAsk

Accepts(s) == slot[kind[s.ask]] = s.ask

(* A resolved slot is emptied.  (Mutant: it is kept.)                      *)
Kept(k) == slot

Emptied(k) == [slot EXCEPT ![k] = NoAsk]

SettledAs(s) == IF s.reply = 0 THEN "offline" ELSE "teams"

Execute(s) ==
    LET k == kind[s.ask] IN
    IF Accepts(s)
    THEN /\ slot' = Emptied(k)
         /\ accepted' = accepted \cup {[for |-> s.ask, slot |-> slot[k], reply |-> s.reply]}
         /\ IF outcome[slot[k]] = "open"
            THEN /\ outcome' = [outcome EXCEPT ![slot[k]] = SettledAs(s)]
                 /\ completing' = completing \cup {slot[k]}
            ELSE UNCHANGED <<outcome, completing>>
         /\ toMain' = Append(toMain, Response(s.reply, TRUE))
    ELSE /\ toMain' = Append(toMain, Response(s.reply, FALSE))
         /\ UNCHANGED <<slot, accepted, outcome, completing>>

ExtensionReceives ==
    /\ toExt # <<>>
    /\ Execute(Head(toExt))
    /\ toExt' = Tail(toExt)
    /\ UNCHANGED <<kind, serviceVars, connectionVars, noticeVars, countVars>>

(* The server has no terminal or no connection for the submission.         *)
Undeliverable ==
    /\ toExt # <<>>
    /\ failures < MaxFailures
    /\ failures' = failures + 1
    /\ toMain' = Append(toMain, Response(Head(toExt).reply, FALSE))
    /\ toExt' = Tail(toExt)
    /\ UNCHANGED <<runtimeVars, serviceVars, connectionVars, noticeVars, accepted, timeouts,
                   resets>>

(* What a killed terminal leaves of the submissions on their way to it.    *)
Refusals == [n \in DOMAIN toExt |-> Response(toExt[n].reply, FALSE)]

(* /new and /clear, intercepted before the records are looked at: the      *)
(* terminal is killed, its interactions with it, and no completed event    *)
(* comes.  The records stay.                                               *)
SlashNew ==
    /\ online
    /\ resets < MaxResets
    /\ resets' = resets + 1
    /\ outcome' = [i \in Raised |-> IF outcome[i] = "open" THEN "killed" ELSE outcome[i]]
    /\ completing' = {}
    /\ slot' = [k \in AskKind |-> NoAsk]
    /\ toExt' = <<>>
    /\ toMain' = toMain \o Refusals
    /\ UNCHANGED <<kind, serviceVars, connectionVars, noticeVars, accepted, timeouts, failures>>

-----------------------------------------------------------------------------
(* TeamsService: the events.                                               *)

(* onAskUserEvent and onElicitationEvent make the record before they post; *)
(* onPlanEvent posts the plan's body first.                                *)
OnRequested(i) ==
    /\ IF online
       THEN IF kind[i] = "plan"
            THEN posting' = posting \cup {i} /\ UNCHANGED record
            ELSE record' = [record EXCEPT ![kind[i]] = Pending(i)] /\ UNCHANGED posting
       ELSE UNCHANGED <<record, posting>>
    /\ UNCHANGED <<replies, flying, noticeVars>>

PlanBodyPosted(i) ==
    /\ i \in posting
    /\ posting' = posting \ {i}
    /\ record' = [record EXCEPT !["plan"] = Pending(i)]
    /\ UNCHANGED <<runtimeVars, channelVars, replies, flying, connectionVars, noticeVars,
                   accepted, countVars>>

(* maybeLocalResolve...ByRequestId: a record that is latched, or another   *)
(* interaction's, is left alone.  (Mutant: the record of the kind.)        *)
HandlesAny(i) == record[kind[i]].ask # NoAsk /\ ~record[kind[i]].latched

HandledInApp(i) == record[kind[i]].ask = i /\ ~record[kind[i]].latched

OnCompleted(i) ==
    /\ IF HandledInApp(i)
       THEN /\ record' = [record EXCEPT ![kind[i]] = NoRecord]
            /\ inApp' = inApp \cup {record[kind[i]].ask}
       ELSE UNCHANGED <<record, inApp>>
    /\ UNCHANGED <<posting, replies, flying, undelivered>>

(* settleResolution, settlePlanResolution, settleElicitationResolution: a  *)
(* success deletes the agent's record, a failure releases the latch of the *)
(* record if it is still the pending one.  (Mutant of both: it stays as it *)
(* is.)                                                                    *)
Untouched(k) == record

Removed(k) == [record EXCEPT ![k] = NoRecord]

Released(k) == [record EXCEPT ![k].latched = FALSE]

Settle(i, ok) ==
    LET k == kind[i] IN
    IF ok
    THEN record' = Removed(k) /\ UNCHANGED undelivered
    ELSE IF record[k].ask = i
         THEN record' = Released(k) /\ undelivered' = undelivered \cup {i}
         ELSE UNCHANGED <<record, undelivered>>

OnResponse(n, ok) ==
    /\ flying' = flying \ {n}
    /\ IF n \in flying THEN Settle(replies[n], ok) ELSE UNCHANGED <<record, undelivered>>
    /\ UNCHANGED <<posting, replies, inApp>>

MainReceives ==
    /\ toMain # <<>>
    /\ LET m == Head(toMain) IN
       CASE m.type = "requested" -> OnRequested(m.ask)
         [] m.type = "completed" -> OnCompleted(m.ask)
         [] m.type = "response" -> OnResponse(m.reply, m.ok)
    /\ toMain' = Tail(toMain)
    /\ UNCHANGED <<runtimeVars, toExt, connectionVars, accepted, countVars>>

(* The relay gives up on a request; its answer, if it comes, settles nothing. *)
RequestTimesOut(n) ==
    /\ n \in flying
    /\ timeouts < MaxTimeouts
    /\ timeouts' = timeouts + 1
    /\ flying' = flying \ {n}
    /\ Settle(replies[n], FALSE)
    /\ UNCHANGED <<runtimeVars, channelVars, posting, replies, connectionVars, inApp, accepted,
                   failures, resets>>

-----------------------------------------------------------------------------
(* TeamsService: the thread and the connection.                            *)

(* handleInbound's order; a reply to a latched record is dropped.          *)
(* (Mutant: it is taken.)                                                  *)
Routed ==
    CHOOSE k \in AskKind :
        /\ record[k].ask # NoAsk
        /\ \/ k = "plan"
           \/ k = "question" /\ ("plan" \in AskKind => record["plan"].ask = NoAsk)
           \/ \A j \in AskKind : record[j].ask # NoAsk => j = k

Addressed == \E k \in AskKind : record[k].ask # NoAsk

TakesAlways(k) == TRUE

Takes(k) == ~record[k].latched

Reply ==
    /\ online
    /\ Addressed
    /\ Len(replies) < MaxReplies
    /\ LET k == Routed
           n == Len(replies) + 1 IN
       /\ Takes(k)
       /\ record' = [record EXCEPT ![k].latched = TRUE]
       /\ replies' = Append(replies, record[k].ask)
       /\ flying' = flying \cup {n}
       /\ toExt' = Append(toExt, [ask |-> record[k].ask, reply |-> n])
    /\ UNCHANGED <<runtimeVars, toMain, posting, connectionVars, noticeVars, accepted,
                   countVars>>

(* goOffline drops the question, the plan and the form in this order, with *)
(* a notice awaited after each it finds, then posts its own notice (4).    *)
Order == <<"question", "plan", "form">>

Found(p) == {q \in (p + 1)..3 : Order[q] \in AskKind /\ record[Order[q]].ask # NoAsk}

NextStop(p) ==
    IF Found(p) = {} THEN 4 ELSE CHOOSE q \in Found(p) : \A r \in Found(p) : q <= r

(* A plan is rejected, a form cancelled, unless a reply has claimed it; a  *)
(* question is only dropped.  (Mutant: nothing is submitted.)              *)
NothingUnclaimed(k) == FALSE

Unclaimed(k) == k # "question" /\ ~record[k].latched

Drop(q) ==
    IF q = 4
    THEN UNCHANGED <<record, toExt, left>>
    ELSE LET k == Order[q] IN
         /\ record' = [record EXCEPT ![k] = NoRecord]
         /\ left' = IF k # "question" /\ ~record[k].latched
                    THEN left \cup {record[k].ask} ELSE left
         /\ toExt' = IF Unclaimed(k)
                     THEN Append(toExt, [ask |-> record[k].ask, reply |-> 0])
                     ELSE toExt

GoOffline ==
    /\ online
    /\ going = 0
    /\ offlines < MaxOffline
    /\ offlines' = offlines + 1
    /\ going' = NextStop(0)
    /\ Drop(NextStop(0))
    /\ UNCHANGED <<runtimeVars, toMain, posting, replies, flying, online, noticeVars, accepted,
                   countVars>>

GoOfflineGoesOn ==
    /\ going \in 1..3
    /\ going' = NextStop(going)
    /\ Drop(NextStop(going))
    /\ UNCHANGED <<runtimeVars, toMain, posting, replies, flying, online, offlines,
                   noticeVars, accepted, countVars>>

GoOfflineEnds ==
    /\ going = 4
    /\ going' = 0
    /\ online' = FALSE
    /\ UNCHANGED <<runtimeVars, channelVars, serviceVars, offlines, left, noticeVars, accepted,
                   countVars>>

Reconnect ==
    /\ ~online
    /\ online' = TRUE
    /\ UNCHANGED <<runtimeVars, channelVars, serviceVars, going, offlines, left, noticeVars,
                   accepted, countVars>>

TINext ==
    \/ \E k \in AskKind : Raise(k)
    \/ \E i \in Raised : AnswerInApp(i) \/ Complete(i) \/ PlanBodyPosted(i)
    \/ ExtensionReceives \/ Undeliverable \/ SlashNew \/ MainReceives
    \/ \E n \in flying : RequestTimesOut(n)
    \/ Reply \/ GoOffline \/ GoOfflineGoesOn \/ GoOfflineEnds \/ Reconnect

TISpec == TIInit /\ [][TINext]_tiVars

(* Messages, completed events and awaited posts arrive.                    *)
Fairness ==
    /\ WF_tiVars(ExtensionReceives)
    /\ WF_tiVars(MainReceives)
    /\ \A i \in Ask : WF_tiVars(i \in Raised /\ Complete(i))
    /\ \A i \in Ask : WF_tiVars(i \in Raised /\ PlanBodyPosted(i))
    /\ WF_tiVars(GoOfflineGoesOn \/ GoOfflineEnds)

FairSpec == TISpec /\ Fairness

-----------------------------------------------------------------------------
(* Safety.                                                                 *)

(* A submission resolves the interaction it is for and no other, whatever  *)
(* the user has answered in the TUI and the agent has asked meanwhile      *)
(* (executeCommand's requestId checks).                                    *)
RightAddressee == \A t \in accepted : t.slot = t.for

(* FR-007: an interaction is resolved from Teams at most once.             *)
TakenOnce == \A t, u \in accepted : t.slot = u.slot => t = u

(* FR-007: a reply is not submitted while another reply to the same        *)
(* interaction is awaited (the `resolved' latch).                          *)
OneReplyAtATime == \A m, n \in flying : replies[m] = replies[n] => m = n

(* The variables have their types, and an interaction is answered once,    *)
(* whoever replies how often.                                              *)
AnsweredOnce == TITypeOK /\ OneReplyAtATime /\ TakenOnce

(* maybeLocalResolve...ByRequestId: the thread is told "Answered in the    *)
(* app" only of what was answered there, since a reply's response and the  *)
(* completed event it causes arrive in this order, unless the request for  *)
(* the reply timed out.                                                    *)
InAppNoticeIsTrue == timeouts = 0 => \A i \in inApp : outcome[i] = "app"

(* Nothing is under way between the runtime and the thread.                *)
AtRest ==
    /\ toExt = <<>>
    /\ toMain = <<>>
    /\ completing = {}
    /\ posting = {}
    /\ going = 0

Dead(k) == record[k].ask # NoAsk /\ outcome[record[k].ask] # "open"

(* FR-009: replies are not treated as answers to an interaction that can   *)
(* no longer be answered.                                                  *)
RecordsCanBeAnswered == AtRest => \A k \in AskKind : ~Dead(k)

(* What is left of FR-009 when replies race with the app, and no /new took *)
(* an event with it: the thread was told that a reply to a dead question   *)
(* or form was not delivered.                                              *)
DeadRecordIsAnnounced ==
    AtRest /\ resets = 0 =>
        \A k \in AskKind \ {"plan"} : Dead(k) => record[k].ask \in undelivered

(* The thread is told what happened.                                       *)
NoticesAreTrue == InAppNoticeIsTrue /\ DeadRecordIsAnnounced

(* goOffline: "auto-reject any outstanding exit_plan_mode approval so the  *)
(* blocked handler resolves", "auto-cancel any outstanding form": what it  *)
(* dropped unanswered does not keep the agent's turn blocked, if what it   *)
(* submits arrives (it does not look at the answers).                      *)
OfflineFreesTheTurn == AtRest /\ failures = 0 => \A i \in left : outcome[i] # "open"

-----------------------------------------------------------------------------
(* Liveness.                                                               *)

(* A latched record is released or removed: no reply is dropped for ever   *)
(* on account of a submission that failed.                                 *)
LatchIsReleased ==
    \A k \in AskKind : record[k].latched ~> ~record[k].latched

=============================================================================
