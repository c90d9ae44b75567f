--------------------------- MODULE TeamsDispatch ---------------------------
(***************************************************************************)
(* One agent's thread: replies of people become prompts, one at a time,    *)
(* and what the agent says, whoever asked, is posted in the thread by      *)
(* writes that follow one another.  The app hears its own posts again.     *)
(*                                                                         *)
(* A turn ends a response only when nothing follows for a while, which is  *)
(* a timer (settle); a second one, of ten minutes, is armed per prompt.    *)
(* Prompts and pieces of output are numbered.  The channels, the texts     *)
(* and the interactions of a turn (ThreadInteractions) are left out.       *)
(***************************************************************************)
EXTENDS Naturals, Sequences, SequencesExt

CONSTANTS
    MaxPrompts,      \* bound: replies of people
    MaxOutputs,      \* bound: pieces of output
    MaxRetries,      \* of a write that Graph throttles
    MaxAsides,       \* bound: posts that are no output: requests, acks, commands, notices
    MaxRefusals,     \* bound: writes that Graph refuses
    LateFailures,    \* whether submitPrompt may fail after its turn was closed
    EarlyEchoes      \* whether an echo may come before Graph has answered the post

ASSUME DispatchAssumption == MaxPrompts \in Nat /\ MaxOutputs \in Nat /\ MaxRetries \in Nat

VARIABLES
    binding,         \* "online", "paused" or "gone"
    noticePosted,    \* of the known thread
    seen,            \* the message filter's memory of prompts
    queue,           \* DispatchQueue: prompts that wait
    item,            \* the prompt that process() was called with, 0 if none
    pending,         \* the PendingTurn of the agent
    ambient,         \* the AmbientTurn of the agent
    timers,          \* prompts whose ten minutes are not over
    submitting,      \* prompts whose submitPrompt has not settled
    closing,         \* finalizations that await their posts
    strays,          \* settle timers of records that were dropped while they ran
    renders,         \* output that is being rendered as an image
    jobs,            \* the thread's writes, in the order of their promises
    echoes,          \* ids of posts whose echo has not been heard
    postedMessageIds,
    agent,           \* whether a turn of the agent runs
    emitted, asides, \* how much output and how many other posts there were
    written,         \* how many posts Teams has
    settledOutput,   \* ghost: output that was posted, or that Graph refused for good
    cut,             \* ghost: output dropped with the turn it belonged to
    submitted,       \* ghost: what submitPrompt was called with
    refusals

inboundVars == <<binding, noticePosted, seen, queue>>
turnVars == <<item, pending, ambient, timers, submitting, closing, strays>>
postVars == <<renders, jobs, echoes, written, postedMessageIds>>
ghosts == <<settledOutput, cut, submitted>>
dispatchVars == <<inboundVars, turnVars, postVars, agent, emitted, asides, ghosts, refusals>>

Prompt == 1..MaxPrompts
Echo == MaxPrompts + 1    \* a post of the app, taken for a reply
Output == 1..MaxOutputs
None == 0
NoTurn == [prompt |-> None, chunks |-> <<>>, settle |-> FALSE, open |-> FALSE]
Turn(p) == [NoTurn EXCEPT !.prompt = p, !.open = TRUE]

TypeOK ==
    /\ binding \in {"online", "paused", "gone"} /\ noticePosted \in BOOLEAN
    /\ seen \subseteq Prompt /\ queue \in Seq(Prompt \cup {Echo}) /\ item \in 0..Echo
    /\ \A turn \in {pending, ambient} :
          turn \in [prompt : 0..Echo, chunks : Seq(Output), settle : BOOLEAN, open : BOOLEAN]
    /\ timers \subseteq 1..Echo /\ submitting \subseteq 1..Echo
    /\ closing \subseteq [prompt : 1..Echo, stage : {"flush", "notify"}]
    /\ renders \subseteq [chunks : Seq(Output), closes : 0..Echo]
    /\ jobs \in Seq([chunks : Seq(Output), closes : 0..Echo, image : BOOLEAN,
                     tries : 0..MaxRetries, stored : BOOLEAN, id : Nat])
    /\ submitted \in Seq(1..Echo)

Init ==
    /\ binding = "online" /\ noticePosted = FALSE /\ seen = {} /\ queue = <<>>
    /\ item = None /\ pending = NoTurn /\ ambient = NoTurn
    /\ timers = {} /\ submitting = {} /\ closing = {} /\ strays = 0
    /\ renders = {} /\ jobs = <<>> /\ echoes = {} /\ postedMessageIds = {} /\ written = 0
    /\ agent = FALSE /\ emitted = 0 /\ asides = 0
    /\ settledOutput = {} /\ cut = {} /\ submitted = <<>> /\ refusals = 0

Set(chunks) == ToSet(chunks)
Job(chunks, p, asImage) == [chunks |-> chunks, closes |-> p, image |-> asImage, tries |-> 0,
                            stored |-> FALSE, id |-> 0]

(* replyToThread through serialize(): the write runs after those before.   *)
Reply(chunks, p, asImage) == jobs' = Append(jobs, Job(chunks, p, asImage))

(* An acknowledgement, a check-in, a command's result, a local request.    *)
PostsAside ==
    /\ asides < MaxAsides /\ asides' = asides + 1
    /\ Reply(<<>>, None, FALSE)
    /\ UNCHANGED <<renders, echoes, written, postedMessageIds>>

(* A bug: the text is posted beside its image.                             *)
FlushBoth(chunks, p) ==
    IF chunks = <<>> THEN UNCHANGED <<renders, jobs>>
    ELSE /\ renders' = renders \cup {[chunks |-> chunks, closes |-> p]}
         /\ Reply(chunks, p, FALSE)

(* flushTurn and flushAmbient: a reply that qualifies is rendered first.   *)
Flush(chunks, p) ==
    IF chunks = <<>> THEN UNCHANGED <<renders, jobs>>
    ELSE \/ renders' = renders \cup {[chunks |-> chunks, closes |-> p]} /\ UNCHANGED jobs
         \/ Reply(chunks, p, FALSE) /\ UNCHANGED renders

-----------------------------------------------------------------------------
(* The queue.                                                              *)

Calm == item # None \/ queue = <<>>

(* processDispatch, which drain() calls with the next prompt.              *)
ProcessDispatch ==
    /\ ~Calm
    /\ queue' = Tail(queue)
    /\ IF binding # "online"
       THEN UNCHANGED <<item, pending, timers, submitting, submitted>>
       ELSE /\ item' = Head(queue)
            /\ pending' = Turn(Head(queue))
            /\ timers' = timers \cup {Head(queue)}
            /\ submitting' = submitting \cup {Head(queue)}
            /\ submitted' = Append(submitted, Head(queue))
    /\ UNCHANGED <<binding, noticePosted, seen, ambient, closing, strays, postVars, agent,
                   emitted, asides, settledOutput, cut, refusals>>

Resolved(p) == IF item = p THEN None ELSE item

SubmitPromptReturns(p) ==
    /\ p \in submitting
    /\ submitting' = submitting \ {p}
    /\ UNCHANGED <<inboundVars, item, pending, ambient, timers, closing, strays, postVars,
                   agent, emitted, asides, ghosts, refusals>>

(* Its rejection deletes the agent's turn, whichever prompt that is for.   *)
SubmitPromptFails(p) ==
    /\ p \in submitting
    /\ LateFailures \/ pending.prompt \in {p, None}
    /\ submitting' = submitting \ {p}
    /\ pending' = NoTurn
    /\ cut' = cut \cup Set(pending.chunks)
    /\ strays' = strays + (IF pending.settle THEN 1 ELSE 0)
    /\ item' = Resolved(p)
    /\ UNCHANGED <<inboundVars, ambient, timers, closing, postVars, agent, emitted, asides,
                   settledOutput, submitted, refusals>>

(* finalizeDispatch: the turn is deleted before its last posts are awaited.*)
FinalizeDispatch ==
    /\ Flush(pending.chunks, pending.prompt)
    /\ closing' = closing \cup
          {[prompt |-> pending.prompt,
            stage |-> IF pending.chunks = <<>> THEN "notify" ELSE "flush"]}
    /\ pending' = NoTurn
    /\ UNCHANGED <<inboundVars, item, ambient, submitting, echoes, written, postedMessageIds, agent,
                   emitted, asides, ghosts, refusals>>

SettleFires == pending.settle /\ FinalizeDispatch /\ UNCHANGED <<timers, strays>>

StraySettleFires ==
    /\ strays > 0 /\ strays' = strays - 1
    /\ IF pending.open THEN FinalizeDispatch /\ UNCHANGED timers
       ELSE UNCHANGED <<inboundVars, item, pending, ambient, timers, submitting, closing,
                        postVars, agent, emitted, asides, ghosts, refusals>>

(* The timer finalizes only the record it was armed for.                   *)
TimerIsFor(p) == pending.open /\ pending.prompt = p
TenMinutes(p) ==
    /\ p \in timers /\ timers' = timers \ {p}
    /\ IF TimerIsFor(p) THEN FinalizeDispatch /\ UNCHANGED strays
       ELSE UNCHANGED <<inboundVars, item, pending, ambient, submitting, closing, strays,
                        postVars, agent, emitted, asides, ghosts, refusals>>

(* The completion ping was posted, or failed: the queue goes on.           *)
Notified(p) ==
    /\ [prompt |-> p, stage |-> "notify"] \in closing
    /\ closing' = closing \ {[prompt |-> p, stage |-> "notify"]}
    /\ item' = Resolved(p)
    /\ UNCHANGED <<inboundVars, pending, ambient, timers, submitting, strays, postVars, agent,
                   emitted, asides, ghosts, refusals>>

-----------------------------------------------------------------------------
(* onAgentEvent: output goes to the turn of the prompt, else to ambient.   *)

EventFrame == UNCHANGED <<inboundVars, item, timers, submitting, closing, strays,
                          settledOutput, cut, submitted, refusals>>

TurnStart ==
    /\ ~agent /\ agent' = TRUE
    /\ IF pending.open
       THEN pending' = [pending EXCEPT !.settle = FALSE] /\ UNCHANGED ambient
       ELSE /\ ambient' = IF binding = "online"
                          THEN [ambient EXCEPT !.open = TRUE, !.settle = FALSE] ELSE ambient
            /\ UNCHANGED pending
    /\ UNCHANGED <<postVars, emitted, asides>> /\ EventFrame

Message ==
    /\ agent /\ emitted < MaxOutputs /\ binding = "online"
    /\ emitted' = emitted + 1
    /\ IF pending.open
       THEN /\ pending' = [pending EXCEPT !.chunks = Append(@, emitted'), !.settle = FALSE]
            /\ UNCHANGED ambient
       ELSE /\ ambient' = [ambient EXCEPT !.chunks = Append(@, emitted'), !.open = TRUE,
                                          !.settle = FALSE]
            /\ UNCHANGED pending
    /\ UNCHANGED <<postVars, agent, asides>> /\ EventFrame

TurnEnd ==
    /\ agent /\ agent' = FALSE
    /\ IF pending.open
       THEN /\ Flush(pending.chunks, None)
            /\ pending' = [pending EXCEPT !.chunks = <<>>, !.settle = TRUE]
            /\ UNCHANGED ambient
       ELSE IF binding = "online" /\ ambient.open
       THEN /\ Flush(ambient.chunks, None)
            /\ ambient' = [ambient EXCEPT !.chunks = <<>>, !.settle = TRUE]
            /\ UNCHANGED pending
       ELSE UNCHANGED <<pending, ambient, renders, jobs>>
    /\ UNCHANGED <<echoes, written, postedMessageIds, emitted, asides>> /\ EventFrame

(* tool-start: the turn goes on, and a check-in may be posted.             *)
ToolStart ==
    /\ agent /\ pending.open
    /\ pending' = [pending EXCEPT !.settle = FALSE]
    /\ PostsAside \/ UNCHANGED <<postVars, asides>>
    /\ UNCHANGED <<ambient, agent, emitted>> /\ EventFrame

(* A prompt typed in the app is mirrored, one sent from the thread is not. *)
UserMessage ==
    /\ ~pending.open /\ binding = "online"
    /\ PostsAside
    /\ UNCHANGED <<pending, ambient, agent, emitted>> /\ EventFrame

(* finalizeAmbient.                                                        *)
AmbientSettles ==
    /\ ambient.settle
    /\ Flush(ambient.chunks, None)
    /\ ambient' = NoTurn
    /\ UNCHANGED <<pending, echoes, written, postedMessageIds, agent, emitted, asides>> /\ EventFrame

-----------------------------------------------------------------------------
(* Posts.                                                                  *)

PostFrame == UNCHANGED <<inboundVars, item, pending, ambient, timers, submitting, strays,
                         agent, emitted, asides, cut, submitted>>

RenderEnds(r) ==
    /\ r \in renders /\ renders' = renders \ {r}
    /\ \E asImage \in BOOLEAN : Reply(r.chunks, r.closes, asImage)
    /\ PostFrame /\ UNCHANGED <<closing, echoes, written, postedMessageIds, settledOutput, refusals>>

(* Teams has the message: it will be echoed to the app.                    *)
IsStored ==
    /\ jobs # <<>> /\ ~Head(jobs).stored
    /\ written' = written + 1
    /\ jobs' = [jobs EXCEPT ![1] = [@ EXCEPT !.stored = TRUE, !.id = written']]
    /\ echoes' = echoes \cup {written'}
    /\ PostFrame /\ UNCHANGED <<closing, renders, postedMessageIds, settledOutput, refusals>>

Closes(p) == {IF c.prompt = p THEN [c EXCEPT !.stage = "notify"] ELSE c : c \in closing}

(* A bug: the app does not know its own posts.                             *)
Forgotten(id) == postedMessageIds

(* safeReply: the id of the post is remembered.                            *)
Remembered(id) == postedMessageIds \cup {id}
IsAnswered ==
    /\ jobs # <<>> /\ Head(jobs).stored
    /\ jobs' = Tail(jobs)
    /\ postedMessageIds' = Remembered(Head(jobs).id)
    /\ settledOutput' = settledOutput \cup Set(Head(jobs).chunks)
    /\ closing' = Closes(Head(jobs).closes)
    /\ PostFrame /\ UNCHANGED <<renders, echoes, written, refusals>>

(* A bug: one more attempt than the limit.                                 *)
GivenUpLate == Head(jobs).tries > MaxRetries

(* Throttled writes are tried again in their place; then safeReply gives   *)
(* up, and what should have been an image is posted as text.               *)
GivenUp == Head(jobs).tries = MaxRetries
IsRefused ==
    /\ jobs # <<>> /\ ~Head(jobs).stored /\ refusals < MaxRefusals
    /\ refusals' = refusals + 1
    /\ IF ~GivenUp
       THEN jobs' = [jobs EXCEPT ![1].tries = @ + 1] /\ UNCHANGED <<settledOutput, closing>>
       ELSE IF Head(jobs).image
       THEN /\ jobs' = Append(Tail(jobs), Job(Head(jobs).chunks, Head(jobs).closes, FALSE))
            /\ UNCHANGED <<settledOutput, closing>>
       ELSE /\ jobs' = Tail(jobs)
            /\ settledOutput' = settledOutput \cup Set(Head(jobs).chunks)
            /\ closing' = Closes(Head(jobs).closes)
    /\ PostFrame /\ UNCHANGED <<renders, echoes, written, postedMessageIds>>

-----------------------------------------------------------------------------
(* handleInbound, of a reply in the thread.                                *)

InboundFrame == UNCHANGED <<turnVars, agent, emitted, ghosts, refusals>>

Accepts(p) == queue' = Append(queue, p)

(* The filter's memory holds what it saw while the agent was offline too.  *)
SeenBefore(p) == p \in seen
Inbound(p) ==
    /\ binding # "paused" /\ seen' = seen \cup {p}
    /\ IF SeenBefore(p) THEN UNCHANGED <<queue, noticePosted, postVars, asides>>
       ELSE IF binding = "online"
       THEN /\ Accepts(p) /\ UNCHANGED noticePosted
            /\ PostsAside \/ UNCHANGED <<postVars, asides>>
       ELSE /\ noticePosted' = TRUE /\ UNCHANGED queue
            /\ IF noticePosted THEN UNCHANGED <<postVars, asides>>
               ELSE PostsAside \/ UNCHANGED <<postVars, asides>>
    /\ InboundFrame /\ UNCHANGED binding

(* A command in the thread runs apart from the queue and is answered.      *)
SlashCommand ==
    /\ binding = "online" /\ PostsAside
    /\ InboundFrame /\ UNCHANGED inboundVars

(* A post is heard again.  Its marker may not have survived.               *)
IsOwnEcho(id) == id \in postedMessageIds
EchoArrives(id) ==
    /\ id \in echoes /\ echoes' = echoes \ {id}
    /\ EarlyEchoes \/ \A i \in DOMAIN jobs : jobs[i].id # id
    /\ \/ UNCHANGED queue /\ (IsOwnEcho(id) \/ binding # "online" \/ EarlyEchoes)
       \/ ~IsOwnEcho(id) /\ binding = "online" /\ Accepts(Echo)
    /\ InboundFrame
    /\ UNCHANGED <<binding, noticePosted, seen, renders, jobs, written, postedMessageIds, asides>>

(* goOffline and pauseAgentConnections: quiesceDispatchState.              *)
GoesOffline ==
    /\ binding = "online"
    /\ binding' \in {"paused", "gone"}
    /\ queue' = <<>>
    /\ cut' = cut \cup Set(pending.chunks) \cup Set(ambient.chunks)
    /\ pending' = NoTurn /\ ambient' = NoTurn
    /\ item' = IF pending.open THEN Resolved(pending.prompt) ELSE item
    /\ UNCHANGED <<noticePosted, seen, timers, submitting, closing, strays, postVars, agent,
                   emitted, asides, settledOutput, submitted, refusals>>

ComesBack ==
    /\ binding # "online" /\ binding' = "online"
    /\ UNCHANGED <<noticePosted, seen, queue, turnVars, postVars, agent, emitted, asides, ghosts,
                   refusals>>

-----------------------------------------------------------------------------
Timers(p) == TenMinutes(p) \/ Notified(p) \/ SubmitPromptReturns(p) \/ SubmitPromptFails(p)
Agent == TurnStart \/ Message \/ TurnEnd \/ ToolStart \/ UserMessage
Posts == IsStored \/ IsAnswered \/ IsRefused \/ \E r \in renders : RenderEnds(r)
Next ==
    \/ ProcessDispatch
    \/ /\ Calm
       /\ \/ \E p \in Prompt \cup {Echo} : Timers(p)
          \/ SettleFires \/ StraySettleFires \/ AmbientSettles
          \/ Agent \/ Posts
          \/ \E p \in Prompt : Inbound(p)
          \/ \E id \in echoes : EchoArrives(id)
          \/ SlashCommand \/ GoesOffline \/ ComesBack

(* Timers go off, Graph answers or refuses, renders end.                   *)
TurnProgress == Calm /\ (SettleFires \/ Posts)
ItemProgress(p) == Calm /\ (TenMinutes(p) \/ Notified(p))
Fairness ==
    /\ WF_dispatchVars(ProcessDispatch)
    /\ WF_dispatchVars(TurnProgress)
    /\ \A p \in Prompt \cup {Echo} : WF_dispatchVars(ItemProgress(p))
Spec == Init /\ [][Next]_dispatchVars /\ Fairness

-----------------------------------------------------------------------------
(* The agent is sent every reply of a person at most once, whatever Teams  *)
(* delivers twice, and never a post of the app itself.                     *)
PromptsAreSubmittedOnce ==
    IsInjective(submitted) /\ Echo \notin Set(submitted)

(* What the agent said while it was online is in one place until it has    *)
(* been posted or refused, however turns are closed under it: it is lost   *)
(* only with a turn that going offline, or a failed prompt, cuts short.    *)
Places(c) ==
    {<<"pending", i>> : i \in {i \in DOMAIN pending.chunks : pending.chunks[i] = c}}
    \cup {<<"ambient", i>> : i \in {i \in DOMAIN ambient.chunks : ambient.chunks[i] = c}}
    \cup {<<"render", r>> : r \in {r \in renders : c \in Set(r.chunks)}}
    \cup {<<"job", i>> : i \in {i \in DOMAIN jobs : c \in Set(jobs[i].chunks)}}
    \cup (IF c \in settledOutput THEN {<<"settled", 0>>} ELSE {})
    \cup (IF c \in cut THEN {<<"cut", 0>>} ELSE {})
OutputIsKept ==
    \A c \in 1..emitted : \E place \in Places(c) : Places(c) = {place}

(* The queue never wedges: a prompt that waits is taken, or dropped when   *)
(* the agent goes offline, whether the agent ends its turns or not.        *)
QueueNeverWedges ==
    \A p \in Prompt : (p \in Set(queue)) ~> (p \notin Set(queue))
=============================================================================
