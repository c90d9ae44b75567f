----------------------------- MODULE AgentStatus -----------------------------
(* What the renderer shows of an agent: the status the events of its       *)
(* session bring, the mark "done" or "waiting" that survives a reload, the *)
(* ten-second sync with the terminal server, and offices whose layouts use *)
(* the same agent id.  The server's session is the truth that is shown.    *)
EXTENDS Naturals, Sequences

CONSTANTS
    Office,     \* offices; one agent id is seated in each of them
    MaxPending, \* messages on their way to the renderer
    MaxMishaps  \* window reloads and failing queries

VARIABLES
    session,    \* per office, the agent's session: life, inTurn, running tools
    channel,    \* messages from the terminal server, in order
    current,    \* currentOfficeId
    desk,       \* per office, the AgentStatus and the persisted review marker
    tools,      \* per office, agentTools: tools shown as running
    question,   \* the captured ask_user of the agent id
    syncs,      \* per slot, the office of an outstanding syncAgentStatuses
    syncInProgress,
    mishaps

statusVars == <<session, channel, current, desk, tools, question, syncs, syncInProgress, mishaps>>

Tool == Office \X {"ask_user", "edit"}
IsAsk(t) == t[2] = "ask_user"
NoTool == <<>>
Nowhere == "nowhere"
Slots == {1, 2}

Subs == {"slacking", "starting", "ready", "waiting", "thinking", "error"}
(* age: 0 recent, 1 past the seven seconds of grace, 2 past the timeouts.  *)
Desk == [sub: Subs, done: BOOLEAN, age: 0..2, review: {"none", "done", "waiting"}]
NoSession == [life |-> "none", inTurn |-> FALSE, running |-> {}]

-----------------------------------------------------------------------------
(* The setters of the office manager.                                      *)

Slacking(d) == [d EXCEPT !.sub = "slacking", !.done = FALSE, !.age = 0]
Starting(d) == IF d.sub = "starting" THEN d
               ELSE [d EXCEPT !.sub = "starting", !.done = FALSE, !.age = 0]
Ready(d) == [sub |-> "ready", done |-> FALSE, age |-> 0, review |-> "none"]
DonePendingAck(d) == [sub |-> "ready", done |-> TRUE, age |-> 0, review |-> "done"]
Waiting(d) == [d EXCEPT !.sub = "waiting", !.done = FALSE, !.review = "waiting"]
(* A bug: a new turn leaves the mark of the last one.                      *)
ThinkingAsMarked(d) == [d EXCEPT !.sub = "thinking", !.done = FALSE]
Thinking(d) == [d EXCEPT !.sub = "thinking", !.done = FALSE, !.review = "none"]
Error(d) == [sub |-> "error", done |-> FALSE, age |-> 0, review |-> "none"]
Acknowledged(d) == [d EXCEPT !.done = FALSE, !.review = "none"]
Restored(d) == [sub |-> CASE d.review = "done" -> "ready" [] d.review = "waiting" -> "waiting"
                          [] OTHER -> "slacking",
                done |-> d.review = "done", age |-> 0, review |-> d.review]

Init == /\ session = [o \in Office |-> NoSession]
        /\ channel = <<>>
        /\ current \in Office
        /\ desk = [o \in Office |-> [sub |-> "slacking", done |-> FALSE, age |-> 0, review |-> "none"]]
        /\ tools = [o \in Office |-> {}]
        /\ question = NoTool
        /\ syncs = [s \in Slots |-> Nowhere]
        /\ syncInProgress = FALSE
        /\ mishaps = 0

-----------------------------------------------------------------------------
(* The terminal server.                                                    *)

Room == Len(channel) < MaxPending
Sends(m) == Room /\ channel' = Append(channel, m)
Renderer == <<current, desk, tools, question, syncs, syncInProgress, mishaps>>

SessionStarts(o) ==
    /\ session[o].life = "none"
    /\ session' = [session EXCEPT ![o].life = "starting"]
    /\ Sends([kind |-> "preloading", office |-> o])
    /\ UNCHANGED Renderer
SessionIsReady(o) ==
    /\ session[o].life = "starting"
    /\ session' = [session EXCEPT ![o].life = "ready"]
    /\ Sends([kind |-> "ready", office |-> o])
    /\ UNCHANGED Renderer
SessionFails(o) ==
    /\ session[o].life = "starting"
    /\ session' = [session EXCEPT ![o] = NoSession]
    /\ Sends([kind |-> "failed", office |-> o])
    /\ UNCHANGED Renderer
SessionExits(o) ==
    /\ session[o].life # "none"
    /\ session' = [session EXCEPT ![o] = NoSession]
    /\ Sends([kind |-> "exit", office |-> o])
    /\ UNCHANGED Renderer
TurnStarts(o) ==
    /\ session[o].life = "ready" /\ ~session[o].inTurn
    /\ session' = [session EXCEPT ![o].inTurn = TRUE]
    /\ Sends([kind |-> "turn_start", office |-> o])
    /\ UNCHANGED Renderer
TurnEnds(o) ==
    /\ session[o].inTurn /\ session[o].running = {}
    /\ session' = [session EXCEPT ![o].inTurn = FALSE]
    /\ Sends([kind |-> "turn_end", office |-> o])
    /\ UNCHANGED Renderer
ToolStarts(o, t) ==
    /\ session[o].inTurn /\ t[1] = o /\ t \notin session[o].running
    /\ session' = [session EXCEPT ![o].running = @ \cup {t}]
    /\ Sends([kind |-> "tool_start", office |-> o, tool |-> t])
    /\ UNCHANGED Renderer
ToolCompletes(o, t) ==
    /\ t \in session[o].running
    /\ session' = [session EXCEPT ![o].running = @ \ {t}]
    /\ Sends([kind |-> "tool_complete", office |-> o, tool |-> t])
    /\ UNCHANGED Renderer

AnswersQuery(s) ==
    /\ syncs[s] \in Office
    /\ \A i \in DOMAIN channel : channel[i].kind = "statuses" => channel[i].slot # s
    /\ Sends([kind |-> "statuses", slot |-> s, life |-> session[syncs[s]].life,
              inTurn |-> session[syncs[s]].inTurn])
    /\ UNCHANGED <<session, Renderer>>

-----------------------------------------------------------------------------
(* The renderer's handlers.  Events of tools and turns name no office and  *)
(* go to the current one; those of a session's life name theirs.           *)

Takes(kind) == channel # <<>> /\ Head(channel).kind = kind /\ channel' = Tail(channel)
Message == Head(channel)
Shows(o, d) == desk' = [desk EXCEPT ![o] = d]
Asks(o) == \E t \in tools[o] : IsAsk(t)

OnToolStart ==
    /\ Takes("tool_start")
    /\ LET t == Message.tool
           new == desk[current].sub # "starting" /\ t \notin tools[current]
       IN  /\ question' = IF IsAsk(t) THEN t ELSE question
           /\ IF new THEN /\ tools' = [tools EXCEPT ![current] = @ \cup {t}]
                          /\ Shows(current, IF IsAsk(t) THEN Waiting(desk[current])
                                            ELSE Thinking(desk[current]))
              ELSE UNCHANGED <<tools, desk>>
    /\ UNCHANGED <<session, current, syncs, syncInProgress, mishaps>>

AfterCompletion(d, remaining) ==
    CASE remaining = {} -> IF d.sub = "thinking" THEN Thinking(d) ELSE Ready(d)
      [] \E t \in remaining : IsAsk(t) -> Waiting(d)
      [] OTHER -> Thinking(d)
OnToolComplete ==
    /\ Takes("tool_complete")
    /\ LET t == Message.tool IN
         /\ question' = IF question = t THEN NoTool ELSE question
         /\ IF t \in tools[current]
              THEN /\ tools' = [tools EXCEPT ![current] = @ \ {t}]
                   /\ Shows(current, AfterCompletion(desk[current], tools[current] \ {t}))
              ELSE UNCHANGED <<tools, desk>>
    /\ UNCHANGED <<session, current, syncs, syncInProgress, mishaps>>

OnTurnStart ==
    /\ Takes("turn_start")
    /\ Shows(current, IF desk[current].sub = "starting" THEN desk[current] ELSE Thinking(desk[current]))
    /\ UNCHANGED <<session, current, tools, question, syncs, syncInProgress, mishaps>>
OnTurnEnd ==
    /\ Takes("turn_end")
    /\ LET o == Message.office IN
         IF desk[o].sub = "starting" THEN UNCHANGED <<desk, tools>>
         ELSE /\ tools' = [tools EXCEPT ![current] = {}]
              /\ Shows(o, IF Asks(current) THEN Waiting(desk[o]) ELSE DonePendingAck(desk[o]))
    /\ UNCHANGED <<session, current, question, syncs, syncInProgress, mishaps>>

OnPreload ==
    /\ \/ /\ Takes("preloading")
          /\ LET d == desk[Message.office] IN
               Shows(Message.office, IF d.sub = "slacking" THEN Starting(d) ELSE d)
          /\ UNCHANGED tools
       \/ /\ Takes("ready")
          /\ Shows(Message.office, Ready(desk[Message.office]))
          /\ tools' = [tools EXCEPT ![current] = {}]
       \/ /\ Takes("failed")
          /\ Shows(Message.office, Error(desk[Message.office]))
          /\ UNCHANGED tools
    /\ UNCHANGED <<session, current, question, syncs, syncInProgress, mishaps>>
OnTerminalExit ==
    /\ Takes("exit")
    /\ Shows(Message.office, Slacking(desk[Message.office]))
    /\ UNCHANGED <<session, current, tools, question, syncs, syncInProgress, mishaps>>

-----------------------------------------------------------------------------
(* syncAgentStatuses.  Its office is the one that was current when it      *)
(* asked; roster and tools are those of the office that is current when    *)
(* the answer is there.  A second sync starts when the first is overdue.   *)

SyncAgentStatuses(s) ==
    /\ syncs[s] = Nowhere
    /\ syncs' = [syncs EXCEPT ![s] = current]
    /\ syncInProgress' = TRUE
    /\ UNCHANGED <<session, channel, current, desk, tools, question, mishaps>>
SyncTick == \E s \in Slots : ~syncInProgress /\ SyncAgentStatuses(s)
SyncForceReleased == \E s \in Slots : syncInProgress /\ SyncAgentStatuses(s)

IdleSynced(d) ==
    CASE d.sub \in {"slacking", "error", "starting"} -> Ready(d)
      [] d.sub = "waiting" /\ d.review = "none" -> Ready(d)
      [] d.sub = "thinking" /\ d.age > 0 -> Ready(d)
      [] OTHER -> d
InTurnSynced(d, shown) ==
    CASE d.sub = "thinking" /\ d.age = 2 /\ shown = {} -> Ready(d)
      [] d.sub \notin {"thinking", "waiting"} -> Thinking(d)
      [] OTHER -> d
Synced(d, life, inTurn, shown) ==
    CASE d.sub = "starting" /\ d.age = 2 -> IF life # "none" THEN Ready(d) ELSE Error(d)
      [] life = "none" -> IF d.sub # "slacking" /\ d.review = "none" THEN Slacking(d) ELSE d
      [] life = "starting" -> IF d.sub = "slacking" THEN Starting(d) ELSE d
      [] \E t \in shown : IsAsk(t) -> IF d.sub # "waiting" THEN Waiting(d) ELSE d
      [] OTHER -> IF inTurn THEN InTurnSynced(d, shown) ELSE IdleSynced(d)
(* The one decision that also clears the tools shown.                      *)
ClearsTools(d, life, inTurn, shown) ==
    life = "ready" /\ ~inTurn /\ d.sub = "thinking" /\ d.age > 0 /\ \A t \in shown : ~IsAsk(t)

SyncEnds(s) == syncs' = [syncs EXCEPT ![s] = Nowhere] /\ syncInProgress' = FALSE
OnStatuses ==
    /\ Takes("statuses")
    /\ LET m == Message
           o == syncs[m.slot]
           shown == tools[current]
       IN  /\ Shows(o, Synced(desk[o], m.life, m.inTurn, shown))
           /\ tools' = IF ClearsTools(desk[o], m.life, m.inTurn, shown)
                         THEN [tools EXCEPT ![current] = {}] ELSE tools
           /\ SyncEnds(m.slot)
    /\ UNCHANGED <<session, current, question, mishaps>>
SyncFails(s) ==
    /\ syncs[s] \in Office
    /\ \A i \in DOMAIN channel : channel[i].kind = "statuses" => channel[i].slot # s
    /\ SyncEnds(s)
    /\ mishaps < MaxMishaps /\ mishaps' = mishaps + 1
    /\ UNCHANGED <<session, channel, current, desk, tools, question>>

-----------------------------------------------------------------------------
(* The user and the clock.                                                 *)

ClearCompletionAck ==
    /\ Shows(current, Acknowledged(desk[current])) /\ desk' # desk
    /\ UNCHANGED <<session, channel, current, tools, question, syncs, syncInProgress, mishaps>>
SwitchToOffice(o) ==
    /\ o # current
    /\ current' = o
    /\ UNCHANGED <<session, channel, desk, tools, question, syncs, syncInProgress, mishaps>>
OnAgentSessionClosed ==
    /\ session[current].life # "none"
    /\ session' = [session EXCEPT ![current] = NoSession]
    /\ Sends([kind |-> "exit", office |-> current])
    /\ Shows(current, Slacking(desk[current]))
    /\ UNCHANGED <<current, tools, question, syncs, syncInProgress, mishaps>>
TimePasses(o) ==
    /\ desk[o].sub \in {"starting", "thinking", "waiting"} /\ desk[o].age < 2
    /\ Shows(o, [desk[o] EXCEPT !.age = @ + 1])
    /\ UNCHANGED <<session, channel, current, tools, question, syncs, syncInProgress, mishaps>>
(* The window reloads: what was on its way is lost, only the marks remain. *)
Reload ==
    /\ mishaps < MaxMishaps /\ mishaps' = mishaps + 1
    /\ channel' = <<>>
    /\ desk' = [o \in Office |-> Restored(desk[o])]
    /\ tools' = [o \in Office |-> {}]
    /\ question' = NoTool
    /\ syncs' = [s \in Slots |-> Nowhere]
    /\ syncInProgress' = FALSE
    /\ UNCHANGED <<session, current>>

Handles == OnToolStart \/ OnToolComplete \/ OnTurnStart \/ OnTurnEnd \/ OnPreload \/ OnTerminalExit
           \/ OnStatuses
Next == \/ \E o \in Office : \/ SessionStarts(o) \/ SessionIsReady(o) \/ SessionFails(o) \/ SessionExits(o)
                             \/ TurnStarts(o) \/ TurnEnds(o) \/ TimePasses(o) \/ SwitchToOffice(o)
                             \/ \E t \in Tool : ToolStarts(o, t) \/ ToolCompletes(o, t)
        \/ \E s \in Slots : AnswersQuery(s) \/ SyncFails(s)
        \/ Handles \/ SyncTick \/ SyncForceReleased
        \/ ClearCompletionAck \/ OnAgentSessionClosed \/ Reload

Spec == Init /\ [][Next]_statusVars

-----------------------------------------------------------------------------
(* The variables have their types.                                         *)
TypeOK == /\ \A o \in Office : /\ session[o].life \in {"none", "starting", "ready"}
                               /\ session[o].inTurn \in BOOLEAN /\ session[o].running \subseteq Tool
          /\ Len(channel) <= MaxPending
          /\ current \in Office
          /\ desk \in [Office -> Desk]
          /\ tools \in [Office -> SUBSET Tool]
          /\ question \in Tool \cup {NoTool}
          /\ syncs \in [Slots -> Office \cup {Nowhere}]
          /\ syncInProgress \in BOOLEAN /\ mishaps \in 0..MaxMishaps

(* The mark that survives a reload is the one the card shows: a finished   *)
(* turn that waits for the user has its mark, and no mark is left behind   *)
(* by what has superseded it.                                              *)
MarksAreShown ==
    \A o \in Office : LET d == desk[o] IN
      /\ d.done => d.sub = "ready" /\ d.review = "done"
      /\ d.review = "done" => d.sub \in {"slacking", "starting"} \/ d.done
      /\ d.review = "waiting" => d.sub \in {"slacking", "starting", "waiting"}

(* A sync takes the mark of a finished turn away only for a new turn.  Of  *)
(* offices that share agent ids it is not true: what is shown of one can   *)
(* be decided by the tools of another.                                     *)
SyncKeepsMarks ==
    [][\A o \in Office :
         desk[o].done /\ ~desk'[o].done /\ (OnStatuses) => Message.inTurn]_statusVars
=============================================================================
