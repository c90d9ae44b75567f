--------------------------- MODULE OrchestratorMC ---------------------------
(* The orchestrator's gate (OrchestratorGate), the conversation with it,    *)
(* what its tools do to an agent, and how input reaches agents              *)
(* (AgentInput), for TLC.  One of them moves in each behaviour, the input   *)
(* in two scopes.                                                           *)
EXTENDS OrchestratorGate, AgentInput, TLC

CONSTANTS c1, c2

\* The calls are interchangeable.
TwoCalls == {c1, c2}
Symmetry == Permutations(Call)

VARIABLES moving
VARIABLES user, panel, shown, inbox, replies, talking, openPromise, awaiting, opens, stream,
          connected, leaving, began, transcript, file, conversation, said, spent

talk == INSTANCE OrchestratorConversation WITH
    session <- talking, starting <- opens, sdk <- connected, ending <- leaving,
    Bound <- 2, MaxSessions <- 3, MaxTurns <- 2, MaxShows <- 3, MaxCloses <- 2, MaxFaults <- 1,
    MaxRestarts <- 1

VARIABLES open, calls, pending, turns, requests, messages, terminal, runs, questions, answered, desk,
          captured, faults

acts == INSTANCE ActOn WITH
    asks <- questions,
    Kinds <- {"answer", "prompt", "stop", "restart", "status"},
    MaxCalls <- 2, MaxRuns <- 2, MaxAsks <- 2, MaxFaults <- 1

actsVars == <<open, calls, pending, turns, requests, messages, terminal, runs, questions, answered,
              desk, captured, faults>>

talkVars == <<user, panel, shown, inbox, replies, talking, openPromise, awaiting, opens, stream,
              connected, leaving, began, transcript, file, conversation, said, spent>>

(* Two at most of what may befall the gate besides calls and answers.       *)
Gated == Next /\ ends' + closes' + errors' + registrations' <= 2

(* What agents are told, and apart from it what they ask.                   *)
Prompts == InputNext /\ asks' = <<>>
Replies == InputNext /\ prompts' = 0 /\ line' = FALSE /\ Len(asks') + Len(answers') <= 4

(* Two calls of tools, or one and a fault.                                  *)
Tools == acts!Next /\ Len(calls') + faults' <= 2

AppInit == /\ moving \in {"gate", "prompts", "replies", "conversation", "tools"}
           /\ Init
           /\ InputInit /\ talk!Init /\ acts!Init
           /\ moving # "gate" => allowAll
           /\ moving \in {"gate", "conversation", "tools"} => backend = "sdk"

(* Only the gate may not stop.                                              *)
AppNext ==
    /\ UNCHANGED moving
    /\ \/ moving = "gate" /\ Gated
       \/ moving = "prompts" /\ Prompts
       \/ moving = "replies" /\ Replies
       \/ moving = "conversation" /\ talk!Next
       \/ moving = "tools" /\ Tools
       \/ moving # "gate" /\ UNCHANGED <<vars, inputVars, talkVars, actsVars>>
    /\ IF moving = "gate" THEN TRUE ELSE UNCHANGED vars
    /\ IF moving \in {"prompts", "replies"} THEN TRUE ELSE UNCHANGED inputVars
    /\ IF moving = "conversation" THEN TRUE ELSE UNCHANGED talkVars
    /\ IF moving = "tools" THEN TRUE ELSE UNCHANGED actsVars
AppSpec == AppInit /\ [][AppNext]_<<moving, vars, inputVars, talkVars, actsVars>>

-----------------------------------------------------------------------------
(* What the user closed stays closed, however starts, closings, failed      *)
(* writes and restarts cross; what was not closed is restored, and shown.   *)
ConversationIsKept ==
    moving = "conversation" =>
        /\ talk!TypeOK
        /\ talk!ClosedStaysClosed /\ talk!RestartsRestore
        /\ talk!MessagesAreShown /\ talk!ClosedLeavesNothing

(* A call of a tool is answered and recorded once, what it reports has      *)
(* happened, and an agent that waits is known to, with its question.        *)
ToolsReportTruly ==
    moving = "tools" =>
        /\ acts!TypeOK
        /\ acts!RecordedOnce /\ acts!ReportsAreTrue /\ acts!WaitingIsKnown
=============================================================================
