-------------------------- MODULE AgentOperations --------------------------
(***************************************************************************)
(* AgentLifecycle: what the orchestrator's tools and the application do to *)
(* one agent: activate it, connect it to Teams, take it offline.  One      *)
(* operation at a time goes through its stages (status, seat, session,     *)
(* registration), each an await that a deadline of sixty seconds races;    *)
(* the step that lost the race goes on by itself.                          *)
(*                                                                         *)
(* The other parts are modelled by what an operation can tell: the         *)
(* terminal server's start with its deadline (TerminalSessions has the     *)
(* whole), TeamsService's register and goOffline with their intents        *)
(* (TeamsConnections), the renderer's seat.  The agent is a reserve, whose *)
(* seat is persisted first.  The user starts and ends sessions too.        *)
(*                                                                         *)
(* Bounds: MaxCalls calls of AgentLifecycle.run, numbered as they are made *)
(* (Caller), and MaxUserActs acts of the user.                             *)
(***************************************************************************)
EXTENDS Naturals, FiniteSets

CONSTANTS MaxCalls, MaxUserActs
ASSUME OperationsAssumption == MaxCalls \in Nat /\ MaxUserActs \in Nat

VARIABLES
    op,          \* the entry of operations: intent, stage and token
    tasks,       \* awaited steps that have not settled, abandoned ones included
    calls,       \* what each caller asks for and has been told
    agentSession, starter, \* the session in the terminal server and who started it
    userActs,
    teamsState,  \* the agent's connection, "off" or "on"
    wish         \* ghost: the last wish about Teams: "on", "off", or "settled" when
                 \* the disconnect has been answered

operationVars == <<op, tasks, calls, agentSession, starter, userActs, teamsState, wish>>

Caller == 1..MaxCalls
Lifecycle == 0    \* the operation, as opposed to a call that cancels it
Intents == {"activate", "connect", "connectNew", "disconnect"}
WantsTeams(intent) == intent \in {"connect", "connectNew"}
RequiresInactive(intent) == intent \in {"activate", "connectNew"}
NoOp == [intent |-> "none", stage |-> "none", cancelled |-> FALSE, activated |-> FALSE]

Task(kind, caller) ==
    [kind |-> kind, caller |-> caller, phase |-> "sent", late |-> FALSE, stale |-> FALSE]

AnyOp == [intent : Intents \cup {"none"}, cancelled : BOOLEAN, activated : BOOLEAN,
          stage : {"none", "preflight", "status", "seat", "session", "register", "stop"}]
AnyTask == [kind : {"seat", "session", "register", "stop"}, caller : 0..MaxCalls,
            phase : {"sent", "mine", "joined"}, late : BOOLEAN, stale : BOOLEAN]
AnyCall == [intent : Intents \cup {"none"},
            told : {"nothing", "failed", "done", "active", "unavailable"}]
OperationsTypeOK ==
    /\ op \in AnyOp /\ tasks \subseteq AnyTask /\ calls \in [Caller -> AnyCall]
    /\ agentSession \in {"none", "starting", "ready"} /\ starter \in {"none", "user", "op"}
    /\ teamsState \in {"off", "on"} /\ wish \in {"none", "on", "off", "settled"}

OperationsInit ==
    /\ op = NoOp /\ tasks = {} /\ userActs = 0 /\ wish = "none"
    /\ calls = [c \in Caller |-> [intent |-> "none", told |-> "nothing"]]
    /\ \/ agentSession = "none" /\ starter = "none" /\ teamsState = "off"
       \/ agentSession = "ready" /\ starter = "user" /\ teamsState \in {"off", "on"}

Waiting(c) == calls[c].intent # "none" /\ calls[c].told = "nothing"
OwnStop(c) == \E t \in tasks : t.caller = c
Told(c, answer) == [calls EXCEPT ![c].told = answer]

(* All who were given the operation's promise.                             *)
Joined == {c \in Caller : Waiting(c) /\ calls[c].intent = op.intent /\ ~OwnStop(c)}
OpEnds(answer) ==
    /\ calls' = [c \in Caller |-> IF c \in Joined THEN [calls[c] EXCEPT !.told = answer]
                                  ELSE calls[c]]
    /\ op' = NoOp

-----------------------------------------------------------------------------
(* goOffline: it bumps the intents, so registrations under way are stale.  *)
StopBegins(caller) ==
    tasks' = {IF t.kind = "register" THEN [t EXCEPT !.stale = TRUE] ELSE t : t \in tasks}
                \cup {Task("stop", caller)}

(* A bug: the operation that is under way is not cancelled.                *)
Uncancelled == op

Cancelled == [op EXCEPT !.cancelled = TRUE]

(* run: join, cancel, refuse or begin.                                     *)
Run(c, intent) ==
    /\ calls[c].intent = "none" /\ \A b \in 1..c - 1 : calls[b].intent # "none"
    /\ LET asked == [calls EXCEPT ![c].intent = intent]
       IN  \/ /\ op.intent \in {"none", intent}
              /\ calls' = asked
              /\ op' = IF op.intent = intent THEN op
                       ELSE [NoOp EXCEPT !.intent = intent,
                                         !.stage = IF intent = "disconnect" THEN "stop"
                                                   ELSE IF WantsTeams(intent) THEN "preflight"
                                                   ELSE "status"]
              /\ IF op.intent = "none" /\ intent = "disconnect" THEN StopBegins(Lifecycle)
                 ELSE UNCHANGED tasks
           \/ /\ op.intent \notin {"none", intent}
              /\ IF intent = "disconnect"
                 THEN op' = Cancelled /\ StopBegins(c) /\ calls' = asked
                 ELSE calls' = [asked EXCEPT ![c].told = "failed"] /\ UNCHANGED <<op, tasks>>
    /\ wish' = IF WantsTeams(intent) THEN "on" ELSE IF intent = "disconnect" THEN "off" ELSE wish
    /\ UNCHANGED <<agentSession, starter, userActs, teamsState>>

(* bounded: no step begins after a cancellation; the deadline ends the     *)
(* operation itself (Expires).                                             *)
Enter(stage) ==
    IF op.cancelled THEN OpEnds("failed") /\ UNCHANGED tasks
    ELSE /\ op' = [op EXCEPT !.stage = stage]
         /\ tasks' = IF stage = "status" THEN tasks ELSE tasks \cup {Task(stage, Lifecycle)}
         /\ UNCHANGED calls

Preflight ==
    /\ op.stage = "preflight"
    /\ Enter("status") \/ (OpEnds("unavailable") /\ UNCHANGED tasks)
    /\ UNCHANGED <<agentSession, starter, userActs, teamsState, wish>>

Status ==
    /\ op.stage = "status"
    /\ IF RequiresInactive(op.intent) /\ agentSession # "none"
       THEN OpEnds("active") /\ UNCHANGED tasks
       ELSE \E stage \in {"seat", "session"} : Enter(stage)    \* is it seated?
    /\ UNCHANGED <<agentSession, starter, userActs, teamsState, wish>>

Live(t) == t.caller = Lifecycle /\ ~t.late
Settles(t) == tasks' = tasks \ {t}

(* The next stage, or the end, once an awaited step has settled.           *)
Continue(t, succeeded, stage) ==
    IF ~Live(t) THEN Settles(t) /\ UNCHANGED <<op, calls>>
    ELSE IF ~succeeded THEN Settles(t) /\ OpEnds("failed")
    ELSE IF stage = "end" THEN Settles(t) /\ OpEnds("done")
    ELSE IF op.cancelled THEN Settles(t) /\ OpEnds("failed")
    ELSE /\ op' = [op EXCEPT !.stage = stage, !.activated = t.phase = "mine"]
         /\ UNCHANGED calls
         /\ tasks' = (tasks \ {t}) \cup {Task(stage, Lifecycle)}

(* The renderer's answer, or the ten seconds for it.                       *)
SeatSettles(t) ==
    /\ t.kind = "seat"
    /\ \E succeeded \in BOOLEAN : Continue(t, succeeded, "session")
    /\ UNCHANGED <<agentSession, starter, userActs, teamsState, wish>>

(* A bug: an agent that is there already will do.                          *)
TakenOver(intent) == FALSE

Refused(intent) == RequiresInactive(intent) /\ agentSession # "none"

(* The start arrives in the server.                                        *)
SessionArrives(t) ==
    /\ t.kind = "session" /\ t.phase = "sent"
    /\ IF t.late THEN Settles(t) /\ UNCHANGED <<op, calls, agentSession, starter>>
       ELSE IF Refused(op.intent)
       THEN Settles(t) /\ OpEnds("active") /\ UNCHANGED <<agentSession, starter>>
       ELSE LET mine == agentSession = "none"
            IN  /\ tasks' = (tasks \ {t})
                              \cup {[t EXCEPT !.phase = IF mine THEN "mine" ELSE "joined"]}
                /\ agentSession' = IF mine THEN "starting" ELSE agentSession
                /\ starter' = IF mine THEN "op" ELSE starter
                /\ UNCHANGED <<op, calls>>
    /\ UNCHANGED <<userActs, teamsState, wish>>

(* Its answer: a start that is late ends the session it began, if the user *)
(* does not look at it.                                                    *)
SessionSettles(t) ==
    /\ t.kind = "session" /\ t.phase # "sent"
    /\ \/ /\ agentSession = "ready" /\ ~t.late
          /\ Continue(t, TRUE, IF WantsTeams(op.intent) THEN "register" ELSE "end")
          /\ UNCHANGED <<agentSession, starter>>
       \/ /\ agentSession = "none" \/ t.late
          /\ Continue(t, FALSE, "end")
          /\ IF t.late /\ t.phase = "mine" /\ starter = "op"
             THEN agentSession' = "none" /\ starter' = "none"
             ELSE UNCHANGED <<agentSession, starter>>
    /\ UNCHANGED <<userActs, teamsState, wish>>

(* A bug: the deadline is forgotten once the thread is there.              *)
OutlivedOnly(t) == t.stale

RegistrationCancelled(t) == t.stale \/ t.late

(* registerOnce and finishRegistration: routing is enabled last.           *)
RegisterSettles(t) ==
    /\ t.kind = "register"
    /\ \/ /\ agentSession = "ready" /\ ~RegistrationCancelled(t)
          /\ teamsState' = "on" /\ Continue(t, TRUE, "end")
       \/ /\ UNCHANGED teamsState /\ Continue(t, FALSE, "end")
    /\ UNCHANGED <<agentSession, starter, userActs, wish>>

(* goOffline ends: for an operation or for the call that cancelled one.    *)
StopSettles(t) ==
    /\ t.kind = "stop"
    /\ teamsState' = "off"
    /\ wish' = IF wish = "off" THEN "settled" ELSE wish
    /\ IF t.caller = Lifecycle THEN Continue(t, TRUE, "end")
       ELSE Settles(t) /\ calls' = Told(t.caller, "done") /\ UNCHANGED op
    /\ UNCHANGED <<agentSession, starter, userActs>>

(* The deadline: the callers are told, the step under way is on its own.   *)
Expires ==
    /\ op.intent # "none" /\ op.stage \notin {"preflight", "status"}
    /\ OpEnds("failed")
    /\ tasks' = {IF t.caller = Lifecycle THEN [t EXCEPT !.late = TRUE] ELSE t : t \in tasks}
    /\ UNCHANGED <<agentSession, starter, userActs, teamsState, wish>>

-----------------------------------------------------------------------------
BecomesReady ==
    /\ agentSession = "starting" /\ agentSession' = "ready"
    /\ UNCHANGED <<op, tasks, calls, starter, userActs, teamsState, wish>>

(* Starting it by hand claims a viewer, also for a session that is there.  *)
UserStarts ==
    /\ userActs < MaxUserActs /\ userActs' = userActs + 1 /\ starter # "user"
    /\ starter' = "user"
    /\ agentSession' = IF agentSession = "none" THEN "starting" ELSE agentSession
    /\ UNCHANGED <<op, tasks, calls, teamsState, wish>>

UserEnds ==
    /\ userActs < MaxUserActs /\ userActs' = userActs + 1 /\ agentSession # "none"
    /\ agentSession' = "none" /\ starter' = "none"
    /\ UNCHANGED <<op, tasks, calls, teamsState, wish>>

TaskSettles == \E t \in tasks : SeatSettles(t) \/ SessionSettles(t) \/ RegisterSettles(t)
StopDone == \E t \in tasks : StopSettles(t)
Stages == Preflight \/ Status
OperationsNext ==
    \/ \E c \in Caller, intent \in Intents : Run(c, intent)
    \/ Stages \/ TaskSettles \/ StopDone \/ Expires \/ BecomesReady \/ UserStarts \/ UserEnds
    \/ \E t \in tasks : SessionArrives(t)

(* Steps need not settle (a session that never gets ready); the deadline   *)
(* passes, and goOffline ends: its notices are posted or fail.             *)
OperationProgress == Stages \/ Expires
OperationsFairness == WF_operationVars(OperationProgress) /\ WF_operationVars(StopDone)
OperationsSpec == OperationsInit /\ [][OperationsNext]_operationVars /\ OperationsFairness

-----------------------------------------------------------------------------
(* Once a disconnect has been answered, and nobody asks for Teams again,   *)
(* nothing that was under way brings the agent online after all: not the   *)
(* operation it cancelled, nor a step of an earlier one (test: "a later    *)
(* Teams disconnect prevents a pending startup from registering Teams").   *)
DisconnectSticks == wish = "settled" => teamsState = "off"

(* Routing is enabled for somebody who still waits for it: a registration  *)
(* that outlived its operation may keep its thread but enables nothing     *)
(* (RegisterContext.deadline).                                             *)
NoLateRouting ==
    [][teamsState = "off" /\ teamsState' = "on" => WantsTeams(op.intent)]_operationVars

(* An agent reported as newly activated is not one the user had started.   *)
NewAgentsAreNew ==
    [][\A c \in Caller :
          calls'[c].told = "done" /\ Waiting(c) /\ RequiresInactive(calls[c].intent)
             => op.activated \/ \E t \in tasks : Live(t) /\ t.phase = "mine"]_operationVars

(* An operation that nobody waits for enables nothing, what it reports as   *)
(* its own work is, and once a disconnect has been answered nothing under   *)
(* way undoes it.                                                           *)
OperationsAreWanted ==
    NoLateRouting /\ NewAgentsAreNew /\ [][DisconnectSticks']_operationVars

(* Every call is answered, whatever does not.                              *)
CallsEnd == \A c \in Caller : (calls[c].intent # "none") ~> (calls[c].told # "nothing")
=============================================================================
