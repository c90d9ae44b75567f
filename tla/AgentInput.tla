----------------------------- MODULE AgentInput -----------------------------
(* How prompts and replies reach the session of an agent at the back ends   *)
(* that drive it through the SDK: the line editor and the queue of sends,   *)
(* and the resolvers of what the agent asks, which are kept by session.     *)
EXTENDS Naturals, Sequences

CONSTANTS
    AgentSession,   \* the sessions of the agent
    MaxProcesses, MaxPrompts, MaxAsks, MaxReplies       \* bounds

Kind == {"question", "plan", "form"}

VARIABLES
    backend,
    procs,          \* every process there has been at the terminal
    registered,     \* the one in ptyProcesses, or 0
    line,           \* something is typed, and not entered
    sends,          \* queuedSend of each process
    received,       \* the prompts that the sessions have got
    prompts,        \* the number of prompts taken
    asks,           \* what the agent has asked
    resolver,       \* pendingUserInput, pendingPlanApproval, pendingElicitation
    answers,        \* the replies from Teams: for what, to what, and what Teams was told
    overlapped      \* a session was started again before the process that had it exited

procVars == <<backend, procs, registered>>
promptVars == <<line, sends, received, prompts>>
askVars == <<asks, resolver, answers>>
inputVars == <<procVars, promptVars, askVars, overlapped>>

None == [k \in Kind |-> [s \in AgentSession |-> 0]]
InputInit ==
    /\ backend \in {"sdk", "ui-server", "node-pty"}
    /\ procs = <<>> /\ registered = 0
    /\ line = FALSE /\ sends = <<>> /\ received = <<>> /\ prompts = 0
    /\ asks = <<>> /\ resolver = None /\ answers = <<>> /\ overlapped = FALSE

Running(i) == procs[i].state = "open"

-----------------------------------------------------------------------------
(* Processes come and go.                                                   *)

Start(s) ==
    /\ registered = 0 /\ Len(procs) < MaxProcesses
    /\ procs' = Append(procs, [session |-> s, state |-> "open"])
    /\ registered' = Len(procs') /\ line' = FALSE /\ sends' = Append(sends, <<>>)
    /\ overlapped' = (overlapped \/ \E i \in DOMAIN procs : procs[i] = [session |-> s, state |-> "closing"])
    /\ UNCHANGED <<backend, received, prompts, askVars>>

(* What the session asked is over, and its resolvers are dropped.           *)
(* A bug: they stay.                                                        *)
StillThere(s) == resolver
Cleared(s) == [k \in Kind |-> [resolver[k] EXCEPT ![s] = 0]]
Over(i) == [a \in DOMAIN asks |-> IF asks[a].proc = i /\ asks[a].state = "open"
                                  THEN [asks[a] EXCEPT !.state = "void"] ELSE asks[a]]

(* A kill takes the process off the map, and disconnects its session.       *)
Kill == /\ registered # 0
        /\ procs' = [procs EXCEPT ![registered].state = "closing"]
        /\ registered' = 0 /\ asks' = Over(registered)
        /\ UNCHANGED <<backend, promptVars, resolver, answers, overlapped>>

(* The exit of the process, or of the host of all: the map may have another *)
(* process by now, and its session may be the same one.                     *)
Exits(i) ==
    /\ procs[i].state # "exited"
    /\ procs' = [procs EXCEPT ![i].state = "exited"]
    /\ registered' = IF registered = i THEN 0 ELSE registered
    /\ resolver' = Cleared(procs[i].session) /\ asks' = Over(i)
    /\ UNCHANGED <<backend, promptVars, answers, overlapped>>

-----------------------------------------------------------------------------
(* Prompts: typed into the line editor, or submitted, which discards what   *)
(* is typed.  The caller is told of success at once.                        *)

Enqueued == /\ prompts < MaxPrompts /\ prompts' = prompts + 1
            /\ sends' = [sends EXCEPT ![registered] = Append(@, prompts')]
            /\ line' = FALSE
            /\ UNCHANGED <<procVars, received, askVars, overlapped>>

Write == /\ backend = "sdk" /\ registered # 0
         /\ \/ line /\ Enqueued
            \/ line' = ~line /\ UNCHANGED <<procVars, sends, received, prompts, askVars, overlapped>>

SubmitPrompt == registered # 0 /\ backend # "node-pty" /\ Enqueued

(* The queue sends one prompt after the other, and goes on after a failure. *)
(* A process that was killed sends what it has; once it has exited, that    *)
(* fails.                                                                   *)
(* A bug: it does not wait for the one before.                              *)
Whichever(i) == DOMAIN sends[i]
First(i) == {1} \cap DOMAIN sends[i]
Sends(i) ==
    \E n \in First(i) :
        /\ sends' = [sends EXCEPT ![i] = SubSeq(@, 1, n - 1) \o SubSeq(@, n + 1, Len(@))]
        /\ \/ received' = received
           \/ /\ procs[i].state # "exited"
              /\ received' = Append(received, [by |-> i, prompt |-> sends[i][n]])
        /\ UNCHANGED <<procVars, line, prompts, askVars, overlapped>>

-----------------------------------------------------------------------------
(* What the agent asks blocks its turn, until it is answered.               *)

Handled(k) == CASE backend = "sdk" -> TRUE
                [] backend = "ui-server" -> k # "form"
                [] OTHER -> FALSE
Waits(i, k) == \E a \in DOMAIN asks : asks[a] = [kind |-> k, proc |-> i, state |-> "open"]

Asks(i, k) ==
    /\ Running(i) /\ ~Waits(i, k) /\ Len(asks) < MaxAsks
    /\ asks' = Append(asks, [kind |-> k, proc |-> i, state |-> "open"])
    /\ \/ Handled(k) /\ resolver' = [resolver EXCEPT ![k][procs[i].session] = Len(asks')]
       \/ backend # "sdk" /\ UNCHANGED resolver
    /\ UNCHANGED <<procVars, promptVars, answers, overlapped>>

(* In the TUI of the host.  The resolver of the SDK stays.                  *)
AnsweredInTui(a) ==
    /\ backend # "sdk" /\ asks[a].state = "open"
    /\ asks' = [asks EXCEPT ![a].state = "answered"]
    /\ UNCHANGED <<procVars, promptVars, resolver, answers, overlapped>>

(* submit-answer, submit-plan-decision and submit-elicitation, of a reply   *)
(* to a: the UI server wants the request by its id, the SDK has one request *)
(* of a kind for each session, whichever it is.                             *)
ByRequest(a) ==
    /\ UNCHANGED resolver
    /\ IF asks[a].state = "open" /\ asks[a].proc = registered
       THEN /\ asks' = [asks EXCEPT ![a].state = "answered"]
            /\ answers' = Append(answers, [to |-> a, got |-> a, told |-> TRUE])
       ELSE /\ answers' = Append(answers, [to |-> a, got |-> 0, told |-> FALSE])
            /\ UNCHANGED asks

(* A bug: the resolver is not deleted.                                      *)
NotDeleted(k, s) == resolver
Deleted(k, s) == [resolver EXCEPT ![k][s] = 0]
BySession(a) ==
    LET k == asks[a].kind  s == procs[registered].session  found == resolver[k][s]
    IN IF found # 0
       THEN /\ resolver' = Deleted(k, s)
            /\ asks' = IF asks[found].state = "open"
                       THEN [asks EXCEPT ![found].state = "answered"] ELSE asks
            /\ answers' = Append(answers,
                   [to |-> a, got |-> IF asks[found].state = "open" THEN found ELSE 0, told |-> TRUE])
       ELSE /\ answers' = Append(answers, [to |-> a, got |-> 0, told |-> FALSE])
            /\ UNCHANGED <<asks, resolver>>

Refused(a) == /\ answers' = Append(answers, [to |-> a, got |-> 0, told |-> FALSE])
              /\ UNCHANGED <<asks, resolver>>

Reply(a) ==
    /\ Len(answers) < MaxReplies
    /\ CASE registered = 0 \/ backend = "node-pty" -> Refused(a)
         [] backend = "ui-server" /\ asks[a].kind = "question" -> ByRequest(a)
         [] backend = "ui-server" /\ asks[a].kind = "plan" -> Refused(a)
         [] OTHER -> BySession(a)
    /\ UNCHANGED <<procVars, promptVars, overlapped>>

InputNext ==
    \/ Kill \/ Write \/ SubmitPrompt
    \/ \E s \in AgentSession : Start(s)
    \/ \E i \in DOMAIN procs : Exits(i) \/ Sends(i) \/ \E k \in Kind : Asks(i, k)
    \/ \E a \in DOMAIN asks : AnsweredInTui(a) \/ Reply(a)

InputSpec == InputInit /\ [][InputNext]_inputVars

-----------------------------------------------------------------------------
(* The variables have their types.                                          *)
Process == [session : AgentSession, state : {"open", "closing", "exited"}]
Question == [kind : Kind, proc : Nat, state : {"open", "void", "answered"}]
Answer == [to : Nat, got : Nat, told : BOOLEAN]
InputTypeOK ==
    /\ backend \in {"sdk", "ui-server", "node-pty"}
    /\ procs \in Seq(Process)
    /\ registered \in 0..Len(procs) /\ (registered # 0 => Running(registered))
    /\ line \in BOOLEAN /\ sends \in Seq(Seq(Nat)) /\ Len(sends) = Len(procs)
    /\ received \in Seq([by : Nat, prompt : Nat]) /\ prompts \in Nat
    /\ asks \in Seq(Question)
    /\ resolver \in [Kind -> [AgentSession -> 0..Len(asks)]]
    /\ answers \in Seq(Answer)
    /\ overlapped \in BOOLEAN

(* The prompts that a process took arrive in their order, and once.         *)
PromptsArriveInOrder ==
    \A m, n \in DOMAIN received :
        (m < n /\ received[m].by = received[n].by) => received[m].prompt < received[n].prompt

(* Teams is told that a reply has answered something if and only if it has: *)
(* one thing that was open, and nothing that another reply answered.  (A    *)
(* killed process that has not exited yet leaves resolvers to the next one  *)
(* on its session, whose replies are lost in them.)                         *)
RepliesAreReported ==
    /\ \A n \in DOMAIN answers : ~overlapped => (answers[n].told <=> answers[n].got # 0)
    /\ \A m, n \in DOMAIN answers :
          (m # n /\ answers[m].got # 0) => answers[m].got # answers[n].got

(* A reply answers what it is the reply to, and nothing else; at the SDK    *)
(* back end, which takes no notice of the request, what was asked in its    *)
(* place when it was over.                                                  *)
RepliesAnswerTheirAsk ==
    \A n \in DOMAIN answers :
        LET a == answers[n].to  b == answers[n].got
        IN b \notin {0, a} => /\ backend = "sdk" /\ a < b /\ asks[a].kind = asks[b].kind
                              /\ asks[a].state # "open"

(* What the agent asks at the SDK back end waits for a resolver that there  *)
(* is; unless a process that was killed exits after another was started on  *)
(* its session, which takes the resolvers of both.                          *)
AsksCanBeAnswered ==
    (backend = "sdk" /\ ~overlapped) =>
        \A a \in DOMAIN asks :
            asks[a].state = "open" => resolver[asks[a].kind][procs[asks[a].proc].session] = a

(* The prompts of a process arrive in their order; a reply from Teams       *)
(* answers what it replies to, or what the agent asks in its place, and     *)
(* Teams is told whether it did.                                            *)
InputIsAcknowledged ==
    /\ InputTypeOK
    /\ PromptsArriveInOrder
    /\ RepliesAreReported /\ RepliesAnswerTheirAsk /\ AsksCanBeAnswered
=============================================================================
