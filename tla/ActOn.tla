------------------------------- MODULE ActOn -------------------------------
(* What the orchestrator's tools do to an agent.  Each call is a round     *)
(* trip to the renderer, which looks at what it shows of the agent, asks   *)
(* the terminal server in its name, and responds; a timer and the end of   *)
(* the session answer in its place.  The user goes on working with the     *)
(* agent.  The gate is passed, the agent is the only one of its name, and  *)
(* the server takes the requests of the renderer in their order.           *)
EXTENDS Naturals, Sequences, SequencesExt, FiniteSets

CONSTANTS
    Kinds,      \* tools that are called
    MaxCalls, MaxRuns, MaxAsks, MaxFaults  \* bounds

VARIABLES
    open,       \* whether the orchestrator has its session (and the transcript)
    calls,      \* what each call is at, and what its tool returned
    pending,    \* the calls in pendingActOn and the other maps
    turns,      \* turns of the transcript about each call
    requests,   \* from the renderer to the server
    messages,   \* from the server to the renderer: events and replies
    terminal,   \* run: its process, or 0; ask: the question it waits on, or 0
    runs, asks, \* how many there were
    answered,   \* the call that answered each question, or 0
    desk,       \* what the renderer shows: offline, online, waiting
    captured,   \* the question in the registry of the renderer, or 0
    faults      \* of the bound

agentVars == <<terminal, runs, asks, answered>>
actOnVars == <<open, calls, pending, turns, requests, messages, agentVars, desk, captured, faults>>

Calls == DOMAIN calls
Idle == [run |-> 0, ask |-> 0]

Init == /\ open = TRUE /\ calls = <<>> /\ pending = {} /\ turns = <<>>
        /\ requests = <<>> /\ messages = <<>> /\ terminal = Idle /\ runs = 0 /\ asks = 0
        /\ answered = <<>> /\ desk = "offline" /\ captured = 0 /\ faults = 0

-----------------------------------------------------------------------------
(* The manager.                                                            *)

(* ask and run are noted, to judge what is reported.                       *)
NewCall(kind) == [kind |-> kind, at |-> "asked", run |-> 0, ask |-> 0, result |-> ""]

Request(kind) ==
    /\ open /\ Len(calls) < MaxCalls
    /\ calls' = Append(calls, NewCall(kind)) /\ turns' = Append(turns, 0)
    /\ pending' = pending \cup {Len(calls) + 1}
    /\ UNCHANGED <<open, requests, messages, agentVars, desk, captured, faults>>

(* Tools that only look leave no turn.                                     *)
Records(c) == calls[c].kind # "status"

(* A resolver is taken out of its map before it is called, by whoever it   *)
(* is.  (A bug: the timer leaves it there.)                                *)
TakenByResponse(c, by) == IF by = "timer" THEN pending ELSE pending \ {c}
Taken(c, by) == pending \ {c}
Resolves(c, result, by) ==
    /\ pending' = Taken(c, by)
    /\ calls' = [calls EXCEPT ![c].result = result,
                              ![c].at = IF by = "renderer" THEN "done" ELSE @]
    /\ turns' = [turns EXCEPT ![c] = IF Records(c) /\ open THEN @ + 1 ELSE @]

TimesOut(c) ==
    /\ c \in pending /\ Resolves(c, "timeout", "timer")
    /\ UNCHANGED <<open, requests, messages, agentVars, desk, captured, faults>>

(* A response that comes too late is refused.                              *)
Responded(c) ==
    /\ c \in Calls /\ calls[c].at \notin {"asked", "starting", "submitting", "killing", "done"}
    /\ IF c \in pending
       THEN Resolves(c, calls[c].at, "renderer")
       ELSE calls' = [calls EXCEPT ![c].at = "done"] /\ UNCHANGED <<pending, turns>>
    /\ UNCHANGED <<open, requests, messages, agentVars, desk, captured, faults>>

(* endSession: the transcript is closed before the calls are.              *)
EndSession ==
    /\ open /\ open' = FALSE
    /\ calls' = [c \in Calls |-> IF c \in pending THEN [calls[c] EXCEPT !.result = "ended"]
                                 ELSE calls[c]]
    /\ pending' = {}
    /\ UNCHANGED <<turns, requests, messages, agentVars, desk, captured, faults>>

-----------------------------------------------------------------------------
(* The renderer.                                                           *)

Ask(op, c, ask) == Append(requests, [op |-> op, call |-> c, ask |-> ask])
First(c) == c \in Calls /\ calls[c].at = "asked" /\ \A d \in Calls : calls[d].at = "asked" => c <= d

Refused(c, why) ==
    /\ calls' = [calls EXCEPT ![c].at = why]
    /\ UNCHANGED <<requests, desk>>

(* A start is shown; who is started already is left as it is.              *)
Warmed(c) ==
    /\ calls' = [calls EXCEPT ![c].at = "starting"]
    /\ requests' = Ask("start", c, 0)
    /\ desk' = IF desk = "offline" THEN "online" ELSE desk

AnswerAgent(c) ==
    \/ desk = "offline" /\ Refused(c, "not-online")
    \/ desk = "online" /\ Refused(c, "not-waiting")
    \/ desk = "waiting" /\ Warmed(c)
SendPrompt(c) ==
    \/ desk = "offline" /\ Refused(c, "not-online")
    \/ /\ desk # "offline" /\ calls' = [calls EXCEPT ![c].at = "submitting"]
       /\ requests' = Ask("prompt", c, 0) /\ UNCHANGED desk
Kills(c) ==
    \/ desk = "offline" /\ Refused(c, "not-online")
    \/ /\ desk # "offline" /\ calls' = [calls EXCEPT ![c].at = "killing"]
       /\ requests' = Ask("kill", c, 0) /\ UNCHANGED desk
AgentStatus(c) == calls' = [calls EXCEPT ![c].at = "found"] /\ UNCHANGED <<requests, desk>>

Handle(c) ==
    /\ First(c)
    /\ \/ calls[c].kind = "answer" /\ AnswerAgent(c)
       \/ calls[c].kind = "prompt" /\ SendPrompt(c)
       \/ calls[c].kind \in {"stop", "restart"} /\ Kills(c)
       \/ calls[c].kind = "status" /\ AgentStatus(c)
    /\ UNCHANGED <<open, pending, turns, messages, agentVars, captured, faults>>

(* What a reply of the server leads to.  Whether an answer is one of the   *)
(* options is decided once the agent is started.                           *)
Submitted(c, ok) ==
    /\ calls' = [calls EXCEPT ![c].at = "submitting", ![c].ask = captured]
    /\ requests' = Ask("answer", c, captured)
    /\ UNCHANGED <<desk, captured>>

(* (A bug: the registry is cleared whether or not the answer was taken.)   *)
ForgottenAnyway(ok) == 0
Forgotten(ok) == IF ok THEN 0 ELSE captured
Delivered(c, ok) ==
    /\ calls' = [calls EXCEPT ![c].at = IF ok THEN "delivered" ELSE "failed"]
    /\ captured' = Forgotten(ok)
    /\ UNCHANGED <<requests, desk>>
Sent(c, ok) ==
    /\ calls' = [calls EXCEPT ![c].at = IF ok THEN "sent" ELSE "failed"]
    /\ UNCHANGED <<requests, desk, captured>>
Stopped(c, ok) ==
    /\ calls' = [calls EXCEPT ![c].at = IF ok THEN "stopped" ELSE "failed"]
    /\ desk' = IF ok THEN "offline" ELSE desk
    /\ UNCHANGED <<requests, captured>>
(* A restart goes on though the kill failed.                               *)
Restarting(c) == Warmed(c) /\ UNCHANGED captured
Restarted(c, ok) ==
    /\ calls' = [calls EXCEPT ![c].at = IF ok THEN "restarted" ELSE "failed"]
    /\ UNCHANGED <<requests, desk, captured>>

Reply(c, ok) ==
    LET at == calls[c].at
        kind == calls[c].kind
    IN
    \/ at = "starting" /\ kind = "answer" /\ Submitted(c, ok)
    \/ at = "starting" /\ kind = "restart" /\ Restarted(c, ok)
    \/ at = "submitting" /\ kind = "answer" /\ Delivered(c, ok)
    \/ at = "submitting" /\ kind = "prompt" /\ Sent(c, ok)
    \/ at = "killing" /\ kind = "stop" /\ Stopped(c, ok)
    \/ at = "killing" /\ kind = "restart" /\ Restarting(c)

(* What the events of the agent show.                                      *)
Event(m) ==
    /\ \/ /\ m.event = "ask" /\ captured' = m.ask
          /\ desk' = IF desk = "offline" THEN desk ELSE "waiting"
       \/ /\ m.event = "complete"
          /\ captured' = IF captured = m.ask THEN 0 ELSE captured
          /\ desk' = IF desk = "waiting" THEN "online" ELSE desk
       \/ m.event = "ready" /\ desk' = "online" /\ UNCHANGED captured
       \/ m.event = "exit" /\ desk' = "offline" /\ UNCHANGED captured
    /\ UNCHANGED <<calls, requests>>

Receive ==
    /\ messages # <<>> /\ messages' = Tail(messages)
    /\ LET m == Head(messages)
       IN  IF m.event = "reply" THEN Reply(m.call, m.ok) ELSE Event(m)
    /\ UNCHANGED <<open, pending, turns, agentVars, faults>>

-----------------------------------------------------------------------------
(* The terminal server and the agent.                                      *)

Says(event, ask) == [event |-> event, ask |-> ask, call |-> 0, ok |-> TRUE]
Replies(c, ok) == IF c = 0 THEN <<>> ELSE <<[event |-> "reply", ask |-> 0, call |-> c, ok |-> ok]>>
Tells(ms) == messages' = messages \o ms

Starts(r) ==
    \/ /\ terminal.run # 0 /\ Tells(Replies(r.call, TRUE))
       /\ UNCHANGED <<agentVars, calls, faults>>
    \/ /\ terminal.run = 0 /\ runs < MaxRuns /\ runs' = runs + 1
       /\ terminal' = [run |-> runs + 1, ask |-> 0]
       /\ Tells(<<Says("ready", 0)>> \o Replies(r.call, TRUE))
       /\ UNCHANGED <<asks, answered, calls, faults>>
    \/ /\ terminal.run = 0 /\ (faults < MaxFaults \/ runs = MaxRuns)
       /\ faults' = IF runs = MaxRuns THEN faults ELSE faults + 1
       /\ Tells(Replies(r.call, FALSE))
       /\ UNCHANGED <<agentVars, calls>>

Ended(r) == IF r.call = 0 THEN calls ELSE [calls EXCEPT ![r.call].run = terminal.run]
Killed(r) ==
    \/ /\ terminal.run # 0 /\ terminal' = Idle
       /\ calls' = Ended(r) /\ Tells(<<Says("exit", 0)>> \o Replies(r.call, TRUE))
       /\ UNCHANGED <<runs, asks, answered, faults>>
    \/ /\ terminal.run = 0 /\ Tells(Replies(r.call, FALSE)) /\ UNCHANGED <<agentVars, calls, faults>>

(* An answer needs the question it names.  (A bug: it takes whichever the  *)
(* agent waits on.)                                                        *)
TakesAny(r) == terminal.ask # 0
Takes(r) == terminal.ask # 0 /\ r.ask \in {0, terminal.ask}
Answers(r) ==
    \/ /\ Takes(r) /\ terminal' = [terminal EXCEPT !.ask = 0]
       /\ answered' = [answered EXCEPT ![terminal.ask] = r.call]
       /\ Tells(Replies(r.call, TRUE) \o <<Says("complete", terminal.ask)>>)
       /\ UNCHANGED <<runs, asks, calls, faults>>
    \/ ~Takes(r) /\ Tells(Replies(r.call, FALSE)) /\ UNCHANGED <<agentVars, calls, faults>>

Prompted(r) ==
    /\ Tells(Replies(r.call, terminal.run # 0))
    /\ calls' = IF terminal.run # 0 /\ r.call # 0 THEN [calls EXCEPT ![r.call].run = terminal.run] ELSE calls
    /\ UNCHANGED <<agentVars, faults>>

Serve ==
    /\ requests # <<>> /\ requests' = Tail(requests)
    /\ LET r == Head(requests) IN
       \/ r.op = "start" /\ Starts(r)
       \/ r.op = "kill" /\ Killed(r)
       \/ r.op = "answer" /\ Answers(r)
       \/ r.op = "prompt" /\ Prompted(r)
    /\ UNCHANGED <<open, pending, turns, desk, captured>>

(* The relay gives up on a request that the server goes on with.           *)
GivenUp(i) ==
    /\ i \in DOMAIN requests /\ requests[i].call # 0 /\ faults < MaxFaults /\ faults' = faults + 1
    /\ Tells(Replies(requests[i].call, FALSE))
    /\ requests' = [requests EXCEPT ![i].call = 0]
    /\ UNCHANGED <<open, calls, pending, turns, agentVars, desk, captured>>

AgentAsks ==
    /\ terminal.run # 0 /\ terminal.ask = 0 /\ asks < MaxAsks /\ asks' = asks + 1
    /\ terminal' = [terminal EXCEPT !.ask = asks + 1] /\ answered' = Append(answered, 0)
    /\ Tells(<<Says("ask", asks + 1)>>)
    /\ UNCHANGED <<open, calls, pending, turns, requests, runs, desk, captured, faults>>

UserAnswers ==
    /\ terminal.ask # 0 /\ terminal' = [terminal EXCEPT !.ask = 0]
    /\ Tells(<<Says("complete", terminal.ask)>>)
    /\ UNCHANGED <<open, calls, pending, turns, requests, runs, asks, answered, desk, captured, faults>>

UserStarts ==
    /\ desk = "offline" /\ runs < MaxRuns /\ \A i \in DOMAIN requests : requests[i].call # 0
    /\ requests' = Ask("start", 0, 0) /\ desk' = "online"
    /\ UNCHANGED <<open, calls, pending, turns, messages, agentVars, captured, faults>>

Exits ==
    /\ terminal.run # 0 /\ faults < MaxFaults /\ faults' = faults + 1
    /\ terminal' = Idle /\ Tells(<<Says("exit", 0)>>)
    /\ UNCHANGED <<open, calls, pending, turns, requests, runs, asks, answered, desk, captured>>

Next == \/ \E kind \in Kinds : Request(kind)
        \/ \E c \in Calls : TimesOut(c) \/ Responded(c) \/ Handle(c)
        \/ EndSession \/ Receive \/ Serve \/ AgentAsks \/ UserAnswers \/ UserStarts \/ Exits
        \/ \E i \in DOMAIN requests : GivenUp(i)
Spec == Init /\ [][Next]_actOnVars

-----------------------------------------------------------------------------
(* The variables have their types.                                         *)
TypeOK ==
    /\ pending \subseteq Calls /\ captured \in 0..asks /\ terminal.run \in 0..runs
    /\ \A c \in pending : calls[c].result = "" /\ open
    /\ desk \in {"offline", "online", "waiting"}

(* A call is answered once, by the renderer, the timer or the end, and     *)
(* recorded once, unless the conversation has ended.                       *)
RecordedOnce ==
    \A c \in Calls : turns[c] = IF calls[c].result \in {"", "ended"} \/ ~Records(c) THEN 0 ELSE 1

(* What is reported has happened: an answer was taken, by the question     *)
(* that decided whether it is one of the options; the process that was     *)
(* running is dead, and that of a restart is another.                      *)
ReportsAreTrue ==
    \A c \in Calls :
        /\ calls[c].result = "delivered" =>
             Cardinality({q \in 1..asks : answered[q] = c}) = 1
               /\ (calls[c].ask # 0 => answered[calls[c].ask] = c)
        /\ calls[c].result = "stopped" => calls[c].run \notin {0, terminal.run}
        /\ calls[c].result = "restarted" => runs > calls[c].run
        /\ calls[c].result = "sent" => calls[c].run # 0

(* Once the events are taken, an agent that waits is shown to wait, on the *)
(* question that the next answer will name.                                *)
WaitingIsKnown ==
    (messages = <<>> /\ terminal.ask # 0) => desk = "waiting" /\ captured = terminal.ask
=============================================================================
