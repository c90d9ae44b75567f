---------------------------- MODULE VoiceControl ----------------------------
(* Push to talk: VoiceController records a prompt for an agent's session,  *)
(* sends it and speaks the reply.  Every await may be overtaken by a       *)
(* release, a cancel, another press or another session of the agent; the   *)
(* generation tells whose answer it was.                                   *)
EXTENDS Naturals, Sequences, SequencesExt, FiniteSets

CONSTANTS
    Speaker,        \* the agents with a voice button
    MaxGeneration,  \* bound: cancels and presses
    MaxSession,     \* bound: sessions of an agent
    MaxTyped        \* bound: prompts typed into the terminals

VARIABLES
    phase, target, generation, held, recording, reply,      \* of the controller
    flights,        \* the press and release calls that await something
    mic,            \* recordings that hold the microphone
    session, heard, \* an agent's session, and the one in the window's cache
    prompts, turn,  \* what an agent has to do, and does: what it told of its turn
    events,         \* on their way to the window
    sent, spoken,   \* history
    typed

voiceVars == <<phase, target, generation, held, recording, reply, flights, mic, session, heard,
               prompts, turn, events, sent, spoken, typed>>
agents == <<session, heard, prompts, turn, typed>>

None == "none"
Nobody == [agent |-> None, session |-> 0]
NoReply == [prompt |-> 0, matched |-> FALSE, text |-> 0]
NoTurn == [prompt |-> 0, said |-> "nothing"]

Init == /\ phase = "idle" /\ target = Nobody /\ generation = 0 /\ held = FALSE
        /\ recording = 0 /\ reply = NoReply /\ flights = {} /\ mic = {}
        /\ session = [a \in Speaker |-> 1] /\ heard \in [Speaker -> {0, 1}]
        /\ prompts = [a \in Speaker |-> <<>>] /\ turn = [a \in Speaker |-> NoTurn]
        /\ events = <<>> /\ sent = {} /\ spoken = {} /\ typed = 0

(* The session the window knows of; none is as good as the same one.       *)
IsCurrent(t) == heard[t.agent] \in {0, t.session}

(* cancel: whatever goes on is of an older generation now.                 *)
(* A bug: the recording runs on.                                           *)
StillRecording == mic
Silenced == mic \ {recording}
Cancelled(to, whom) ==
    /\ generation' = generation + 1
    /\ mic' = Silenced /\ recording' = 0 /\ reply' = NoReply
    /\ phase' = to /\ target' = whom
Fail == held' = FALSE /\ Cancelled("error", target)

Cancel ==
    /\ generation < MaxGeneration /\ phase # "idle"
    /\ held' = FALSE /\ Cancelled("idle", Nobody)
    /\ UNCHANGED <<flights, events, sent, spoken>> /\ UNCHANGED agents

-----------------------------------------------------------------------------
(* press.                                                                  *)

Press(a) ==
    /\ generation < MaxGeneration
    /\ phase \notin {"loading", "recording", "transcribing"}
    /\ held' = TRUE /\ Cancelled("loading", Nobody)
    /\ flights' = flights \cup {[token |-> generation + 1, step |-> "resolve", to |-> [agent |-> a, session |-> 0]]}
    /\ UNCHANGED <<events, sent, spoken>> /\ UNCHANGED agents

(* A bug: the answer is taken for that of this press.                      *)
AnyGeneration(f) == held
Wanted(f) == f.token = generation /\ held
Goes(f, step, t) == flights' = (flights \ {f}) \cup {[f EXCEPT !.step = step, !.to = t]}
Ends(f) == flights' = flights \ {f}
Controller == <<phase, target, generation, held, recording, reply, mic>>

(* An answer that comes too late, and one that is an error.                *)
Dropped(f) == Ends(f) /\ UNCHANGED Controller
Fails(f) == Ends(f) /\ IF f.token = generation THEN Fail ELSE UNCHANGED Controller

(* resolveTarget: the agent's session, unless it is busy.                  *)
Resolved(f) ==
    /\ f.step = "resolve"
    /\ LET t == [agent |-> f.to.agent, session |-> session[f.to.agent]] IN
       \/ Fails(f)
       \/ ~Wanted(f) /\ Dropped(f)
       \/ /\ Wanted(f) /\ Goes(f, "load", t) /\ target' = t
          /\ UNCHANGED <<phase, generation, held, recording, reply, mic>>

(* The model of the transcription is there.                                *)
Loaded(f) ==
    /\ f.step = "load"
    /\ \/ Fails(f)
       \/ ~Wanted(f) /\ Dropped(f)
       \/ Wanted(f) /\ ~IsCurrent(f.to) /\ Fails(f)
       \/ Wanted(f) /\ IsCurrent(f.to) /\ Goes(f, "record", f.to) /\ UNCHANGED Controller

(* The user has granted the microphone.  A recording nobody waits for any  *)
(* more is ended at once.                                                  *)
Recording(f) ==
    /\ f.step = "record"
    /\ \/ Fails(f)
       \/ ~Wanted(f) /\ Dropped(f)
       \/ /\ Wanted(f) /\ Ends(f)
          /\ recording' = f.token /\ mic' = mic \cup {f.token}
          /\ phase' = "recording" /\ target' = f.to
          /\ UNCHANGED <<generation, held, reply>>

-----------------------------------------------------------------------------
(* release, by the user or after thirty seconds.                           *)

Release ==
    /\ held /\ generation < MaxGeneration
    /\ held' = FALSE
    /\ IF phase # "recording" \/ recording = 0
       THEN Cancelled("idle", Nobody) /\ UNCHANGED flights
       ELSE /\ phase' = "transcribing" /\ recording' = 0 /\ mic' = mic \ {recording}
            /\ flights' = flights \cup {[token |-> generation, step |-> "transcribe", to |-> target]}
            /\ UNCHANGED <<target, generation, reply>>
    /\ UNCHANGED <<events, sent, spoken>> /\ UNCHANGED agents

(* The prompt is sent to the agent, of the session it was spoken to.  Its  *)
(* text is the recording's.                                                *)
(* A bug: to whichever session the agent has.                              *)
OfAnySession(t) == TRUE
StillOf(t) == IsCurrent(t)
Transcribed(f) ==
    /\ f.step = "transcribe"
    /\ UNCHANGED <<events, spoken, session, heard, turn, typed>>
    /\ \/ Fails(f) /\ UNCHANGED <<sent, prompts>>
       \/ f.token # generation /\ Dropped(f) /\ UNCHANGED <<sent, prompts>>
       \/ f.token = generation /\ ~StillOf(f.to) /\ Fails(f) /\ UNCHANGED <<sent, prompts>>
       \/ /\ f.token = generation /\ StillOf(f.to)
          /\ reply' = [NoReply EXCEPT !.prompt = f.token]
          /\ phase' = "waiting" /\ target' = f.to
          /\ Goes(f, "submit", f.to)
          /\ prompts' = [prompts EXCEPT ![f.to.agent] = Append(@, f.token)]
          /\ sent' = sent \cup {[to |-> f.to, prompt |-> f.token, at |-> session[f.to.agent],
                                 unheard |-> heard[f.to.agent] # session[f.to.agent]]}
          /\ UNCHANGED <<generation, held, recording, mic>>

Submitted(f) == f.step = "submit" /\ (Dropped(f) \/ Fails(f))

Answer ==
    \E f \in flights :
        \/ (Resolved(f) \/ Loaded(f) \/ Recording(f) \/ Submitted(f))
           /\ UNCHANGED <<events, sent, spoken>> /\ UNCHANGED agents
        \/ Transcribed(f)

-----------------------------------------------------------------------------
(* The agent, and the events of its turns.                                 *)

Tell(a, type, text) ==
    events' = Append(events, [of |-> [agent |-> a, session |-> session[a]], type |-> type, text |-> text])

Type(a) ==
    /\ typed < MaxTyped /\ typed' = typed + 1
    /\ prompts' = [prompts EXCEPT ![a] = Append(@, 0)]
    /\ UNCHANGED <<session, heard, turn, events, flights, sent, spoken>> /\ UNCHANGED Controller

AgentSteps(a) ==
    /\ UNCHANGED <<session, heard, typed, flights, sent, spoken>> /\ UNCHANGED Controller
    /\ \/ /\ turn[a] = NoTurn /\ prompts[a] # <<>>
          /\ turn' = [turn EXCEPT ![a] = [prompt |-> Head(prompts[a]), said |-> "prompt"]]
          /\ prompts' = [prompts EXCEPT ![a] = Tail(@)]
          /\ Tell(a, "user.message", Head(prompts[a]))
       \/ /\ turn[a].said = "prompt"
          /\ turn' = [turn EXCEPT ![a].said = "answer"]
          /\ Tell(a, "assistant.message", turn[a].prompt) /\ UNCHANGED prompts
       \/ /\ turn[a].said \in {"prompt", "answer"}
          /\ turn' = [turn EXCEPT ![a] = NoTurn]
          /\ Tell(a, "session.idle", 0) /\ UNCHANGED prompts

(* Another session of the agent; the window's cache follows.               *)
SessionChanges(a) ==
    /\ session[a] < MaxSession
    /\ session' = [session EXCEPT ![a] = @ + 1]
    /\ turn' = [turn EXCEPT ![a] = NoTurn] /\ prompts' = [prompts EXCEPT ![a] = <<>>]
    /\ UNCHANGED <<heard, typed, events, flights, sent, spoken>> /\ UNCHANGED Controller
Hears(a) ==
    /\ heard[a] # session[a]
    /\ heard' = [heard EXCEPT ![a] = session[a]]
    /\ UNCHANGED <<session, prompts, turn, typed, events, flights, sent, spoken>> /\ UNCHANGED Controller

-----------------------------------------------------------------------------
(* event.                                                                  *)

(* A bug: the first reply there is.                                        *)
AnyReply(e) == TRUE
Matched(e) == reply.matched
Ignored == UNCHANGED <<generation, phase, target, held, recording, reply, mic, spoken>>
OnEvent ==
    /\ events # <<>>
    /\ events' = Tail(events)
    /\ UNCHANGED <<flights, sent>> /\ UNCHANGED agents
    /\ LET e == Head(events) IN
       IF reply = NoReply \/ target # e.of THEN Ignored
       ELSE IF ~IsCurrent(target) THEN held' = FALSE /\ Cancelled("idle", Nobody) /\ UNCHANGED spoken
       ELSE \/ /\ e.type = "user.message"
               /\ IF e.text = reply.prompt
                  THEN reply' = [reply EXCEPT !.matched = TRUE]
                       /\ UNCHANGED <<generation, phase, target, held, recording, mic, spoken>>
                  ELSE held' = FALSE /\ Cancelled("idle", Nobody) /\ UNCHANGED spoken
            \/ /\ e.type = "assistant.message"
               /\ IF Matched(e) THEN reply' = [reply EXCEPT !.text = e.text + 1] ELSE UNCHANGED reply
               /\ UNCHANGED <<generation, phase, target, held, recording, mic, spoken>>
            \/ /\ e.type = "session.idle"
               /\ IF Matched(e) /\ reply.text # 0
                  THEN /\ spoken' = spoken \cup {[prompt |-> reply.prompt, text |-> reply.text - 1]}
                       /\ phase' = "speaking" /\ reply' = NoReply
                       /\ UNCHANGED <<generation, target, held, recording, mic>>
                  ELSE Ignored

(* The reply is spoken, or not: or none came in ten minutes.               *)
SpeechEnds ==
    /\ phase = "speaking"
    /\ UNCHANGED <<flights, events, sent, spoken>> /\ UNCHANGED agents
    /\ \/ /\ phase' = "idle" /\ target' = Nobody
          /\ UNCHANGED <<generation, held, recording, reply, mic>>
       \/ Fail
ReplyTimesOut ==
    /\ reply # NoReply /\ Fail
    /\ UNCHANGED <<flights, events, sent, spoken>> /\ UNCHANGED agents

Next == \/ Cancel \/ Release \/ Answer \/ OnEvent \/ SpeechEnds \/ ReplyTimesOut
        \/ \E a \in Speaker : Press(a) \/ Type(a) \/ AgentSteps(a) \/ SessionChanges(a) \/ Hears(a)
Spec == Init /\ [][Next]_voiceVars

-----------------------------------------------------------------------------
(* The variables have their types.                                         *)
TypeOK ==
    /\ phase \in {"idle", "loading", "recording", "transcribing", "waiting", "speaking", "error"}
    /\ target.agent \in Speaker \cup {None} /\ held \in BOOLEAN
    /\ generation \in Nat /\ mic \subseteq 1..generation
    /\ \A a \in Speaker : session[a] \in 1..MaxSession /\ heard[a] <= session[a]

(* The microphone is open for the press that is held, and for one only:    *)
(* nothing that overtakes a press leaves it on.                            *)
MicrophoneIsHeld == mic # {} => mic = {recording} /\ held /\ phase = "recording"

(* A prompt reaches the session it was spoken to; or one the window has    *)
(* not heard of yet, as the server is told the agent and not the session.  *)
SentWhereSpoken == \A s \in sent : s.at = s.to.session \/ s.unheard

(* What is spoken is the agent's reply to the prompt that was.             *)
SpeaksItsReply == \A s \in spoken : s.text = s.prompt
=============================================================================
