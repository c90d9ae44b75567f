---------------------- MODULE OrchestratorConversation ----------------------
(* The conversation with the orchestrator: the panel that is shown,        *)
(* minimized and closed, the session behind it, and the transcript that    *)
(* outlives both.  What the renderer asks of the main process arrives in   *)
(* its order; what the main process sends is taken at once, except the     *)
(* replies to open.  The gate and the round trips of the tools have their  *)
(* own modules; other openers of the session (Teams) are left out.         *)
EXTENDS Naturals, Sequences, SequencesExt, FiniteSets

CONSTANTS
    Bound,          \* transcriptBound
    MaxSessions, MaxTurns, MaxShows, MaxCloses, MaxFaults, MaxRestarts  \* bounds

VARIABLES
    user,           \* whether the user closed the panel last, and was ever ahead of open
    panel,          \* isVisible, sessionId (0 if empty), endRequested
    shown,          \* the messages written to the terminal of the panel
    inbox,          \* requests to the main process
    replies,        \* replies to open under way: sessions, or 0 for an error
    session,        \* the manager's, or 0
    openPromise,    \* the start it stands for, or 0
    awaiting,       \* how many calls of open wait for each start
    starting,       \* the starts under way
    stream,         \* the session whose events are taken, or 0
    sdk, ending,    \* sessions connected, and those being disconnected
    began,          \* the conversation that each session was opened in
    transcript,     \* lifecycle and turns; "none" if null
    file,           \* orchestrator-transcript.json
    conversation,   \* the number of conversations closed
    said,           \* the number of messages and inputs
    spent           \* of the bounds

panelVars == <<user, panel, shown, inbox, replies>>
sessionVars == <<session, openPromise, awaiting, starting, stream, sdk, ending, began>>
recordVars == <<transcript, file, conversation>>
conversationVars == <<panelVars, sessionVars, recordVars, said, spent>>

Sessions == 1..MaxSessions
None == [lifecycle |-> "none", turns |-> <<>>]
Hidden == [visible |-> FALSE, session |-> 0, endRequested |-> FALSE]

Nobody == [s \in Sessions |-> 0]

Init == /\ user = [closed |-> FALSE, hasty |-> FALSE]
        /\ panel = Hidden /\ shown = {} /\ inbox = <<>> /\ replies = <<>>
        /\ session = 0 /\ openPromise = 0 /\ awaiting = Nobody /\ starting = {} /\ stream = 0
        /\ sdk = {} /\ ending = {} /\ transcript = None
        /\ file = None /\ conversation = 0 /\ said = 0 /\ began = Nobody
        /\ spent = [sessions |-> 0, shows |-> 0, closes |-> 0, faults |-> 0, restarts |-> 0]

-----------------------------------------------------------------------------
(* The transcript.                                                         *)

(* A save may fail, which stops nothing.                                   *)
Saved(record) ==
    \/ file' = record /\ UNCHANGED spent
    \/ spent.faults < MaxFaults /\ file' = file /\ spent' = [spent EXCEPT !.faults = @ + 1]

Turn(kind, s, n) == [kind |-> kind, by |-> s, n |-> n, conversation |-> conversation]
Appended(turn) ==
    LET turns == Append(transcript.turns, turn)
    IN IF Len(turns) > Bound THEN Tail(turns) ELSE turns

CaptureTurn(turn) ==
    IF transcript.lifecycle = "active"
    THEN /\ transcript' = [transcript EXCEPT !.turns = Appended(turn)]
         /\ Saved(transcript')
    ELSE UNCHANGED <<transcript, file, spent>>

(* A closed record is no conversation.  (A bug: it is.)                    *)
AnyRecord == file.lifecycle # "none"
ActiveRecord == file.lifecycle = "active"
InitTranscript ==
    /\ transcript' = IF ActiveRecord THEN [lifecycle |-> "active", turns |-> file.turns]
                     ELSE [lifecycle |-> "active", turns |-> <<>>]
    /\ Saved(transcript')

(* The record is saved as closed, and removed.                             *)
Removed ==
    \/ file' = None /\ UNCHANGED spent
    \/ /\ spent.faults < MaxFaults /\ spent' = [spent EXCEPT !.faults = @ + 1]
       /\ file' = IF transcript.lifecycle = "active" THEN [transcript EXCEPT !.lifecycle = "closed"]
                  ELSE file

-----------------------------------------------------------------------------
(* The panel.                                                              *)

Sends(requests) == inbox' = inbox \o requests

(* The panel still waits for the session it was shown for.                 *)
Opening == \/ \E i \in DOMAIN inbox : inbox[i].kind = "open"
           \/ replies # <<>> \/ starting # {}

Show ==
    /\ ~panel.visible /\ spent.shows < MaxShows
    /\ spent' = [spent EXCEPT !.shows = @ + 1]
    /\ user' = [closed |-> FALSE, hasty |-> user.hasty \/ Opening]
    /\ panel' = [panel EXCEPT !.visible = TRUE, !.endRequested = FALSE]
    /\ Sends(<<[kind |-> "open", session |-> 0]>>)
    /\ UNCHANGED <<shown, replies, sessionVars, recordVars, said>>

(* The panel goes on as open replies, and has the transcript replayed.     *)
(* (Bugs: it forgets that it was closed, and it replays the transcript of  *)
(* a session once.)                                                        *)
ForTheFirstTime(s) == panel.visible /\ panel.session # s
Replays(s) == panel.visible
Regardless == FALSE
ClosedMeanwhile == panel.endRequested
Opened ==
    /\ replies # <<>> /\ replies' = Tail(replies)
    /\ LET s == Head(replies) IN
       \/ s = 0 /\ UNCHANGED <<panel, inbox>>
       \/ /\ s # 0 /\ ClosedMeanwhile
          /\ panel' = [panel EXCEPT !.endRequested = FALSE, !.session = 0]
          /\ Sends(<<[kind |-> "end", session |-> s]>>)
       \/ /\ s # 0 /\ ~ClosedMeanwhile
          /\ panel' = [panel EXCEPT !.session = s]
          /\ Sends(IF Replays(s) THEN <<[kind |-> "transcript", session |-> s]>> ELSE <<>>)
    /\ UNCHANGED <<user, shown, sessionVars, recordVars, said, spent>>

Minimize ==
    /\ panel.visible
    /\ panel' = [panel EXCEPT !.visible = FALSE] /\ shown' = {}
    /\ UNCHANGED <<user, inbox, replies, sessionVars, recordVars, said, spent>>

CloseSession ==
    /\ panel.visible /\ spent.closes < MaxCloses
    /\ spent' = [spent EXCEPT !.closes = @ + 1]
    /\ user' = [closed |-> TRUE, hasty |-> user.hasty \/ (Opening /\ panel.session # 0)]
    /\ panel' = [visible |-> FALSE, session |-> 0, endRequested |-> panel.session = 0]
    /\ Sends(IF panel.session # 0 THEN <<[kind |-> "end", session |-> panel.session]>> ELSE <<>>)
    /\ shown' = {}
    /\ UNCHANGED <<replies, sessionVars, recordVars, said>>

SubmitInput ==
    /\ panel.visible /\ panel.session # 0 /\ said < MaxTurns
    /\ Sends(<<[kind |-> "input", session |-> panel.session]>>)
    /\ said' = said + 1
    /\ UNCHANGED <<user, panel, shown, replies, sessionVars, recordVars, spent>>

-----------------------------------------------------------------------------
(* The main process.                                                       *)

Request(kind) == /\ inbox # <<>> /\ Head(inbox).kind = kind /\ inbox' = Tail(inbox)

(* open() takes the session there is, or waits for the one being started,  *)
(* or starts one.                                                          *)
Open ==
    /\ Request("open")
    /\ \/ /\ session # 0 /\ replies' = Append(replies, session)
          /\ UNCHANGED <<openPromise, awaiting, starting, began, spent>>
       \/ /\ session = 0 /\ openPromise # 0
          /\ awaiting' = [awaiting EXCEPT ![openPromise] = @ + 1]
          /\ UNCHANGED <<replies, openPromise, starting, began, spent>>
       \/ /\ session = 0 /\ openPromise = 0 /\ spent.sessions < MaxSessions
          /\ spent' = [spent EXCEPT !.sessions = @ + 1]
          /\ openPromise' = spent.sessions + 1
          /\ starting' = starting \cup {openPromise'}
          /\ awaiting' = [awaiting EXCEPT ![openPromise'] = 1]
          /\ UNCHANGED <<replies, began>>
    /\ UNCHANGED <<user, panel, shown, session, stream, sdk, ending, recordVars, said>>

Replied(s, answer) == replies' = replies \o [i \in 1..awaiting[s] |-> answer]

StartSucceeds(s) ==
    /\ s \in starting /\ starting' = starting \ {s}
    /\ session' = s /\ openPromise' = 0 /\ stream' = s /\ sdk' = sdk \cup {s}
    /\ began' = [began EXCEPT ![s] = conversation]
    /\ Replied(s, s) /\ InitTranscript
    /\ UNCHANGED <<user, panel, shown, inbox, awaiting, ending, conversation, said>>

StartFails(s) ==
    /\ s \in starting /\ starting' = starting \ {s} /\ openPromise' = 0 /\ Replied(s, 0)
    /\ UNCHANGED <<user, panel, shown, inbox, session, stream, sdk, ending, began, awaiting,
                   recordVars, said, spent>>

(* endSession: from here on, nothing that the session says is taken.       *)
EndSession ==
    /\ Request("end")
    /\ Removed
    /\ transcript' = None /\ conversation' = conversation + 1
    /\ stream' = 0 /\ session' = 0 /\ openPromise' = 0
    /\ ending' = ending \cup ({session} \ {0})
    /\ UNCHANGED <<user, panel, shown, replies, awaiting, starting, sdk, began, said>>

Disconnected(s) ==
    /\ s \in ending /\ ending' = ending \ {s} /\ sdk' = sdk \ {s}
    /\ UNCHANGED <<panelVars, session, openPromise, awaiting, starting, stream, began,
                   recordVars, said, spent>>

(* The session that there is takes the input, whichever the panel means.   *)
Input ==
    /\ Request("input")
    /\ IF session # 0
       THEN CaptureTurn(Turn("user", session, 0))
       ELSE UNCHANGED <<transcript, file, spent>>
    /\ UNCHANGED <<user, panel, shown, replies, sessionVars, conversation, said>>

Messages(turns) == {t.n : t \in {t \in Range(turns) : t.kind = "message"}}

(* What is replayed: the record of the session, or what is on the disk.    *)
GetTranscript ==
    IF transcript.lifecycle = "active" THEN transcript.turns
    ELSE IF file.lifecycle = "active" THEN file.turns ELSE <<>>
ReplayTranscript ==
    /\ Request("transcript")
    /\ shown' = IF panel.visible THEN shown \cup Messages(GetTranscript) ELSE shown
    /\ UNCHANGED <<user, panel, replies, sessionVars, recordVars, said, spent>>

-----------------------------------------------------------------------------
(* What the session says: a message is written once, in pieces or whole.   *)

Message(s) ==
    /\ s \in sdk /\ said < MaxTurns /\ said' = said + 1
    /\ IF stream = s
       THEN /\ shown' = IF panel.visible THEN shown \cup {said'} ELSE shown
            /\ CaptureTurn(Turn("message", s, said'))
       ELSE UNCHANGED <<shown, transcript, file, spent>>
    /\ UNCHANGED <<user, panel, inbox, replies, sessionVars, conversation>>

(* The application dies, perhaps as it writes, and is started again.       *)
Restart ==
    /\ spent.restarts < MaxRestarts
    /\ user' = [closed |-> FALSE, hasty |-> FALSE]
    /\ panel' = Hidden /\ shown' = {} /\ inbox' = <<>> /\ replies' = <<>>
    /\ session' = 0 /\ openPromise' = 0 /\ awaiting' = Nobody /\ starting' = {} /\ stream' = 0
    /\ sdk' = {} /\ ending' = {} /\ transcript' = None
    /\ \/ file' = file /\ spent' = [spent EXCEPT !.restarts = @ + 1]
       \/ /\ transcript.lifecycle = "active" /\ spent.faults < MaxFaults /\ file' = None
          /\ spent' = [spent EXCEPT !.restarts = @ + 1, !.faults = @ + 1]
    /\ UNCHANGED <<began, conversation, said>>

Next == \/ Show \/ Opened \/ Minimize \/ CloseSession \/ SubmitInput
        \/ Open \/ EndSession \/ Input \/ ReplayTranscript \/ Restart
        \/ \E s \in starting : StartSucceeds(s) \/ StartFails(s)
        \/ \E s \in sdk : Message(s)
        \/ \E s \in ending : Disconnected(s)
Spec == Init /\ [][Next]_conversationVars

-----------------------------------------------------------------------------
(* The variables have their types.                                         *)
TypeOK ==
    /\ session \in Sessions \cup {0} /\ openPromise \in starting \cup {0}
    /\ ending \subseteq sdk /\ stream \in {0, session} /\ session \in sdk \cup {0}
    /\ Len(transcript.turns) <= Bound /\ shown \subseteq 1..said
    /\ transcript.lifecycle = "active" <=> session # 0

(* A conversation that the user closed is never taken up again, from the   *)
(* disk or from the memory, though one write of its closing may fail; and  *)
(* nothing that its session goes on to say becomes part of the next.       *)
ClosedStaysClosed ==
    \A record \in {transcript, file} :
        record.lifecycle = "active" =>
            \A i \in DOMAIN record.turns :
                LET turn == record.turns[i]
                IN turn.conversation = conversation /\ began[turn.by] = conversation

(* As long as no write fails, a restart restores all of the transcript.    *)
RestartsRestore == (spent.faults = 0 /\ session # 0) => file = transcript

(* Once the panel has caught up with its requests, it has shown each       *)
(* message of the transcript.                                              *)
MessagesAreShown ==
    (panel.visible /\ panel.session # 0 /\ panel.session = session
        /\ inbox = <<>> /\ replies = <<>>)
    => Messages(transcript.turns) \subseteq shown

(* A panel closed by the user leaves no session behind, also if it was     *)
(* closed during the start, once everything under way has ended.  (Unless  *)
(* it was ever shown again, or closed as the panel of a session, while it  *)
(* still waited for open: the late reply gives it the id of a dead one.)   *)
ClosedLeavesNothing ==
    (user.closed /\ ~user.hasty /\ inbox = <<>> /\ replies = <<>> /\ starting = {} /\ ending = {})
    => sdk = {}
=============================================================================
