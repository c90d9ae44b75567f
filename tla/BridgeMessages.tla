--------------------------- MODULE BridgeMessages ---------------------------
(* What the messages of the native bridge hold: the events of a session,   *)
(* which the extension shortens until they fit, the bytes in which they    *)
(* arrive at the broker, and the control commands (/compact, /usage and    *)
(* /model) whose results come back.  The order of the messages and the     *)
(* loss of the link are NativeBridge's.  The session is external.          *)
EXTENDS Naturals, Sequences, FiniteSetsExt

CONSTANTS
    Event,          \* what the session may emit: its kind and the sizes of its parts
    MaxMessage,     \* MAX_MESSAGE_BYTES, the same at both ends, in units
    TextMax, QuestionMax, ChoicesMax, PlanMax,  \* what compactEvent leaves of each part
    Chunk,          \* the most that one read brings
    Model, Lacks,   \* models, and sets of commands that a session may not support
    MaxEvents, MaxControls, MaxSwitches     \* bounds

VARIABLES
    sent,           \* frames written by the extension
    taken,          \* frames taken by the broker
    held,           \* what its buffer holds of those that follow
    destroyed       \* it gave up on the socket

VARIABLES
    control,        \* the control command under way
    reply,          \* what its caller was told
    model, compacted, lacks,    \* the session
    controls, switches, done    \* done: what the command did to the session

eventVars == <<sent, taken, held, destroyed>>
controlVars == <<control, reply, model, compacted, lacks, controls, switches, done>>
vars == <<eventVars, controlVars>>

NoControl == [command |-> "none", arg |-> "none", step |-> "idle"]
NoReply == [ok |-> FALSE, kind |-> "none", switchedTo |-> "none", success |-> FALSE]
Nothing == [switchedTo |-> "none", compacted |-> FALSE]

Init ==
    /\ sent = <<>> /\ taken = 0 /\ held = 0 /\ destroyed = FALSE
    /\ control = NoControl /\ reply = NoReply /\ done = Nothing
    /\ model \in Model /\ compacted = FALSE /\ lacks \in Lacks
    /\ controls = 0 /\ switches = 0

-----------------------------------------------------------------------------
(* An event has parts: what identifies it, a text, and for questions the   *)
(* question with its choices, for plans the plan, for forms their fields;  *)
(* escapes says how much longer each part is as JSON.                      *)
AtMost(size, max) == IF size > max THEN max ELSE size
Length(e) == 1 + e.escapes * (e.identity + e.text + e.asked + e.choices + e.plan + e.fields)

(* compactEvent: the identity is kept as it is, the first text is cut, and *)
(* with it everything after it; of what has no text, a question and a plan *)
(* are cut part by part, and nothing else is kept.                         *)
Compacted(e) ==
    [e EXCEPT !.text = AtMost(@, TextMax), !.fields = 0,
              !.asked = IF e.text > 0 THEN 0 ELSE AtMost(@, QuestionMax),
              !.choices = IF e.text > 0 THEN 0 ELSE AtMost(@, ChoicesMax),
              !.plan = IF e.text > 0 THEN 0 ELSE AtMost(@, PlanMax)]
Omitted(e) ==
    [e EXCEPT !.identity = 0, !.text = 0, !.asked = 0, !.choices = 0, !.plan = 0, !.fields = 0]

(* (A bug: what is compacted is taken to fit.) *)
PreparedOnce(e) == IF Length(e) <= MaxMessage THEN e ELSE Compacted(e)
(* prepareEventForBridge. *)
Prepared(e) ==
    IF Length(e) <= MaxMessage THEN e
    ELSE IF Length(Compacted(e)) <= MaxMessage THEN Compacted(e) ELSE Omitted(e)

(* sendFrame throws what is too long away; sendEventFrame does not mind. *)
Lost(e) == e.kind = "lost"
Sends(e) ==
    Append(sent, [of |-> e, as |-> IF Length(Prepared(e)) <= MaxMessage THEN Prepared(e)
                                   ELSE [Omitted(e) EXCEPT !.kind = "lost"]])

Emit(e) ==
    /\ Len(sent) < MaxEvents
    /\ sent' = Sends(e)
    /\ UNCHANGED <<taken, held, destroyed, controlVars>>

-----------------------------------------------------------------------------
(* handleData: the chunk is added to the buffer, whole lines are taken     *)
(* from it, and what is left must not be longer than a message may be.     *)
Size(i) == IF Lost(sent[i].as) THEN 0 ELSE Length(sent[i].as)
Upto(i) == MapThenSumSet(Size, 1..i)

(* Frames that are whole once so much has been received. *)
Whole(received) == {i \in 1..Len(sent) : Upto(i) <= received}

(* (A bug: the limit is applied before the lines are taken.) *)
TooLongAtOnce(before, after) == before > MaxMessage
TooLong(before, after) == after > MaxMessage

Receive(n) ==
    /\ ~destroyed
    /\ n <= Upto(Len(sent)) - Upto(taken) - held
    /\ LET received == Upto(taken) + held + n
           last == CHOOSE i \in Whole(received) \cup {taken} :
                      \A j \in Whole(received) \cup {taken} : j <= i
           left == received - Upto(last)
       IN IF TooLong(held + n, left)
          THEN destroyed' = TRUE /\ UNCHANGED <<taken, held>>
          ELSE taken' = last /\ held' = left /\ UNCHANGED destroyed
    /\ UNCHANGED <<sent, controlVars>>

-----------------------------------------------------------------------------
(* The control commands: one call of runControl, from the wrapper to the   *)
(* session and back.                                                       *)
RunControl(command, arg) ==
    /\ control.step = "idle" /\ controls < MaxControls
    /\ (arg # "none" => command = "model")
    /\ controls' = controls + 1
    /\ control' = [command |-> command, arg |-> arg, step |-> "asked"]
    /\ reply' = NoReply /\ done' = Nothing
    /\ UNCHANGED <<eventVars, model, compacted, lacks, switches>>

Replies(r) == control' = NoControl /\ reply' = r
Refused == [NoReply EXCEPT !.kind = control.command]
Reports(switchedTo, success) ==
    [ok |-> TRUE, kind |-> control.command, switchedTo |-> switchedTo, success |-> success]

(* The session lacks the command, or fails it. *)
ControlFails ==
    /\ control.step \in {"asked", "switched"}
    /\ Replies(Refused)
    /\ UNCHANGED <<eventVars, model, compacted, lacks, controls, switches, done>>

(* (A bug: a compaction that the session declined counts as done.) *)
AlwaysSuccess(success) == TRUE
Success(success) == success

Compact(success) ==
    /\ control.step = "asked" /\ control.command = "compact" /\ "compact" \notin lacks
    /\ compacted' = (compacted \/ success) /\ done' = [done EXCEPT !.compacted = success]
    /\ Replies(Reports("none", Success(success)))
    /\ UNCHANGED <<eventVars, model, lacks, controls, switches>>

(* The metrics, with the context where the session has it. *)
Usage ==
    /\ control.step = "asked" /\ control.command = "usage" /\ "usage" \notin lacks
    /\ Replies(Reports("none", FALSE))
    /\ UNCHANGED <<eventVars, model, compacted, lacks, controls, switches, done>>

(* The model is switched first, where the session can, and then asked for. *)
SwitchesModel ==
    /\ control.step = "asked" /\ control.command = "model" /\ "model" \notin lacks
    /\ control.arg # "none" /\ "switch" \notin lacks
    /\ model' = control.arg /\ done' = [done EXCEPT !.switchedTo = control.arg]
    /\ control' = [control EXCEPT !.step = "switched"]
    /\ UNCHANGED <<eventVars, reply, compacted, lacks, controls, switches>>

(* (A bug: the model asked for is reported whether it was switched to.) *)
AskedAnyway == control.arg = "none" \/ "switch" \in lacks
Asked == control.arg = "none"

ReportsModel ==
    /\ control.command = "model" /\ "model" \notin lacks
    /\ control.step = "switched" \/ (control.step = "asked" /\ Asked)
    /\ Replies(Reports(control.arg, FALSE))
    /\ UNCHANGED <<eventVars, model, compacted, lacks, controls, switches, done>>

(* Meanwhile the user switches the model in the TUI (external). *)
UserSwitches(m) ==
    /\ switches < MaxSwitches /\ switches' = switches + 1 /\ model' = m
    /\ UNCHANGED <<eventVars, control, reply, compacted, lacks, controls, done>>

-----------------------------------------------------------------------------
Next ==
    \/ \E e \in Event : Emit(e)
    \/ \E n \in 1..Chunk : Receive(n)
    \/ \E c \in {"compact", "usage", "model"}, m \in Model \cup {"none"} : RunControl(c, m)
    \/ ControlFails \/ Usage \/ SwitchesModel \/ ReportsModel
    \/ \E success \in BOOLEAN : Compact(success)
    \/ \E m \in Model : UserSwitches(m)

Spec == Init /\ [][Next]_vars

-----------------------------------------------------------------------------
TypeOK ==
    /\ taken \in 0..Len(sent) /\ held \in Nat /\ destroyed \in BOOLEAN
    /\ control.step \in {"idle", "asked", "switched"} /\ model \in Model

(* "Event delivery is best-effort; never tear down the command channel"    *)
(* (native-bridge-extension.ts, sendEventFrame): every event that the      *)
(* session emits gets through, however long, whole or shortened, and no    *)
(* way in which the bytes arrive ends the connection; a question that was  *)
(* shortened still says what it asks, and which request an answer is for.  *)
EventsGetThrough ==
    /\ ~destroyed
    /\ \A i \in DOMAIN sent : ~Lost(sent[i].as)
    /\ \A i \in DOMAIN sent :
          LET e == sent[i] IN
          /\ Length(e.of) <= MaxMessage => e.as = e.of
          /\ (e.of.kind = "question" /\ e.of.escapes = 1 /\ e.of.identity = 1)
                => e.as.identity = 1 /\ e.as.asked > 0

(* What a control command is reported to have done, it did.                *)
ControlsAreTrue ==
    /\ reply.ok => reply.switchedTo = done.switchedTo
    /\ reply.success => compacted /\ done.compacted
=============================================================================
