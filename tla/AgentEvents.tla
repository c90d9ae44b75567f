---------------------------- MODULE AgentEvents ----------------------------
(***************************************************************************)
(* The events of one terminal without a bridge: EventsWatcher tails the    *)
(* session's events.jsonl, which the CLI appends to, and the terminal      *)
(* server's callback makes of each event what the application hears.       *)
(*                                                                         *)
(* The file is a sequence of bytes: line i is the two halves of one        *)
(* character, <<i, 1>> and <<i, 2>>, and a newline, <<i, 0>>.  Reading     *)
(* goes in chunks, so a chunk may end inside a line or a character.  What  *)
(* an event says is its kind:                                              *)
(*    "user"   a prompt         "end"   the end of a turn                  *)
(*    "tool"   a tool starts    "done"  the last tool started is complete  *)
(*    "form"   a form that no tool call backs (elicitation.requested)      *)
(*                                                                         *)
(* Bounds: MaxLines lines, MaxChunk bytes per read, MaxFailures failures   *)
(* to stat or open, MaxRotations truncations.                              *)
(***************************************************************************)
EXTENDS Integers, Sequences, SequencesExt, FiniteSetsExt

CONSTANTS
    EventKinds, MaxLines, MaxChunk, MaxFailures, MaxRotations,
    LockedAtFirst    \* whether the read of the initial history may fail

VARIABLES
    file, kinds,             \* the bytes of events.jsonl; the kind of each line
    watch,                   \* "off", "deferred", "absent", "on", "gaveUp" or "stopped"
    fileOffset, lineBuffer,
    reader,                  \* where the asynchronous reader is: "idle", "stat", "open", "read"
    target, isHistorical,    \* arguments of readThroughOffset
    initialReadComplete, readRequested,
    hasSignalledReady,       \* of the callback in the server
    delivered,               \* ghost: what the callback was called with
    sent,                    \* what the server sent of it, in order
    stale,                   \* ghost: lines that were complete when the tail began
    failures, rotations

tailVars == <<fileOffset, lineBuffer, reader, target, isHistorical, initialReadComplete,
              readRequested>>
eventVars == <<file, kinds, watch, tailVars, hasSignalledReady, delivered, sent, stale,
               failures, rotations>>

LinesOf(bytes) == {i \in DOMAIN kinds : <<i, 0>> \in ToSet(bytes)}

TypeOK ==
    /\ file \in Seq((1..MaxLines) \X (0..2)) /\ kinds \in Seq(EventKinds)
    /\ watch \in {"off", "deferred", "absent", "on", "gaveUp", "stopped"}
    /\ fileOffset \in 0..3 * MaxLines /\ target \in 0..3 * MaxLines
    /\ lineBuffer \in Seq((1..MaxLines) \X (1..2))
    /\ reader \in {"idle", "stat", "open", "read"}
    /\ {isHistorical, initialReadComplete, readRequested, hasSignalledReady}
          \subseteq BOOLEAN
    /\ sent \in Seq([line : 1..MaxLines, what : {"turn", "tool", "toolDone", "prompt", "form"}])

Init ==
    /\ \E n \in 0..1 : \E k \in EventKinds :
          /\ kinds = [i \in 1..n |-> k]
          /\ file = IF n = 0 THEN <<>> ELSE <<<<1, 1>>, <<1, 2>>, <<1, 0>>>>
    /\ watch = "off" /\ fileOffset = 0 /\ lineBuffer = <<>> /\ reader = "idle" /\ target = 0
    /\ isHistorical = FALSE /\ initialReadComplete = FALSE /\ readRequested = FALSE
    /\ hasSignalledReady = FALSE /\ delivered = <<>> /\ sent = <<>>
    /\ stale = {} /\ failures = 0 /\ rotations = 0

-----------------------------------------------------------------------------
(* The CLI, which writes a line in pieces and may begin the file anew.     *)

Written == Len(file) % 3
Unnoticed == Len(file) < fileOffset

(* A rewritten file stays shorter than what was read until that is noticed *)
(* (the watcher can tell it by its size only).                             *)
Appends ==
    /\ ~Unnoticed
    /\ \E m \in 1..3, k \in EventKinds :
          LET n == IF Written = 0 THEN Len(kinds) + 1 ELSE Len(kinds)
              line == <<<<n, 1>>, <<n, 2>>, <<n, 0>>>>
          IN  /\ n <= MaxLines /\ Written + m <= 3
              /\ Written > 0 => k = kinds[n]
              /\ kinds' = IF Written = 0 THEN Append(kinds, k) ELSE kinds
              /\ file' = file \o SubSeq(line, Written + 1, Written + m)
    /\ UNCHANGED <<watch, tailVars, hasSignalledReady, delivered, sent, stale, failures,
                   rotations>>

Rotates ==
    /\ rotations < MaxRotations /\ rotations' = rotations + 1
    /\ Written = 0 /\ file # <<>> /\ file' = <<>>
    /\ UNCHANGED <<kinds, watch, tailVars, hasSignalledReady, delivered, sent, stale,
                   failures>>

-----------------------------------------------------------------------------
(* The server: launch, readiness and what it makes of an event.            *)

(* The watcher starts 100 ms after the launch, unless the terminal ended.  *)
Launch ==
    /\ watch = "off" /\ watch' = "deferred"
    /\ UNCHANGED <<file, kinds, tailVars, hasSignalledReady, delivered, sent, stale,
                   failures, rotations>>

(* startWatching: the watchers are there before the history is read.       *)
Starts ==
    \/ watch' = "on" /\ reader' = "stat" /\ isHistorical' = TRUE
       /\ stale' = LinesOf(file)
    \/ file = <<>> /\ watch = "deferred" /\ watch' = "absent"
       /\ UNCHANGED <<reader, isHistorical, stale>>

Start ==
    /\ watch = "deferred" /\ Starts
    /\ UNCHANGED <<file, kinds, fileOffset, lineBuffer, target, initialReadComplete,
                   readRequested, hasSignalledReady, delivered, sent, failures,
                   rotations>>

(* The poll for a file that was not there: it finds it or gives up.        *)
PollForFile ==
    /\ watch = "absent" /\ Starts
    /\ UNCHANGED <<file, kinds, fileOffset, lineBuffer, target, initialReadComplete,
                   readRequested, hasSignalledReady, delivered, sent, failures,
                   rotations>>

GivesUp ==
    /\ watch = "absent" /\ file = <<>> /\ watch' = "gaveUp"
    /\ UNCHANGED <<file, kinds, tailVars, hasSignalledReady, delivered, sent, stale,
                   failures, rotations>>

Stop ==
    /\ watch \in {"absent", "on", "gaveUp"} /\ watch' = "stopped"
    /\ readRequested' = FALSE
    /\ UNCHANGED <<file, kinds, fileOffset, lineBuffer, reader, target, isHistorical,
                   initialReadComplete, hasSignalledReady, delivered, sent, stale,
                   failures, rotations>>

(* The footer of the CLI in the terminal's output.                         *)
FooterShows ==
    /\ watch \notin {"off", "stopped"} /\ ~hasSignalledReady /\ hasSignalledReady' = TRUE
    /\ UNCHANGED <<file, kinds, watch, tailVars, delivered, sent, stale, failures,
                   rotations>>

(* A bug: a form announces a tool even when no tool call backs it.         *)
MessageAnnouncing(kind) ==
    [user |-> "prompt", end |-> "turn", tool |-> "tool", done |-> "toolDone",
     form |-> "tool"][kind]

Message(kind) ==
    [user |-> "prompt", end |-> "turn", tool |-> "tool", done |-> "toolDone",
     form |-> "form"][kind]

SignalsReady(kind) == kind \in {"end", "user"}

(* watcherCallback.  state is [ready, sent].                               *)
Heard(line, historical, state) ==
    LET ready == state.ready \/ SignalsReady(kinds[line])
    IN  [ready |-> ready,
         sent |-> IF historical \/ ~ready THEN state.sent
                  ELSE Append(state.sent, [line |-> line, what |-> Message(kinds[line])])]

-----------------------------------------------------------------------------
(* The reader.                                                             *)

Wanted == watch = "on"

(* readNewLines, from fs.watch, fs.watchFile or the poll.                  *)
Trigger ==
    /\ Wanted /\ (~readRequested \/ (initialReadComplete /\ reader = "idle"))
    /\ IF initialReadComplete /\ reader = "idle"
       THEN reader' = "stat" /\ isHistorical' = FALSE /\ readRequested' = FALSE
       ELSE readRequested' = TRUE /\ UNCHANGED <<reader, isHistorical>>
    /\ UNCHANGED <<file, kinds, watch, fileOffset, lineBuffer, target, initialReadComplete,
                   hasSignalledReady, delivered, sent, stale, failures, rotations>>

(* The end of a pass.  The initial one is always followed by another.      *)
PassEnds ==
    /\ initialReadComplete' = TRUE
    /\ IF Wanted /\ (isHistorical \/ readRequested)
       THEN reader' = "stat" ELSE reader' = "idle"
    /\ isHistorical' = FALSE /\ readRequested' = FALSE

(* stat answers: readThroughOffset begins.                                 *)
Stat ==
    /\ reader = "stat"
    /\ target' = Len(file)
    /\ LET short == Len(file) < fileOffset
       IN  /\ fileOffset' = IF short THEN 0 ELSE fileOffset
           /\ lineBuffer' = IF short THEN <<>> ELSE lineBuffer
    /\ IF Len(file) > fileOffset' /\ Wanted
       THEN reader' = "open" /\ UNCHANGED <<initialReadComplete, isHistorical, readRequested>>
       ELSE PassEnds
    /\ UNCHANGED <<file, kinds, watch, hasSignalledReady, delivered, sent, stale,
                   failures, rotations>>

Open ==
    /\ reader = "open"
    /\ IF Wanted THEN reader' = "read"
                      /\ UNCHANGED <<initialReadComplete, isHistorical, readRequested>>
                 ELSE PassEnds
    /\ UNCHANGED <<file, kinds, watch, fileOffset, lineBuffer, target, hasSignalledReady,
                   delivered, sent, stale, failures, rotations>>

(* stat or open throws: the pass is over, a trigger retries.               *)
Fails ==
    /\ reader \in {"stat", "open"} /\ failures < MaxFailures
    /\ ~isHistorical \/ LockedAtFirst
    /\ failures' = failures + 1 /\ PassEnds
    /\ UNCHANGED <<file, kinds, watch, fileOffset, lineBuffer, target, hasSignalledReady,
                   delivered, sent, stale, rotations>>

(* A bug: each chunk is cut into lines by itself.                          *)
ForgetfulLines(data) ==
    {k \in DOMAIN data : data[k][2] = 0 /\ k >= Len(lineBuffer) + 3}

(* The newlines of the data at hand, and the events that JSON.parse finds  *)
(* before them: a line decodes if all its bytes are there, in order.       *)
Newlines(data) == {k \in DOMAIN data : data[k][2] = 0}
Parsed(data, k) ==
    /\ k > 2 /\ SubSeq(data, k - 2, k - 1) = <<<<data[k][1], 1>>, <<data[k][1], 2>>>>
    /\ k = 3 \/ data[k - 3][2] = 0

(* processChunk: the lines that end in it, and the rest is kept.           *)
ProcessChunk(chunk) ==
    LET data == lineBuffer \o chunk
        ends == SetToSortSeq({k \in Newlines(data) : Parsed(data, k)}, <)
        lines == [i \in DOMAIN ends |-> data[ends[i]][1]]
        heard == FoldLeft(LAMBDA state, line : Heard(line, isHistorical, state),
                          [ready |-> hasSignalledReady, sent |-> sent], lines)
    IN  /\ lineBuffer' = SubSeq(data, 1 + (IF Newlines(data) = {} THEN 0 ELSE Max(Newlines(data))),
                                Len(data))
        /\ IF Wanted    \* stop() has set the callback to null
           THEN /\ delivered' = delivered \o lines
                /\ hasSignalledReady' = heard.ready /\ sent' = heard.sent
           ELSE UNCHANGED <<delivered, hasSignalledReady, sent>>

(* One read of the loop, up to the next await; 0 bytes end it.             *)
Read ==
    /\ reader = "read"
    /\ LET n == Min({MaxChunk, target - fileOffset, Max({0, Len(file) - fileOffset})})
           goesOn == n > 0 /\ fileOffset + n < target /\ Wanted
       IN  /\ fileOffset' = fileOffset + n
           /\ ProcessChunk(SubSeq(file, fileOffset + 1, fileOffset + n))
           /\ IF goesOn THEN UNCHANGED <<reader, initialReadComplete, isHistorical, readRequested>>
                        ELSE PassEnds
    /\ UNCHANGED <<file, kinds, watch, target, stale, failures, rotations>>

-----------------------------------------------------------------------------
Environment == Appends \/ Rotates \/ Launch \/ Stop \/ FooterShows
Reader == Stat \/ Open \/ Read
Next == Environment \/ Start \/ PollForFile \/ GivesUp \/ Trigger \/ Reader \/ Fails

(* The timer and the polls fire, and the file system answers.              *)
EventSteps == Start \/ PollForFile \/ Reader
Fairness ==
    /\ WF_eventVars(EventSteps)
    /\ WF_eventVars(Trigger)
Spec == Init /\ [][Next]_eventVars /\ Fairness

-----------------------------------------------------------------------------
(* What the callback has been called with are the lines of the file, each  *)
(* once, whole and in order, however the reads cut them; lines are         *)
(* numbered, so that a file begun anew goes on where the old one ended.    *)
(* Of what has been read, no line is missing.                              *)
LinesArriveOnceInOrder ==
    /\ \A i \in 1..Len(delivered) - 1 : delivered[i] < delivered[i + 1]
    /\ watch = "on" => \A k \in (1..fileOffset) \cap DOMAIN file :
                          file[k][2] = 0 => file[k][1] \in ToSet(delivered)

(* The history of a resumed session is never forwarded as what the agent   *)
(* does now: the comment in the callback says which bugs that caused.      *)
HistoryStaysSilent == \A i \in DOMAIN sent : sent[i].line \notin stale

(* A tool the application was told of is a tool call of the agent; another *)
(* would never be completed and would pin the agent as busy.               *)
AnnouncedToolsAreCalls ==
    \A i \in DOMAIN sent : sent[i].what = "tool" => kinds[sent[i].line] = "tool"

(* Once the writing stops, every complete line of the file is delivered,   *)
(* unless the terminal was stopped or its file came too late.              *)
TailCatchesUp == <>[](watch = "on" => LinesOf(file) \subseteq ToSet(delivered))
=============================================================================
