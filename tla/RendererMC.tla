----------------------------- MODULE RendererMC -----------------------------
(* The focus of the keyboard (InputFocus, whose names this module takes    *)
(* over), the other components of the renderer and what the main process   *)
(* keeps for it, for TLC.  One component moves in each behaviour, and some *)
(* in a scope that leaves out actions the others have.                     *)
EXTENDS InputFocus, Sequences, TLC

CONSTANTS o1, o2, o3, a1, a2

VARIABLES moving
VARIABLES session, channel, current, desk, tools, question, syncs, syncInProgress, mishaps
VARIABLES memory, localStorage, file, durableLoadSettled, pendingDurableWrite, toMain, loaded,
          seatCalls, offices, deleted, storeMishaps
VARIABLES data, version, backups, staging, previous, orphans, restore, failures
VARIABLES autoStartKnownAgents, inView, warmed, warmups, titled, persisted, live, inFlight, cold,
          bindings, chains, flagged, warmedTimes, asked, answered, againstTheSetting, budget
VARIABLES panel, capacity, alive, sessionNumber, scrollback, viewers, pendingData, starting,
          toWindow, entries, entry, visible, currentAgent, terminal, shownId, isSwitching, opening,
          call, disturbed, spent
VARIABLES openOffices, shownOffice, seated, floor, agents, npcs, taken, walkIns, walkOuts, walkInAgents,
          skipButton, pendingWalkIns, animating, playerInScene, entering, leaving, walkMishaps, walkSpent
VARIABLES phase, target, generation, held, recording, reply, flights, mic, agentSession, heard, prompts,
          turn, events, sent, spoken, typed

status == INSTANCE AgentStatus WITH Office <- {o1, o2}, MaxPending <- 1, MaxMishaps <- 0
store == INSTANCE OfficeStore WITH
    MaxId <- 2, MaxOffices <- 2, Calls <- {1, 2}, MaxPending <- 2, MaxFailures <- 1, MaxRestarts <- 1,
    channel <- toMain, mishaps <- storeMishaps
backup == INSTANCE DataBackup WITH MaxVersions <- 2, MaxBackups <- 3, MaxFailures <- 2
starts == INSTANCE AutoStart WITH
    Seat <- {<<o1, a1>>, <<o2, a2>>}, Flagged <- {<<o2, a2>>}, MaxAttempts <- 2, MaxReplaces <- 1,
    MaxFailures <- 1, MaxToggles <- 1, current <- inView
views == INSTANCE TerminalViews WITH
    Agent <- {a1, a2}, MaxEntries <- 2, MaxClicks <- 4, MaxOutput <- 1, MaxOutside <- 1,
    session <- sessionNumber
office == INSTANCE OfficeFloor WITH
    Office <- {o1, o2, o3}, Main <- o1, Fleet <- {o3}, Desk <- {a1, a2}, MaxHires <- 2, MaxExits <- 1,
    MaxSwitches <- 2, offices <- openOffices, current <- shownOffice, mishaps <- walkMishaps,
    spent <- walkSpent
voice == INSTANCE VoiceControl WITH
    Speaker <- {a1}, MaxGeneration <- 3, MaxSession <- 2, MaxTyped <- 1, session <- agentSession

statusVars == <<session, channel, current, desk, tools, question, syncs, syncInProgress, mishaps>>
storeVars == <<memory, localStorage, file, durableLoadSettled, pendingDurableWrite, toMain, loaded,
               seatCalls, offices, deleted, storeMishaps>>
backupVars == <<data, version, backups, staging, previous, orphans, restore, failures>>
startVars == <<autoStartKnownAgents, inView, warmed, warmups, titled, persisted, live, inFlight,
               cold, bindings, chains, flagged, warmedTimes, asked, answered, againstTheSetting, budget>>
viewVars == <<panel, capacity, alive, sessionNumber, scrollback, viewers, pendingData, starting,
              toWindow, entries, entry, visible, currentAgent, terminal, shownId, isSwitching, opening,
              call, disturbed, spent>>
officeVars == <<openOffices, shownOffice, seated, floor, agents, npcs, taken, walkIns, walkOuts,
                walkInAgents, skipButton, pendingWalkIns, animating, playerInScene, entering, leaving,
                walkMishaps, walkSpent>>
voiceVars == <<phase, target, generation, held, recording, reply, flights, mic, agentSession, heard,
               prompts, turn, events, sent, spoken, typed>>

(* One sync at a time; in the second office a session that stays ready and *)
(* runs no tools, and no time passes; in the first one that asks questions. *)
Statuses == /\ status!Next /\ syncs'[2] = "nowhere"
            /\ \A t \in session'[o1].running : status!IsAsk(t)
            /\ session'[o2].running = {} /\ desk'[o2].age = 0
            /\ session[o2].life = "ready" => session'[o2].life = "ready"
(* Warm-ups without the cold start, and the cold start without them.       *)
WarmUps == starts!Next /\ cold' = cold /\ UNCHANGED <<bindings, chains, flagged>>
ColdStarts == starts!Next /\ warmups' = {} /\ asked' = asked /\ UNCHANGED <<inView, titled>>

(* A prompt is typed, or the session of the agent changes, and not both.   *)
Voices == voice!Next /\ (typed' = 0 \/ agentSession'[a1] = 1)

(* Three things happen: clicks in the panel, and one of them elsewhere.    *)
Panels == views!Next /\ spent'.clicks + spent'.outside <= 3

Init == /\ moving \in {"statuses", "store", "backup", "warmUps", "coldStarts", "panels", "floor", "voice",
                       "keys"}
        /\ status!Init /\ current = o1
        /\ store!Init /\ backup!Init
        /\ starts!Init /\ inView = o1
        /\ moving \notin {"warmUps"} => titled = {}
        /\ moving \notin {"warmUps", "coldStarts"} => autoStartKnownAgents
        /\ views!Init /\ (moving # "panels" => panel = "overlay" /\ capacity = 1)
        /\ office!Init
        /\ voice!Init /\ (moving # "voice" => heard = [a \in {a1} |-> 0])
        /\ FocusInit /\ (moving # "keys" => ~layout.portrait)
Next ==
    /\ UNCHANGED moving
    /\ \/ moving = "statuses" /\ Statuses
       \/ moving = "store" /\ store!Next
       \/ moving = "backup" /\ backup!Next
       \/ moving = "warmUps" /\ WarmUps
       \/ moving = "coldStarts" /\ ColdStarts
       \/ moving = "panels" /\ Panels
       \/ moving = "floor" /\ office!Next
       \/ moving = "voice" /\ Voices
       \/ moving = "keys" /\ FocusNext
    /\ IF moving = "statuses" THEN TRUE ELSE UNCHANGED statusVars
    /\ IF moving = "store" THEN TRUE ELSE UNCHANGED storeVars
    /\ IF moving = "backup" THEN TRUE ELSE UNCHANGED backupVars
    /\ IF moving \in {"warmUps", "coldStarts"} THEN TRUE ELSE UNCHANGED startVars
    /\ IF moving = "panels" THEN TRUE ELSE UNCHANGED viewVars
    /\ IF moving = "floor" THEN TRUE ELSE UNCHANGED officeVars
    /\ IF moving = "voice" THEN TRUE ELSE UNCHANGED voiceVars
    /\ IF moving = "keys" THEN TRUE ELSE UNCHANGED focusVars
Spec == Init /\ [][Next]_<<moving, statusVars, storeVars, backupVars, startVars, viewVars, officeVars,
                        voiceVars, focusVars>>

-----------------------------------------------------------------------------
(* What is not moving is in an initial state, and is looked at when it      *)
(* moves.  The variables of the components have their types.               *)
TypesOK ==
    CASE moving = "statuses" -> status!TypeOK
      [] moving = "store" -> store!TypeOK
      [] moving = "backup" -> backup!TypeOK
      [] moving \in {"warmUps", "coldStarts"} -> starts!TypeOK
      [] moving = "panels" -> views!TypeOK
      [] moving = "floor" -> office!TypeOK
      [] moving = "voice" -> voice!TypeOK
      [] moving = "keys" -> FocusTypeOK

(* The mark of a finished turn is the one the card shows.  A terminal that *)
(* is shown again without a replay has all that its agent said, and the    *)
(* panel, its terminal and its session id are of one agent.  The floor     *)
(* shows the agents that were seated, and its animations block it only as  *)
(* long as something moves.                                                *)
ShownIsTrue == /\ TypesOK
               /\ moving = "statuses" => status!MarksAreShown
               /\ moving = "panels" =>
                     views!WarmIsWhole /\ views!NobodyUnseenIsWatched /\ views!RestAgrees
               /\ moving = "floor" => office!WalksAreCounted /\ office!FloorIsAsSaved

(* Neither the start of a window, nor a restore, nor what fails on the way *)
(* loses what the user keeps: the file's offices and the data directory.   *)
DataIsKept == /\ store!TheFileKeepsOffices /\ [][store!TheFileCatchesUp']_storeVars
              /\ backup!ReplacedDataIsKept /\ [][backup!DataIsNeverLost']_backupVars

(* An office is warmed up once, and a click on "new session" waits for a   *)
(* replacement of that agent.  A seat is saved for an agent of the office. *)
(* The microphone is open for the press that is held, its words reach the  *)
(* session they were spoken to, and what is spoken is the reply to them.   *)
StartsAreOwn ==
    /\ moving \in {"warmUps", "coldStarts"} => starts!WarmedOnce /\ starts!ClicksJoinTheirOwn
    /\ moving = "floor" => office!SeatsAreOwn
    /\ moving = "voice" =>
          voice!MicrophoneIsHeld /\ voice!SentWhereSpoken /\ voice!SpeaksItsReply
=============================================================================
