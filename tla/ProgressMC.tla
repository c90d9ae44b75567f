----------------------------- MODULE ProgressMC -----------------------------
(* What must happen in the end, for TLC, in instances small enough for its *)
(* liveness check.  One component moves in each behaviour, and the         *)
(* fairness that its module justifies is that of the one that moves.       *)
EXTENDS Naturals, Sequences, TLC

CONSTANTS c1, c2, NoCall, r1, p1

VARIABLES moving
VARIABLES phase, window, pendingHardReload, server, procs, pendingRequests, queuedRequests,
          shuttingDown, req, handed, dropped, ptys, os, registry, unrelated, budget
VARIABLES file, kinds, watch, fileOffset, lineBuffer, reader, target, isHistorical,
          initialReadComplete, readRequested, hasSignalledReady, delivered, sent, stale,
          failures, rotations
VARIABLES op, tasks, calls, agentSession, starter, userActs, teamsState, wish
VARIABLES binding, noticePosted, seen, queue, item, pending, ambient, timers, submitting, closing,
          strays, renders, jobs, echoes, postedMessageIds, agent, emitted, asides, written,
          settledOutput, cut, submitted, refusals
VARIABLES session, opening, starting, starts, sdk, ending, lifecycle, state, of, targeted, since,
          epoch, pinned, allowAll, gateRelay, thread, going, registering, record, asked, cutCalls,
          unpinned, ends, closes, errors, registrations
VARIABLES raised, outcome, completing, slot, toExt, toMain, records, posting, replies, flying,
          connected, leaving, undelivered, inApp, left, accepted, timeouts, lost, offlines, resets

ipc == INSTANCE ServerRelay WITH
    Request <- {r1}, Pid <- {p1}, MaxCrashes <- 1, MaxReloads <- 1, MaxPtys <- 0, MaxFailures <- 1
events == INSTANCE AgentEvents WITH
    EventKinds <- {"user"}, MaxLines <- 2, MaxChunk <- 2, MaxFailures <- 1,
    MaxRotations <- 1, LockedAtFirst <- FALSE
operations == INSTANCE AgentOperations WITH MaxCalls <- 2, MaxUserActs <- 2
dispatch == INSTANCE TeamsDispatch WITH
    MaxPrompts <- 2, MaxOutputs <- 1, MaxRetries <- 0, MaxAsides <- 0, MaxRefusals <- 1,
    LateFailures <- FALSE, EarlyEchoes <- FALSE
gate == INSTANCE OrchestratorGate WITH
    Call <- {c1, c2}, MaxStarts <- 1, MaxEnds <- 1, MaxCloses <- 1, MaxErrors <- 0,
    MaxRegistrations <- 1, cut <- cutCalls, relay <- gateRelay
interactions == INSTANCE ThreadInteractions WITH
    AskKind <- {"plan"}, MaxAsks <- 2, MaxReplies <- 2, MaxAppAnswers <- 1, MaxTimeouts <- 1,
    MaxFailures <- 1, MaxOffline <- 1, MaxResets <- 0,
    kind <- raised, record <- records, online <- connected, going <- leaving, failures <- lost

relayVars == <<phase, window, pendingHardReload, server, procs, pendingRequests, queuedRequests,
               shuttingDown, req, handed, dropped, ptys, os, registry, unrelated, budget>>
eventVars == <<file, kinds, watch, fileOffset, lineBuffer, reader, target, isHistorical,
               initialReadComplete, readRequested, hasSignalledReady, delivered, sent, stale,
               failures, rotations>>
operationVars == <<op, tasks, calls, agentSession, starter, userActs, teamsState, wish>>
dispatchVars == <<binding, noticePosted, seen, queue, item, pending, ambient, timers, submitting,
                  closing, strays, renders, jobs, echoes, postedMessageIds, agent, emitted, asides,
                  written, settledOutput, cut, submitted, refusals>>
gateVars == <<session, opening, starting, starts, sdk, ending, lifecycle, state, of, targeted,
              since, epoch, pinned, allowAll, gateRelay, thread, going, registering, record, asked,
              cutCalls, unpinned, ends, closes, errors, registrations>>
interactionVars == <<raised, outcome, completing, slot, toExt, toMain, records, posting, replies,
                     flying, connected, leaving, undelivered, inApp, left, accepted, timeouts, lost,
                     offlines, resets>>

Init == /\ moving \in {"relay", "events", "operations", "dispatch", "gate",
                      "interactions"}
        /\ ipc!RelayInit
        /\ events!Init /\ (moving # "events" => kinds = <<>>)
        /\ operations!OperationsInit /\ (moving # "operations" => agentSession = "none")
        /\ dispatch!Init
        /\ gate!Init /\ (moving # "gate" => allowAll = FALSE)
        /\ interactions!TIInit
Rest(a, b, c, d, e) == UNCHANGED a /\ UNCHANGED b /\ UNCHANGED c /\ UNCHANGED d /\ UNCHANGED e
Next ==
    /\ UNCHANGED moving
    /\ \/ /\ moving = "relay" /\ ipc!RelayNext
          /\ Rest(eventVars, operationVars, dispatchVars, gateVars, interactionVars)
       \/ /\ moving = "events" /\ events!Next
          /\ failures' + rotations' = 0 \/ Len(kinds) <= 1
          /\ Rest(relayVars, operationVars, dispatchVars, gateVars, interactionVars)
       \/ /\ moving = "operations" /\ operations!OperationsNext
          /\ Rest(relayVars, eventVars, dispatchVars, gateVars, interactionVars)
       \/ /\ moving = "dispatch" /\ dispatch!Next /\ echoes \subseteq echoes'
          /\ emitted' = 0 \/ 2 \notin seen'
          /\ Rest(relayVars, eventVars, operationVars, gateVars, interactionVars)
       \/ /\ moving = "gate" /\ gate!Next
          /\ state'[c1] = "none" => state'[c2] = "none"    \* the calls are interchangeable
          /\ ends' + closes' + registrations' <= 1
          /\ Rest(relayVars, eventVars, operationVars, dispatchVars, interactionVars)
       \/ /\ moving = "interactions" /\ interactions!TINext
          /\ lost' + offlines' + timeouts' <= 1
          /\ Rest(relayVars, eventVars, operationVars, dispatchVars, gateVars)

Fairness ==
    /\ WF_relayVars(moving = "relay" /\ ipc!RequestExpires(r1))
    /\ \A s \in 1..ipc!MaxServers : WF_relayVars(moving = "relay" /\ ipc!Delivers(s))
    /\ WF_eventVars(moving = "events" /\ events!EventSteps)
    /\ WF_eventVars(moving = "events" /\ events!Trigger)
    /\ WF_operationVars(moving = "operations" /\ operations!OperationProgress)
    /\ WF_operationVars(moving = "operations" /\ operations!StopDone)
    /\ WF_dispatchVars(moving = "dispatch" /\ dispatch!ProcessDispatch)
    /\ WF_dispatchVars(moving = "dispatch" /\ dispatch!TurnProgress)
    /\ \A p \in 1..3 : WF_dispatchVars(moving = "dispatch" /\ dispatch!ItemProgress(p))
    /\ \A c \in {c1, c2} :
          /\ WF_gateVars(moving = "gate" /\ gate!Looks(c))
          /\ WF_gateVars(moving = "gate" /\ gate!Expire(c))
    /\ WF_gateVars(moving = "gate" /\ gate!ThreadTimeout)
    /\ WF_interactionVars(moving = "interactions" /\ interactions!ExtensionReceives)
    /\ WF_interactionVars(moving = "interactions" /\ interactions!MainReceives)
    /\ \A i \in 1..2 :
          /\ WF_interactionVars(/\ moving = "interactions" /\ i \in interactions!Raised
                                /\ interactions!Complete(i))
          /\ WF_interactionVars(/\ moving = "interactions" /\ i \in interactions!Raised
                                /\ interactions!PlanBodyPosted(i))
    /\ WF_interactionVars(/\ moving = "interactions"
                          /\ interactions!GoOfflineGoesOn \/ interactions!GoOfflineEnds)
Spec == /\ Init
        /\ [][Next]_<<moving, relayVars, eventVars, operationVars, dispatchVars, gateVars,
                   interactionVars>>
        /\ Fairness

-----------------------------------------------------------------------------
(* Whoever asked is answered: the renderer's requests whatever becomes of  *)
(* the server, the callers of an operation, the orchestrator's calls.      *)
EveryCallEnds == /\ ipc!CallersAreAnswered /\ operations!CallsEnd
                 /\ gate!CallsAreSettled

(* What was interrupted goes on: a crashed server is replaced, and the     *)
(* tail of events.jsonl catches up with the file.                          *)
ServiceResumes == ipc!CrashIsRepaired /\ events!TailCatchesUp

(* A thread serves whoever is next: its queue moves on, and a call decided *)
(* elsewhere lets go of it, and so does a submission that failed.          *)
ThreadsMoveOn == /\ dispatch!QueueNeverWedges /\ gate!ThreadIsReleased
                 /\ interactions!LatchIsReleased
=============================================================================
