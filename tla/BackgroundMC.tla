---------------------------- MODULE BackgroundMC ----------------------------
(* The server and its requests (ServerRelay), the operations on an agent   *)
(* (AgentOperations) and the turns of a thread (TeamsDispatch), whose names *)
(* this module takes over, and the other components of the main process    *)
(* and the terminal server that run beside the sessions, for TLC.  One     *)
(* component moves in each behaviour, and some in several scopes: a scope  *)
(* leaves out actions the others have.                                     *)
EXTENDS ServerRelay, AgentOperations, TeamsDispatch, TLC

CONSTANTS r1, r2, p1, a1, a2, none

VARIABLES moving
VARIABLES file, kinds, watch, fileOffset, lineBuffer, reader, target, isHistorical,
          initialReadComplete, readRequested, hasSignalledReady, delivered, sent, stale,
          failures, rotations
VARIABLES hosts, offices, starts, ptyProcesses, officeForegroundCk, yoloEnabled, toggled, viewing,
          refresh, spent
VARIABLES sdkHosts, sdkOffices, sdkStarts, sdkProcesses, sdkRefresh, sdkFailures
VARIABLES started, running, ws, health, surl, heartbeat, reconnectTimer, connects, registering,
          sockets, leases, az, cached, expired, bound, authBroken, told, failed, mishaps,
          transportSpent

events == INSTANCE AgentEvents WITH
    EventKinds <- {"user", "tool", "form"}, MaxLines <- 2, MaxChunk <- 2, MaxFailures <- 1,
    MaxRotations <- 1, LockedAtFirst <- FALSE
shared == INSTANCE UiServerHost WITH
    Agent <- {a1, a2}, NoAgent <- none, MaxStarts <- 3, MaxHosts <- 2, MaxFailures <- 1,
    MaxViews <- 1, MaxToggles <- 2, MaxRefreshes <- 1, budget <- spent
sdk == INSTANCE SdkHosts WITH
    Agent <- {a1, a2}, NoAgent <- none, MaxStarts <- 3, MaxHosts <- 2, MaxFailures <- 1,
    MaxRefreshes <- 1, hosts <- sdkHosts, offices <- sdkOffices, starts <- sdkStarts,
    ptyProcesses <- sdkProcesses, refresh <- sdkRefresh, failures <- sdkFailures
transport == INSTANCE TeamsTransport WITH
    MaxSockets <- 2, MaxStarts <- 2, MaxTokens <- 2, MaxBreaks <- 2,
    calls <- connects, spent <- transportSpent

eventVars == <<file, kinds, watch, fileOffset, lineBuffer, reader, target, isHistorical,
               initialReadComplete, readRequested, hasSignalledReady, delivered, sent, stale,
               failures, rotations>>
hostVars == <<hosts, offices, starts, ptyProcesses, officeForegroundCk, yoloEnabled, toggled,
              viewing, refresh, spent>>
sdkVars == <<sdkHosts, sdkOffices, sdkStarts, sdkProcesses, sdkRefresh, sdkFailures>>
transportVars == <<started, running, ws, health, surl, heartbeat, reconnectTimer, connects,
                   registering, sockets, leases, az, cached, expired, bound, authBroken, told,
                   failed, mishaps, transportSpent>>

(* Requests against crashes and reloads, and apart from them the pseudo-   *)
(* terminals that servers leave behind.                                    *)
Requests == RelayNext /\ UNCHANGED <<ptys, os>> /\ budget'.crashes <= 1
Orphans == RelayNext /\ UNCHANGED <<req, pendingHardReload>>
(* A thread's turns, without pauses, echoes and posts that are no output,  *)
(* of two prompts or two outputs, and apart from them its echoes and       *)
(* asides, without output.  The last refusal, which gives a post up,       *)
(* befalls a thread with one output.                                       *)
Turns == /\ Next /\ binding' # "paused" /\ echoes \subseteq echoes' /\ asides' = 0
         /\ emitted' + Cardinality(seen') <= 3 /\ (emitted' = 2 => refusals' <= 1)
Echoes == Next /\ emitted' = 0 /\ refusals' + asides' <= 2
(* The shared host with the user turning to its agents, with changes of    *)
(* the permission setting, and with a refresh.                             *)
Views == shared!Next /\ toggled'.number = 0 /\ refresh'.number = 0
Settings == shared!Next /\ Len(starts') <= 2 /\ spent'.failures + toggled'.number <= 2 /\ spent'.views = 0 /\ refresh'.number = 0
Refreshes == shared!Next /\ Len(starts') <= 2 /\ spent' = spent /\ toggled'.number = 0
(* Three calls and an act of the user, or two and two.                     *)
Operations == OperationsNext /\ (userActs' <= 1 \/ calls'[3].intent = "none")
(* The connection to Teams that closes, stops and starts while its tokens  *)
(* last, and one that is started once while they come and go.              *)
Sockets == transport!Next /\ expired' = {} /\ transportSpent'.breaks = 0
Credentials == transport!Next /\ transportSpent'.starts <= 1

BackgroundInit ==
        /\ moving \in {"requests", "orphans", "events", "operations", "turns", "echoes", "views",
                      "settings", "refresh", "sdk", "sockets", "credentials"}
        /\ RelayInit
        /\ events!Init /\ (moving # "events" => kinds = <<>>)
        /\ OperationsInit /\ (moving # "operations" => agentSession = "none")
        /\ Init
        /\ shared!Init /\ (moving # "settings" => ~yoloEnabled)
        /\ sdk!Init
        /\ transport!Init /\ (moving \notin {"sockets", "credentials"} => az /\ ~bound)
BackgroundNext ==
    /\ UNCHANGED moving
    /\ \/ moving = "requests" /\ Requests
       \/ moving = "orphans" /\ Orphans
       \/ moving = "events" /\ events!Next
       \/ moving = "operations" /\ Operations
       \/ moving = "turns" /\ Turns
       \/ moving = "echoes" /\ Echoes
       \/ moving = "views" /\ Views
       \/ moving = "settings" /\ Settings
       \/ moving = "refresh" /\ Refreshes
       \/ moving = "sdk" /\ sdk!Next
       \/ moving = "sockets" /\ Sockets
       \/ moving = "credentials" /\ Credentials
    /\ IF moving \in {"requests", "orphans"} THEN TRUE ELSE UNCHANGED relayVars
    /\ IF moving = "events" THEN TRUE ELSE UNCHANGED eventVars
    /\ IF moving = "operations" THEN TRUE ELSE UNCHANGED operationVars
    /\ IF moving \in {"turns", "echoes"} THEN TRUE ELSE UNCHANGED dispatchVars
    /\ IF moving \in {"views", "settings", "refresh"} THEN TRUE ELSE UNCHANGED hostVars
    /\ IF moving = "sdk" THEN TRUE ELSE UNCHANGED sdkVars
    /\ IF moving \in {"sockets", "credentials"} THEN TRUE ELSE UNCHANGED transportVars
BackgroundSpec ==
    /\ BackgroundInit
    /\ [][BackgroundNext]_<<moving, relayVars, eventVars, operationVars, dispatchVars, hostVars,
                            sdkVars, transportVars>>

-----------------------------------------------------------------------------
(* What is not moving is in an initial state, and is looked at when it      *)
(* moves.  The variables of the components have their types.               *)
TypesOK ==
    CASE moving \in {"requests", "orphans"} -> RelayTypeOK /\ ForksAreCounted
      [] moving = "events" -> events!TypeOK
      [] moving = "operations" -> OperationsTypeOK
      [] moving \in {"turns", "echoes"} -> TypeOK
      [] moving \in {"views", "settings", "refresh"} -> shared!TypeOK
      [] moving = "sdk" -> sdk!TypeOK
      [] moving \in {"sockets", "credentials"} -> transport!TypeOK

(* A Copilot host that runs is one that starts use, or that is about to be *)
(* stopped.  The exit of a process is heard once, a host that others use   *)
(* is not stopped for one agent, its sessions are under the permission     *)
(* setting that was answered, and it shows the agent the user turned to.   *)
HostsServeTheirTerminals ==
    /\ [][/\ shared!HostsAreOwned' /\ shared!ExitsAreHeard' /\ shared!PermissionsInStep'
          /\ shared!ViewedHasTheForeground']_hostVars
    /\ [][sdk!HostsAreOwned' /\ sdk!ExitsAreHeard']_sdkVars
    /\ shared!SiblingsKeepTheirHost /\ sdk!SiblingsKeepTheirHost

(* The lines of events.jsonl arrive once and in order, those that were     *)
(* there first show as no news, and a tool shown is a tool the agent runs. *)
(* The connection to Teams is kept or sought again as long as it is wanted *)
(* and no longer, on one socket, which Teams knows of; and the user is     *)
(* told when the credential for it failed.                                 *)
HeardOnceAsNews ==
    /\ TypesOK
    /\ moving = "events" => /\ events!LinesArriveOnceInOrder /\ events!HistoryStaysSilent
                            /\ events!AnnouncedToolsAreCalls
    /\ moving \in {"sockets", "credentials"} =>
          /\ transport!ReceivesOrRetries /\ transport!HearsOnOne
          /\ transport!ConnectedHears /\ transport!CredentialIsTold
=============================================================================
