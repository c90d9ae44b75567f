--------------------------- MODULE BackendLaunch ---------------------------
(* How the terminal server brings its back end up and takes it down again: *)
(* the choice and its fallbacks, the installation of the bridge extension, *)
(* the broker, the native TUIs launched with credentials of their own, the *)
(* consent prompt of the extension, which the server answers for the user, *)
(* and every way in which a launch ends.  The CLI's screen, its prompts    *)
(* and the user who answers them are external.                             *)
EXTENDS Naturals, FiniteSets, Sequences

CONSTANTS
    Preferred,      \* the back ends that may be asked for
    Launch,         \* TUIs that are launched
    MaxCrashes, MaxPrompts, MaxRedraws, MaxConnections, MaxKillFailures   \* bounds

VARIABLES
    preferred,      \* the back end asked for
    stage,          \* how far the start-up has come
    loaded,         \* terminalBackend?.name
    reasons,        \* backendFallbackReason, as the stages it names
    extension,      \* extension.mjs, as the CLI finds it
    temporary,      \* the file it is written to first
    endpoint,       \* the broker's socket is there
    broker          \* "none", "open" or "closed"

VARIABLES
    credentials,    \* launches whose token the broker accepts
    processes,      \* NativeBridgeBackend.processes
    pty,            \* the process of each launch
    wrapper,        \* its NativeBridgeProcess
    killSucceeded,  \* of each wrapper
    told,           \* what the last kill() of it returned
    failed          \* processes that a kill failed to end

VARIABLES
    screen,         \* the prompt each TUI shows, and how much of it has been drawn
    buffer, armed,  \* NativeBridgeConsentResponder
    confirming,     \* consentConfirmTimer runs
    rearming,       \* consentRearmTimer runs
    approved,       \* prompts the responder has confirmed, and with which option
    crashes, prompts, redraws, connections

startVars == <<preferred, stage, loaded, reasons, extension, temporary, endpoint, broker>>
launchVars == <<credentials, processes, pty, wrapper, killSucceeded, told, failed>>
consentVars == <<screen, buffer, armed, confirming, rearming, approved, prompts, redraws, connections>>
vars == <<startVars, launchVars, consentVars, crashes>>

NoPrompt == [what |-> "none", drawn |-> 0, option |-> 1, early |-> FALSE]

Init ==
    /\ preferred \in Preferred /\ stage = "choosing" /\ loaded = "none" /\ reasons = {}
    /\ extension \in {"absent", "old", "current"} /\ temporary = "none"
    /\ endpoint = FALSE /\ broker = "none"
    /\ credentials = {} /\ processes = {} /\ failed = {}
    /\ pty = [l \in Launch |-> "none"] /\ wrapper = [l \in Launch |-> "none"]
    /\ killSucceeded = [l \in Launch |-> FALSE] /\ told = [l \in Launch |-> "nothing"]
    /\ screen = [l \in Launch |-> NoPrompt] /\ buffer = [l \in Launch |-> {}]
    /\ armed = [l \in Launch |-> TRUE]
    /\ confirming = {} /\ rearming = {} /\ approved = {}
    /\ crashes = 0 /\ prompts = 0 /\ redraws = 0 /\ connections = 0

-----------------------------------------------------------------------------
(* The start-up: server.ts main, selectNativeBridgeBackend and             *)
(* initializeNativeBridge.                                                 *)
Reaches(next) == stage' = next
Loads(backend) == loaded' = backend /\ stage' = "up"
KeepsFiles == UNCHANGED <<extension, temporary, endpoint, broker>>

Choose ==
    /\ stage = "choosing"
    /\ \/ preferred = "ui-server" /\ Loads("ui-server") /\ UNCHANGED reasons
       \/ /\ preferred = "ui-server"
          /\ Reaches("capability") /\ reasons' = {"ui-server"} /\ UNCHANGED loaded
       \/ preferred = "native-bridge" /\ Reaches("capability") /\ UNCHANGED <<loaded, reasons>>
       \/ preferred = "sdk" /\ Reaches("sdk") /\ UNCHANGED <<loaded, reasons>>
       \/ /\ preferred = "node-pty"
          /\ \E backend \in {"node-pty", "none"} : Loads(backend)
          /\ UNCHANGED reasons
    /\ KeepsFiles /\ UNCHANGED preferred

(* A stage that fails names itself in the reason, and the SDK is next. *)
FallsBack == stage' = "sdk" /\ reasons' = reasons \cup {stage}

(* The capability of the pinned CLI, then node-pty. *)
Verify ==
    /\ stage \in {"capability", "node-pty"}
    /\ \/ FallsBack
       \/ Reaches(IF stage = "capability" THEN "node-pty" ELSE "extension") /\ UNCHANGED reasons
    /\ KeepsFiles /\ UNCHANGED <<preferred, loaded>>

(* The extension is read; if it is not this version's, a temporary file is *)
(* written, renamed over it, and removed whatever happened.                *)
Renamed == [extension |-> "current", temporary |-> "none"]

(* (A bug: the extension is written in place.) *)
WrittenInPlace(file) == [extension |-> file, temporary |-> "none"]
Written(file) == [extension |-> extension, temporary |-> file]

Holds(files) == extension' = files.extension /\ temporary' = files.temporary

ReadExtension ==
    /\ stage = "extension"
    /\ \/ FallsBack
       \/ extension = "current" /\ Reaches("broker") /\ UNCHANGED reasons
       \/ extension # "current" /\ Reaches("writing") /\ UNCHANGED reasons
    /\ UNCHANGED <<preferred, loaded, extension, temporary, endpoint, broker>>

WriteExtension ==
    /\ stage = "writing"
    /\ \/ Holds(Written("partial")) /\ Reaches("written") /\ UNCHANGED reasons
       \/ FallsBack /\ UNCHANGED <<extension, temporary>>
    /\ UNCHANGED <<preferred, loaded, endpoint, broker>>

RenameExtension ==
    /\ stage = "written"
    /\ \/ Holds(Renamed) /\ Reaches("broker") /\ UNCHANGED reasons
       \/ FallsBack /\ temporary' = "none" /\ UNCHANGED extension
    /\ UNCHANGED <<preferred, loaded, endpoint, broker>>

(* NativeBridgeBroker.create: a broker that listens and then cannot be     *)
(* completed is closed, and its socket removed.                            *)
Listen ==
    /\ stage = "broker"
    /\ \/ Reaches("listening") /\ endpoint' = TRUE /\ UNCHANGED reasons
       \/ FallsBack /\ UNCHANGED endpoint
    /\ UNCHANGED <<preferred, loaded, extension, temporary, broker>>

(* (A bug: what failed after listening is left as it is.) *)
LeftListening == [endpoint |-> endpoint, broker |-> "none"]
Abandoned == [endpoint |-> FALSE, broker |-> "none"]

Listening ==
    /\ stage = "listening"
    /\ \/ Loads("native-bridge") /\ broker' = "open" /\ UNCHANGED <<reasons, endpoint>>
       \/ /\ FallsBack /\ UNCHANGED loaded
          /\ endpoint' = Abandoned.endpoint /\ broker' = Abandoned.broker
    /\ UNCHANGED <<preferred, extension, temporary>>

(* (A bug: the last resort is the bare pseudo-terminal.) *)
FallbackToPty == "node-pty"
Fallback == "sdk"

TrySdk ==
    /\ stage = "sdk"
    /\ \/ Loads(Fallback) /\ UNCHANGED reasons
       \/ Loads("none") /\ reasons' = reasons \cup {"sdk"}
    /\ KeepsFiles /\ UNCHANGED preferred

(* The server dies while it starts up, and the next one, whose broker and  *)
(* temporary file have names of their own, takes its place.                *)
Crash ==
    /\ stage \notin {"up", "closing", "exited"} /\ crashes < MaxCrashes
    /\ crashes' = crashes + 1
    /\ stage' = "choosing" /\ loaded' = "none" /\ reasons' = {}
    /\ temporary' = "none" /\ endpoint' = FALSE /\ broker' = "none"
    /\ UNCHANGED <<preferred, extension, launchVars, consentVars>>

StartsUp ==
    /\ \/ Choose \/ Verify \/ ReadExtension \/ WriteExtension \/ RenameExtension
       \/ Listen \/ Listening \/ TrySdk
    /\ UNCHANGED <<launchVars, consentVars, crashes>>

-----------------------------------------------------------------------------
(* The launches: NativeBridgeBackend.start runs from the credentials to    *)
(* the wrapper without an await.                                           *)
(* (A bug: launches go on while the broker closes.) *)
UsableAnyway == broker # "none"
Usable == broker = "open"

(* (A bug: a launch that fails keeps its credentials.) *)
KeepsToken(tokens, l) == tokens
Unregistered(tokens, l) == tokens \ {l}

(* An attempt to end a process, which may fail; ending one that is gone    *)
(* may be reported either way.                                             *)
KillFails(l) ==
    \/ pty[l] = "dead"
    \/ pty[l] = "running" /\ Cardinality(failed \ {l}) < MaxKillFailures

StartLaunch(l) ==
    /\ loaded = "native-bridge" /\ stage \in {"up", "closing"}
    /\ pty[l] = "none" /\ wrapper[l] = "none"
    /\ \/ /\ Usable
          /\ pty' = [pty EXCEPT ![l] = "running"] /\ wrapper' = [wrapper EXCEPT ![l] = "open"]
          /\ credentials' = credentials \cup {l} /\ processes' = processes \cup {l}
          /\ UNCHANGED failed
       \/ (* the CLI cannot be spawned, or the broker is closed *)
          /\ wrapper' = [wrapper EXCEPT ![l] = "refused"]
          /\ credentials' = IF Usable THEN Unregistered(credentials \cup {l}, l) ELSE credentials
          /\ UNCHANGED <<pty, processes, failed>>
       \/ (* it was, but the broker refuses its pid *)
          /\ Usable
          /\ wrapper' = [wrapper EXCEPT ![l] = "refused"]
          /\ credentials' = Unregistered(credentials \cup {l}, l)
          /\ \/ pty' = [pty EXCEPT ![l] = "dead"] /\ UNCHANGED failed
             \/ /\ Cardinality(failed) < MaxKillFailures
                /\ pty' = [pty EXCEPT ![l] = "running"] /\ failed' = failed \cup {l}
          /\ UNCHANGED processes
    /\ UNCHANGED <<startVars, crashes, killSucceeded, told, consentVars>>

(* release: the credentials, the timers and the subscriptions go. *)
(* (A bug: the keys that were to follow are still pressed.) *)
StillPressing(ls) == [confirming |-> confirming, rearming |-> rearming \ ls]
Quiet(ls) == [confirming |-> confirming \ ls, rearming |-> rearming \ ls]

Releases(ls) ==
    /\ wrapper' = [l \in Launch |-> IF l \in ls THEN "closed" ELSE wrapper[l]]
    /\ credentials' = credentials \ ls
    /\ confirming' = Quiet(ls).confirming /\ rearming' = Quiet(ls).rearming

KillsOf(ls, fails) ==
    /\ pty' = [l \in Launch |-> IF l \in ls \ fails THEN "dead" ELSE pty[l]]
    /\ failed' = failed \cup {l \in fails : pty[l] = "running"}
    /\ killSucceeded' = [l \in Launch |-> IF l \in ls THEN l \notin fails ELSE killSucceeded[l]]
    /\ Releases(ls)

Reported(success) == IF success THEN "killed" ELSE "failed"

(* (A bug: what is closed counts as killed.) *)
AgainKilled(l) == Reported(TRUE)
Again(l) == Reported(killSucceeded[l])

(* kill(): on request of the user, of a restart or of a repair. *)
Kill(l) ==
    /\ \/ /\ wrapper[l] = "open"
          /\ \E fails \in {{}, {l}} :
                /\ fails = {} \/ KillFails(l)
                /\ KillsOf({l}, fails) /\ told' = [told EXCEPT ![l] = Reported(fails = {})]
       \/ /\ wrapper[l] = "closed"
          /\ told' = [told EXCEPT ![l] = Again(l)]
          /\ UNCHANGED <<credentials, pty, wrapper, killSucceeded, failed, confirming, rearming>>
    /\ UNCHANGED <<startVars, processes, crashes, screen, buffer, armed, approved,
                   prompts, redraws, connections>>

Dies(l) ==
    /\ pty[l] = "running" /\ wrapper[l] # "refused"
    /\ pty' = [pty EXCEPT ![l] = "dead"]
    /\ UNCHANGED <<startVars, credentials, processes, wrapper, killSucceeded, told, failed,
                   consentVars, crashes>>

(* The exit is heard: by the wrapper, and by the back end. *)
ExitHeard(l) ==
    /\ pty[l] = "dead" /\ l \in processes
    /\ processes' = processes \ {l}
    /\ IF wrapper[l] = "open" THEN Releases({l})
       ELSE UNCHANGED <<wrapper, credentials, confirming, rearming>>
    /\ UNCHANGED <<startVars, pty, killSucceeded, told, failed, crashes, screen, buffer, armed,
                   approved, prompts, redraws, connections>>

-----------------------------------------------------------------------------
(* The shutdown: the terminals are killed, the back end stops what it has, *)
(* and the broker closes: all before anything else is handled.  The socket *)
(* is closed meanwhile, and the server exits.                              *)
ToStop == {l \in processes : wrapper[l] = "open"}

Stop ==
    /\ stage = "up" /\ stage' = "closing"
    /\ broker' = IF broker = "open" THEN "closed" ELSE broker
    /\ \E fails \in SUBSET {l \in ToStop : KillFails(l)} :
          /\ Cardinality(failed \cup {l \in fails : pty[l] = "running"}) <= MaxKillFailures
          /\ KillsOf(ToStop, fails)
    /\ processes' = {}
    /\ UNCHANGED <<preferred, loaded, reasons, extension, temporary, endpoint, told, crashes,
                   screen, buffer, armed, approved, prompts, redraws, connections>>

Exit ==
    /\ stage = "closing" /\ stage' = "exited" /\ endpoint' = FALSE
    /\ UNCHANGED <<preferred, loaded, reasons, extension, temporary, broker, launchVars,
                   consentVars, crashes>>

-----------------------------------------------------------------------------
(* The consent prompt of the bundled extension names it, the variables it  *)
(* wants to read and two options; other extensions ask in the same way,    *)
(* the folder is trusted in another.                                       *)
Lines == [ours |-> <<"ours", "names", "options">>, other |-> <<"other", "values", "options">>,
          folder |-> <<"folder">>]
Header == {"ours", "other"}

Running(l) == pty[l] = "running" /\ wrapper[l] # "none"

(* The TUI asks (external). *)
AsksTheUser(l, what) ==
    /\ Running(l) /\ screen[l] = NoPrompt /\ prompts < MaxPrompts
    /\ prompts' = prompts + 1
    /\ screen' = [screen EXCEPT ![l].what = what]
    /\ UNCHANGED <<startVars, launchVars, crashes, buffer, armed, confirming, rearming, approved,
                   redraws, connections>>

(* What the buffer keeps: from the latest header on. *)
(* (A bug: the parts of two prompts may add up to one.) *)
KeptAll(l, line) == buffer[l] \cup {line}
(* (A bug: what is kept begins after the header.) *)
KeptAfter(l, line) == IF line \in Header THEN {} ELSE buffer[l] \cup {line}
Kept(l, line) == IF line \in Header THEN {line} ELSE buffer[l] \cup {line}

Recognized(lines) == {"ours", "names", "options"} \subseteq lines

(* (A bug: the responder stays armed.) *)
StaysArmed(l) == TRUE
Disarmed(l) == FALSE

(* A line of the prompt is drawn, and read.  The prompt recognized, and    *)
(* the process open: the second option is selected at once.                *)
Draws(l) ==
    /\ Running(l) /\ screen[l] # NoPrompt
    /\ screen[l].drawn < Len(Lines[screen[l].what])
    /\ LET line == Lines[screen[l].what][screen[l].drawn + 1]
           fires == armed[l] /\ Recognized(Kept(l, line))
           presses == fires /\ wrapper[l] = "open"
       IN /\ armed' = [armed EXCEPT ![l] = IF fires THEN Disarmed(l) ELSE @]
          /\ buffer' = [buffer EXCEPT ![l] = IF ~armed[l] THEN @ ELSE IF fires THEN {} ELSE Kept(l, line)]
          /\ confirming' = IF presses THEN confirming \cup {l} ELSE confirming
          /\ screen' = [screen EXCEPT ![l].drawn = @ + 1, ![l].option = IF presses THEN @ + 1 ELSE @]
    /\ UNCHANGED <<startVars, launchVars, crashes, rearming, approved, prompts, redraws, connections>>

(* The user resizes the terminal: the prompt is drawn again. *)
Redraws(l) ==
    /\ Running(l) /\ screen[l].drawn > 0 /\ l \notin confirming /\ redraws < MaxRedraws
    /\ redraws' = redraws + 1
    /\ screen' = [screen EXCEPT ![l].drawn = 0, ![l].early = FALSE]
    /\ UNCHANGED <<startVars, launchVars, crashes, buffer, armed, confirming, rearming, approved,
                   prompts, connections>>

(* The user answers a prompt, drawn or not.  Neither this nor a resize is  *)
(* taken to happen in the fifty milliseconds between the responder's keys. *)
UserAnswers(l) ==
    /\ Running(l) /\ wrapper[l] = "open" /\ screen[l] # NoPrompt /\ l \notin confirming
    /\ screen' = [screen EXCEPT ![l] = NoPrompt]
    /\ UNCHANGED <<startVars, launchVars, crashes, buffer, armed, confirming, rearming, approved,
                   prompts, redraws, connections>>

(* consentConfirmTimer: Enter, which the TUI takes if it is still there. *)
Confirms(l) ==
    /\ l \in confirming
    /\ confirming' = confirming \ {l}
    /\ approved' = approved \cup {[what |-> screen[l].what, option |-> screen[l].option,
                                   open |-> wrapper[l] = "open"]}
    /\ screen' = [screen EXCEPT ![l] = NoPrompt]
    /\ UNCHANGED <<startVars, launchVars, crashes, buffer, armed, rearming, prompts, redraws, connections>>

(* observeConnection of a newer registration starts the timer anew; the    *)
(* extension connects once it may read its variables.                      *)
Connects(l) ==
    /\ Running(l) /\ l \in credentials /\ wrapper[l] = "open"
    /\ connections < MaxConnections
    /\ connections' = connections + 1 /\ rearming' = rearming \cup {l}
    /\ UNCHANGED <<startVars, launchVars, crashes, screen, buffer, armed, confirming, approved,
                   prompts, redraws>>

(* arm(): what a prompt has drawn so far is forgotten. *)
Rearms(l) ==
    /\ l \in rearming
    /\ rearming' = rearming \ {l}
    /\ armed' = [armed EXCEPT ![l] = TRUE] /\ buffer' = [buffer EXCEPT ![l] = {}]
    /\ screen' = [screen EXCEPT ![l].early = screen[l].drawn > 0]
    /\ UNCHANGED <<startVars, launchVars, crashes, confirming, approved, prompts, redraws, connections>>

-----------------------------------------------------------------------------
Next ==
    \/ StartsUp \/ Crash \/ Stop \/ Exit
    \/ \E l \in Launch :
          \/ StartLaunch(l) \/ Kill(l) \/ Dies(l) \/ ExitHeard(l)
          \/ \E what \in DOMAIN Lines : AsksTheUser(l, what)
          \/ Draws(l) \/ Redraws(l) \/ UserAnswers(l) \/ Confirms(l) \/ Connects(l) \/ Rearms(l)

Spec == Init /\ [][Next]_vars

-----------------------------------------------------------------------------
TypeOK ==
    /\ preferred \in Preferred
    /\ loaded \in {"none", "ui-server", "native-bridge", "sdk", "node-pty"}
    /\ extension \in {"absent", "old", "current", "partial"} /\ temporary \in {"none", "partial"}
    /\ endpoint \in BOOLEAN /\ broker \in {"none", "open", "closed"}
    /\ credentials \subseteq Launch /\ processes \subseteq Launch /\ failed \subseteq Launch
    /\ pty \in [Launch -> {"none", "running", "dead"}]
    /\ wrapper \in [Launch -> {"none", "open", "closed", "refused"}]
    /\ told \in [Launch -> {"nothing", "killed", "failed"}]
    /\ confirming \subseteq Launch /\ rearming \subseteq Launch

(* "never to an unauthenticated raw-PTY programmatic path" (server.ts,     *)
(* main): the bare pseudo-terminal is loaded only when it was asked for;   *)
(* the native bridge has its broker and this version's extension, which no *)
(* CLI ever finds half written, and whoever is given another back end than *)
(* the one wanted is told why.                                             *)
BackEndIsAsTold ==
    /\ extension # "partial"
    /\ stage = "up" =>
        /\ loaded = "node-pty" => preferred = "node-pty"
        /\ loaded = "native-bridge" <=> broker # "none"
        /\ loaded = "native-bridge" => extension = "current"
        /\ (preferred \in {"ui-server", "native-bridge"} /\ loaded # preferred) => reasons # {}

(* Nothing outlives what it belongs to: credentials their TUI's wrapper, a *)
(* socket its broker, a temporary file the start-up, a TUI the back end    *)
(* (or an attempt to end it has failed); and every TUI with a wrapper is   *)
(* one that stop() reaches.                                                *)
NothingIsLeft ==
    /\ \A l \in credentials : wrapper[l] = "open"
    /\ \A l \in Launch : wrapper[l] = "open" => l \in processes
    /\ \A l \in Launch : (wrapper[l] = "refused" \/ stage \in {"closing", "exited"}) /\ pty[l] = "running"
                            => l \in failed
    /\ endpoint => stage = "listening" \/ broker # "none"
    /\ stage = "exited" => ~endpoint
    /\ temporary # "none" => stage = "written"

(* A TUI of which it was reported that it was killed is gone.              *)
KillsAreTold == \A l \in Launch : told[l] = "killed" => pty[l] = "dead"

(* "Folder trust and every other consent surface remain user-controlled"   *)
(* (native-bridge-backend.ts, NativeBridgeConsentResponder): the responder *)
(* approves the prompt of the bundled extension and no other, with the     *)
(* option that lasts, in TUIs that are open, and it sees every prompt that *)
(* is drawn whole while it is armed.                                       *)
ConsentIsOurs ==
    /\ \A a \in approved : a = [what |-> "ours", option |-> 2, open |-> TRUE]
    /\ \A l \in Launch : screen[l].what = "ours" /\ screen[l].drawn = 3 /\ armed[l] => screen[l].early
=============================================================================
