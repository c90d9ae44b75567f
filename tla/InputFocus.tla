----------------------------- MODULE InputFocus -----------------------------
(* Who gets the keys: the game's canvas, the terminal, or a modal over      *)
(* both.  InputManager switches between them; the overlay of the terminal,  *)
(* the modals of the window, push-to-talk, the layout and the mode of the   *)
(* app all ask it to, in whatever order they open and close.  Dragging the  *)
(* camera is left out, a press on the canvas is a click.                    *)
EXTENDS Naturals, FiniteSets

CONSTANTS
    MaxShows,       \* bound: conversations that open at a time
    MaxRequests     \* bound: openings of the Teams settings that await them

ASSUME FocusAssumption == MaxShows \in Nat /\ MaxRequests \in Nat

VARIABLES
    manager,        \* InputManager and the listeners it drives
    player,         \* playerInScene, the tween of the entrance, what lets the player walk
    overlay,        \* TerminalOverlay: isVisible, and the shows under way
    game,           \* a mini game is shown
    modals,         \* what is on the screen over the panels
    requests,       \* TeamsSettingsOverlay.open calls that await the settings
    staleEscape,    \* a settings panel was closed and its Escape handler was not
    voiceOwnsInput,
    layout,         \* portrait: of the window; locked: the scene's isPortraitDashboardMode
    appMode,
    crossed         \* history: "modals" if two have met, "voice" if the game began since it did

focusVars == <<manager, player, overlay, game, modals, requests, staleEscape, voiceOwnsInput,
               layout, appMode, crossed>>
scene == <<game, overlay>>
window == <<requests, staleEscape, voiceOwnsInput, layout, appMode>>

Nothing == "nothing"
Owner == {"overlay", "voice"}
(* Over the whole window, "abandoned" is a Teams overlay nobody refers to;  *)
(* and the two that leave the panels in reach.                              *)
Scrim == {"settings", "dialog", "teams", "abandoned"}
Floating == {"popover", "sprites"}
ClosedByEscape == {"settings", "teams"} \cup Floating

-----------------------------------------------------------------------------
(* InputManager.                                                            *)

Created == [focus |-> "none", suspended |-> Nothing, owners |-> {}, keyboard |-> TRUE,
            shortcuts |-> FALSE, f10 |-> FALSE]
Destroyed == [Created EXCEPT !.keyboard = FALSE]

(* What is restored once the modals are gone is what was chosen meanwhile.  *)
(* A bug: it is what was there when they opened.                            *)
AsBefore(m, focus) == m.suspended
Saved(m, focus) == IF m.owners = {} THEN m.suspended ELSE focus

(* A bug: it takes the keys from a modal.                                   *)
SwitchAnyway(m) == [m EXCEPT !.focus = "game", !.shortcuts = FALSE, !.keyboard = TRUE,
                             !.suspended = Saved(m, "game")]
SwitchToGame(m) == [m EXCEPT !.focus = "game", !.shortcuts = FALSE,
                             !.keyboard = IF m.owners = {} THEN TRUE ELSE @,
                             !.suspended = Saved(m, "game")]
SwitchToTerminal(m) == [m EXCEPT !.focus = "terminal", !.shortcuts = TRUE, !.keyboard = FALSE,
                                 !.suspended = Saved(m, "terminal")]
SwitchToNone(m) == [m EXCEPT !.focus = "none", !.shortcuts = FALSE, !.keyboard = FALSE,
                             !.suspended = Saved(m, "none")]

SuspendGameInput(m, owner) ==
    [m EXCEPT !.suspended = IF @ = Nothing THEN m.focus ELSE @,
              !.owners = @ \cup {owner}, !.keyboard = FALSE]
(* A bug: whoever closes first restores.                                    *)
ResumeAtOnce(m, owner) ==
    [m EXCEPT !.owners = {}, !.suspended = Nothing,
              !.keyboard = @ \/ m.suspended \in {"game", "none"}]
ResumeGameInput(m, owner) ==
    IF m.owners \ {owner} # {} THEN [m EXCEPT !.owners = @ \ {owner}]
    ELSE [m EXCEPT !.owners = {}, !.suspended = Nothing,
                   !.keyboard = @ \/ m.suspended \in {"game", "none"}]

-----------------------------------------------------------------------------
(* What the events of the bus do to the scene.                              *)

Walks(p) == [p EXCEPT !.movementEnabled = TRUE, !.walking = TRUE]
Stands(p) == [p EXCEPT !.movementEnabled = FALSE, !.walking = FALSE]
WalksIn(p) == IF p.inScene THEN Walks(p) ELSE p

BlurTerminal(m) == IF layout.portrait THEN SwitchToNone(m) ELSE SwitchToGame(m)

SettingsOpen(owner) ==
    IF appMode = "game"
    THEN manager' = SuspendGameInput(manager, owner) /\ player' = Stands(player)
    ELSE UNCHANGED <<manager, player>>

(* A bug: the player waits for a click.                                     *)
StaysPut(m, p) == p
Released(m, p) == IF m.owners = {} THEN WalksIn(p) ELSE p
SettingsClose(owner) ==
    IF appMode = "game"
    THEN manager' = ResumeGameInput(manager, owner) /\ player' = Released(manager', player)
    ELSE UNCHANGED <<manager, player>>

(* A modal that closes, and the click on the panel that goes with it.       *)
PanelClicked(m, p) ==
    IF layout.locked THEN manager' = SwitchToNone(m) /\ player' = p
    ELSE manager' = BlurTerminal(m) /\ player' = WalksIn(p)
SettingsCloseAndClick ==
    IF appMode = "game"
    THEN LET m == ResumeGameInput(manager, "overlay") IN PanelClicked(m, Released(m, player))
    ELSE UNCHANGED <<manager, player>>

HandleLayoutChange(portrait) ==
    IF portrait = layout.locked THEN UNCHANGED <<manager, player>>
    ELSE IF portrait THEN manager' = SwitchToNone(manager) /\ player' = Stands(player)
    ELSE IF ~overlay.visible /\ player.inScene
    THEN manager' = SwitchToGame(manager) /\ player' = Walks(player)
    ELSE UNCHANGED <<manager, player>>

-----------------------------------------------------------------------------
(* The scene.                                                               *)

NewPlayer == [inScene |-> FALSE, entering |-> FALSE, movementEnabled |-> TRUE, walking |-> TRUE]
NoOverlay == [visible |-> FALSE, showing |-> 0]

FocusInit ==
    /\ manager = SwitchToGame(Created) /\ player = NewPlayer /\ overlay = NoOverlay
    /\ game = FALSE /\ modals = {} /\ requests = 0 /\ staleEscape = FALSE
    /\ voiceOwnsInput = FALSE /\ appMode = "game" /\ crossed = {}
    /\ layout \in [portrait : BOOLEAN, locked : {FALSE}]

(* The keys of the game reach it.                                           *)
Keys == appMode = "game" /\ manager.keyboard
Updates == /\ Keys /\ ~layout.locked /\ ~game
           /\ player.inScene /\ player.movementEnabled

TriggerEntrance ==
    /\ Keys /\ ~player.inScene
    /\ player' = [player EXCEPT !.inScene = TRUE, !.entering = TRUE]
    /\ UNCHANGED <<manager, modals, crossed>> /\ UNCHANGED scene /\ UNCHANGED window

EntranceComplete ==
    /\ appMode = "game" /\ player.entering
    /\ player' = [Walks(player) EXCEPT !.entering = FALSE]
    /\ manager' = SwitchToGame(manager)
    /\ UNCHANGED <<modals, crossed>> /\ UNCHANGED scene /\ UNCHANGED window

TriggerExit ==
    /\ Updates /\ ~overlay.visible
    /\ player' = [player EXCEPT !.inScene = FALSE, !.walking = FALSE]
    /\ UNCHANGED <<manager, modals, crossed>> /\ UNCHANGED scene /\ UNCHANGED window

StartGame ==
    /\ Updates /\ ~overlay.visible
    /\ game' = TRUE /\ player' = [player EXCEPT !.walking = FALSE]
    /\ UNCHANGED <<manager, overlay, modals, crossed>> /\ UNCHANGED window

(* A bug: the player is left where the game stood.                          *)
Seated(p) == p
UpAgain(p) == [p EXCEPT !.walking = TRUE]
GameCloses ==
    /\ Keys /\ game
    /\ game' = FALSE /\ player' = UpAgain(player)
    /\ UNCHANGED <<manager, overlay, modals, crossed>> /\ UNCHANGED window

(* startConversation, openPlayerPcTerminal: the overlay is there once the   *)
(* server has answered.                                                     *)
StartConversation ==
    /\ overlay.showing < MaxShows
    /\ player' = [player EXCEPT !.movementEnabled = FALSE, !.walking = @ /\ ~player.inScene]
    /\ overlay' = [overlay EXCEPT !.showing = @ + 1]

Interact ==
    /\ Updates /\ StartConversation
    /\ UNCHANGED <<manager, game, modals, crossed>> /\ UNCHANGED window

(* A click on the canvas, of an agent or next to one.  The panel hears of   *)
(* the press first, and so does the sprite customizer.                      *)
CanvasInReach == appMode = "game" /\ ~layout.portrait /\ modals \cap Scrim = {}
Press ==
    /\ CanvasInReach
    /\ modals' = modals \ {"sprites"}
    /\ IF "sprites" \in modals THEN SettingsCloseAndClick ELSE PanelClicked(manager, player)
    /\ UNCHANGED crossed /\ UNCHANGED scene /\ UNCHANGED window
LetGo ==
    /\ CanvasInReach /\ "sprites" \notin modals
    /\ \/ StartConversation /\ UNCHANGED manager
       \/ /\ manager' = BlurTerminal(manager)
          /\ player' = WalksIn(player)
          /\ UNCHANGED overlay
    /\ UNCHANGED <<game, modals, crossed>> /\ UNCHANGED window

-----------------------------------------------------------------------------
(* The overlay of the terminal.                                             *)

Shown ==
    /\ appMode = "game" /\ overlay.showing > 0
    /\ overlay' = [visible |-> TRUE, showing |-> overlay.showing - 1]
    /\ manager' = SwitchToTerminal([manager EXCEPT !.f10 = TRUE])
    /\ UNCHANGED <<player, game, modals, crossed>> /\ UNCHANGED window

FocusTerminal ==
    /\ appMode = "game" /\ overlay.visible /\ modals \cap Scrim = {}
    /\ modals' = modals \ {"sprites"}
    /\ LET m == IF "sprites" \in modals THEN ResumeGameInput(manager, "overlay") ELSE manager IN
       /\ manager' = SwitchToTerminal(m)
       /\ player' = IF "sprites" \in modals THEN Released(m, player) ELSE player
    /\ UNCHANGED crossed /\ UNCHANGED scene /\ UNCHANGED window

(* By F10, which a modal does not stop, or the button.                      *)
Hide ==
    /\ appMode = "game" /\ manager.f10
    /\ overlay' = [overlay EXCEPT !.visible = FALSE]
    /\ manager' = BlurTerminal([manager EXCEPT !.f10 = FALSE])
    /\ player' = [player EXCEPT !.movementEnabled = TRUE, !.walking = @ \/ player.inScene]
    /\ UNCHANGED <<game, modals, crossed>> /\ UNCHANGED window

-----------------------------------------------------------------------------
(* The modals.                                                              *)

Unless(over, name) == IF over THEN crossed \ {name} ELSE crossed

(* From the bar, which the others must leave in reach.                      *)
Opens(k) ==
    /\ modals = {} /\ modals' = {k} /\ SettingsOpen("overlay")
    /\ UNCHANGED crossed /\ UNCHANGED scene /\ UNCHANGED window
OpenSettings == Opens("settings")
ShowSprites == Opens("sprites")
ShowNewOfficeDialog == Opens("dialog")
ShowOfficeSettingsPopover == Opens("popover")

Closes(k) ==
    /\ k \in modals /\ modals' = modals \ {k}
    /\ crossed' = Unless(modals' = {}, "modals")
    /\ UNCHANGED <<requests, voiceOwnsInput, layout, appMode>> /\ UNCHANGED scene
CloseSettings == Closes("settings") /\ staleEscape' = TRUE /\ SettingsClose("overlay")
HideSprites == Closes("sprites") /\ SettingsClose("overlay") /\ UNCHANGED staleEscape
CloseNewOfficeDialog == Closes("dialog") /\ SettingsClose("overlay") /\ UNCHANGED staleEscape
CloseOfficePopover == Closes("popover") /\ SettingsCloseAndClick /\ UNCHANGED staleEscape
CloseTeamsSettings == Closes("teams") /\ SettingsClose("overlay") /\ UNCHANGED staleEscape

(* Every handler hears of it, also that of a settings panel which is gone.  *)
PressEscape ==
    /\ staleEscape \/ modals \cap ClosedByEscape # {}
    /\ modals' = modals \ ClosedByEscape
    /\ staleEscape' = FALSE
    /\ IF "popover" \in modals THEN SettingsCloseAndClick ELSE SettingsClose("overlay")
    /\ crossed' = (crossed \ {"modals"}) \cup (IF modals' # {} THEN {"modals"} ELSE {})
    /\ UNCHANGED <<requests, voiceOwnsInput, layout, appMode>> /\ UNCHANGED scene

(* The reset button of the settings closes them and opens them again.       *)
ResetSettings ==
    /\ "settings" \in modals /\ staleEscape' = TRUE
    /\ IF appMode = "game"
       THEN /\ manager' = SuspendGameInput(ResumeGameInput(manager, "overlay"), "overlay")
            /\ player' = Stands(player)
       ELSE UNCHANGED <<manager, player>>
    /\ UNCHANGED <<modals, requests, voiceOwnsInput, layout, appMode, crossed>> /\ UNCHANGED scene

(* The Teams settings: from the settings, which close for them, or because  *)
(* an agent has no channel.                                                 *)
AskTeamsSettings ==
    /\ "teams" \notin modals /\ requests < MaxRequests /\ modals \subseteq {"settings"}
    /\ requests' = requests + 1 /\ modals' = {}
    /\ IF "settings" \in modals THEN SettingsClose("overlay") ELSE UNCHANGED <<manager, player>>
    /\ staleEscape' = (staleEscape \/ "settings" \in modals)
    /\ crossed' = crossed \ {"modals"}
    /\ UNCHANGED <<voiceOwnsInput, layout, appMode>> /\ UNCHANGED scene
TeamsSettingsOpen ==
    /\ requests > 0 /\ requests' = requests - 1
    /\ modals' = modals \cup {"teams"} \cup (IF "teams" \in modals THEN {"abandoned"} ELSE {})
    /\ SettingsOpen("overlay")
    /\ crossed' = crossed \cup (IF modals # {} THEN {"modals"} ELSE {})
    /\ UNCHANGED <<staleEscape, voiceOwnsInput, layout, appMode>> /\ UNCHANGED scene

(* Push-to-talk starts or ends to listen.                                   *)
VoiceChanges ==
    /\ voiceOwnsInput' = ~voiceOwnsInput
    /\ IF voiceOwnsInput' THEN SettingsOpen("voice") ELSE SettingsClose("voice")
    /\ crossed' = crossed \ {"voice"}
    /\ UNCHANGED <<modals, requests, staleEscape, layout, appMode>> /\ UNCHANGED scene

-----------------------------------------------------------------------------
(* The window.                                                              *)

ApplyResponsiveLayout ==
    /\ LET portrait == ~layout.portrait IN
       IF appMode = "game"
       THEN layout' = [portrait |-> portrait, locked |-> portrait] /\ HandleLayoutChange(portrait)
       ELSE layout' = [layout EXCEPT !.portrait = portrait] /\ UNCHANGED <<manager, player>>
    /\ UNCHANGED <<modals, requests, staleEscape, voiceOwnsInput, appMode, crossed>> /\ UNCHANGED scene

(* The game is destroyed in serious mode, and a new one does not know of    *)
(* push-to-talk, nor of the layout: it is told before its scene listens.    *)
(* Bound: no conversation is being opened.                                  *)
ApplyAppMode ==
    /\ modals = {} /\ overlay.showing = 0
    /\ player' = NewPlayer /\ overlay' = NoOverlay /\ game' = FALSE
    /\ layout' = [layout EXCEPT !.locked = FALSE]
    /\ \/ appMode = "game" /\ appMode' = "serious" /\ manager' = Destroyed
       \/ appMode = "serious" /\ appMode' = "game" /\ manager' = SwitchToGame(Created)
    /\ crossed' = IF voiceOwnsInput THEN crossed \cup {"voice"} ELSE crossed
    /\ UNCHANGED <<modals, requests, staleEscape, voiceOwnsInput>>

FocusNext ==
    \/ TriggerEntrance \/ EntranceComplete \/ TriggerExit \/ StartGame \/ GameCloses \/ Interact
    \/ Press \/ LetGo \/ Shown \/ FocusTerminal \/ Hide
    \/ OpenSettings \/ ShowSprites \/ ShowNewOfficeDialog \/ ShowOfficeSettingsPopover
    \/ CloseSettings \/ HideSprites \/ CloseNewOfficeDialog \/ CloseOfficePopover \/ CloseTeamsSettings
    \/ PressEscape \/ ResetSettings \/ AskTeamsSettings \/ TeamsSettingsOpen
    \/ VoiceChanges \/ ApplyResponsiveLayout \/ ApplyAppMode
FocusSpec == FocusInit /\ [][FocusNext]_focusVars

-----------------------------------------------------------------------------
Focus == {"game", "terminal", "none"}
Manager == [focus : Focus, suspended : Focus \cup {Nothing}, owners : SUBSET Owner,
            keyboard : BOOLEAN, shortcuts : BOOLEAN, f10 : BOOLEAN]
Player == [inScene : BOOLEAN, entering : BOOLEAN, movementEnabled : BOOLEAN, walking : BOOLEAN]
FocusTypeOK ==
    /\ manager \in Manager /\ player \in Player
    /\ overlay \in [visible : BOOLEAN, showing : 0..MaxShows]
    /\ game \in BOOLEAN /\ modals \subseteq Scrim \cup Floating
    /\ requests \in 0..MaxRequests /\ staleEscape \in BOOLEAN /\ voiceOwnsInput \in BOOLEAN
    /\ layout \in [portrait : BOOLEAN, locked : BOOLEAN]
    /\ appMode \in {"game", "serious"} /\ crossed \subseteq {"modals", "voice"}

(* A key is not for the game and the terminal both: the captures of the     *)
(* game are off while the terminal has the focus, its shortcuts are on only *)
(* then, and what a modal restores is what was last chosen.                 *)
OneListener ==
    /\ manager.keyboard => manager.focus # "terminal" /\ manager.owners = {}
    /\ manager.shortcuts <=> manager.focus = "terminal"
    /\ manager.suspended = (IF manager.owners = {} THEN Nothing ELSE manager.focus)
    /\ appMode = "game" => (manager.f10 <=> overlay.visible)

(* What is typed into a modal, or said, does not steer the player.  Not so  *)
(* once two modals have met: they share one owner, and the first that       *)
(* closes gives the keys back.                                              *)
ModalsHoldTheKeys ==
    LET unheard == (IF modals = {} THEN {} ELSE {"modals"}) \cup (IF voiceOwnsInput THEN {"voice"} ELSE {})
    IN  appMode = "game" /\ manager.keyboard => unheard \subseteq crossed

(* Whoever looks at the office, with nothing over it and no terminal in     *)
(* focus or on its way, can walk.                                           *)
NobodyIsLockedOut ==
    appMode = "game" /\ modals = {} /\ ~voiceOwnsInput /\ ~layout.portrait
    /\ player.inScene /\ ~player.entering /\ manager.focus = "game" /\ overlay.showing = 0
    => manager.keyboard /\ player.movementEnabled /\ (player.walking \/ game)

(* A key is for the game, the terminal or a modal, for one of them only,    *)
(* and the user always gets the game back.                                  *)
KeysReachOne == OneListener /\ ModalsHoldTheKeys /\ NobodyIsLockedOut
=============================================================================
