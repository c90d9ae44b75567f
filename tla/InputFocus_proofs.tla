-------------------------- MODULE InputFocus_proofs --------------------------
(***************************************************************************)
(* A key has one addressee, and the user gets the game back: for any       *)
(* number of conversations that open and of settings that are awaited.     *)
(*                                                                         *)
(* None of the parts of KeysReachOne is inductive.  What InputManager      *)
(* does keeps its own fields consistent whatever it is asked (Consistent), *)
(* so that what is left is about its callers: an owner holds the keys for  *)
(* a modal that is there, and a modal that is there holds them unless two  *)
(* have met (OwnersInv, HeldInv, MetInv); and whoever gives the focus to   *)
(* the game, or the last hold back, lets the player walk (WalksInv).       *)
(***************************************************************************)
EXTENDS InputFocus, TLAPS

(* The fields of InputManager.                                             *)
Consistent(m) ==
    /\ m \in Manager
    /\ m.keyboard => m.focus # "terminal" /\ m.owners = {}
    /\ m.shortcuts <=> m.focus = "terminal"
    /\ m.suspended = (IF m.owners = {} THEN Nothing ELSE m.focus)
    /\ m.focus = "game" /\ m.owners = {} => m.keyboard

(* F10 is heard while the overlay is there.                                *)
ButtonInv == appMode = "game" => (manager.f10 <=> overlay.visible)

(* Who holds the keys has a reason.                                        *)
OwnersInv ==
    /\ "overlay" \in manager.owners => modals # {}
    /\ "voice" \in manager.owners => voiceOwnsInput
    /\ appMode = "serious" => manager.owners = {}

(* Who has a reason holds the keys, but for what `crossed` remembers.      *)
HeldInv ==
    appMode = "game" =>
       /\ modals # {} /\ "modals" \notin crossed => "overlay" \in manager.owners
       /\ voiceOwnsInput /\ "voice" \notin crossed => "voice" \in manager.owners
MetInv == \A a, b \in modals : a # b => "modals" \in crossed

(* The player has been let go when the game has the focus.                 *)
Free(m, p) == m.focus = "game" /\ m.owners = {} /\ p.inScene => p.movementEnabled /\ p.walking
WalksInv ==
    /\ appMode = "game" /\ manager.focus = "game" /\ manager.owners = {}
    /\ player.inScene /\ ~player.entering /\ overlay.showing = 0
    => player.movementEnabled /\ (player.walking \/ game)

FocusInv == /\ FocusTypeOK /\ Consistent(manager) /\ ButtonInv /\ OwnersInv /\ HeldInv
            /\ MetInv /\ WalksInv

USE FocusAssumption

-----------------------------------------------------------------------------
(* InputManager keeps its fields consistent, whatever it is asked.          *)

\* Each switch of the focus leaves the manager consistent, gives the focus it names and keeps
\* the owners of the settings and the F10 mode.
LEMMA Switches ==
  ASSUME NEW m, Consistent(m)
  PROVE  /\ Consistent(SwitchToGame(m)) /\ SwitchToGame(m).focus = "game"
         /\ SwitchToGame(m).owners = m.owners /\ SwitchToGame(m).f10 = m.f10
         /\ Consistent(SwitchToTerminal(m)) /\ SwitchToTerminal(m).focus = "terminal"
         /\ SwitchToTerminal(m).owners = m.owners /\ SwitchToTerminal(m).f10 = m.f10
         /\ Consistent(SwitchToNone(m)) /\ SwitchToNone(m).focus = "none"
         /\ SwitchToNone(m).owners = m.owners /\ SwitchToNone(m).f10 = m.f10
  <1> USE DEF Consistent, Manager, Focus, Saved, Nothing
  <1>1. /\ Consistent(SwitchToGame(m)) /\ SwitchToGame(m).focus = "game"
        /\ SwitchToGame(m).owners = m.owners /\ SwitchToGame(m).f10 = m.f10
    BY DEF SwitchToGame
  <1>2. /\ Consistent(SwitchToTerminal(m)) /\ SwitchToTerminal(m).focus = "terminal"
        /\ SwitchToTerminal(m).owners = m.owners /\ SwitchToTerminal(m).f10 = m.f10
    BY DEF SwitchToTerminal
  <1>3. /\ Consistent(SwitchToNone(m)) /\ SwitchToNone(m).focus = "none"
        /\ SwitchToNone(m).owners = m.owners /\ SwitchToNone(m).f10 = m.f10
    BY DEF SwitchToNone
  <1> QED BY <1>1, <1>2, <1>3

(* The handler of F10 is put in and taken out with the overlay.             *)
LEMMA Buttons ==
  ASSUME NEW m, Consistent(m), NEW on \in BOOLEAN
  PROVE  /\ Consistent([m EXCEPT !.f10 = on]) /\ [m EXCEPT !.f10 = on].f10 = on
         /\ [m EXCEPT !.f10 = on].owners = m.owners
  BY DEF Consistent, Manager

(* An owner takes the keys.                                                 *)
LEMMA Suspends ==
  ASSUME NEW m, Consistent(m), NEW owner \in Owner
  PROVE  /\ Consistent(SuspendGameInput(m, owner))
         /\ SuspendGameInput(m, owner).owners = m.owners \cup {owner}
         /\ SuspendGameInput(m, owner).f10 = m.f10
  BY DEF Consistent, Manager, Focus, Nothing, SuspendGameInput

(* An owner gives them back, and the last one restores what was chosen      *)
(* meanwhile.                                                               *)
LEMMA Resumes ==
  ASSUME NEW m, Consistent(m), NEW owner \in Owner
  PROVE  /\ Consistent(ResumeGameInput(m, owner))
         /\ ResumeGameInput(m, owner).owners = m.owners \ {owner}
         /\ ResumeGameInput(m, owner).f10 = m.f10
  <1> USE DEF Consistent, Manager, Focus, Nothing, ResumeGameInput
  <1>1. CASE m.owners \ {owner} # {}
    BY <1>1
  <1>2. CASE m.owners \ {owner} = {}
    <2>1. ResumeGameInput(m, owner).owners = {} /\ ResumeGameInput(m, owner).f10 = m.f10
      BY <1>2
    <2>2. CASE m.owners = {}
      BY <1>2, <2>2
    <2>3. CASE m.owners # {}
      BY <1>2, <2>3
    <2> QED BY <1>2, <2>1, <2>2, <2>3
  <1> QED BY <1>1, <1>2

(* What becomes of the player.                                              *)
LEMMA Players ==
  ASSUME NEW p \in Player
  PROVE  /\ Walks(p) \in Player /\ Stands(p) \in Player /\ WalksIn(p) \in Player
         /\ Walks(p).movementEnabled /\ Walks(p).walking
         /\ p.inScene => WalksIn(p).movementEnabled /\ WalksIn(p).walking
         /\ WalksIn(p).inScene = p.inScene /\ WalksIn(p).entering = p.entering
  BY DEF Player, Walks, Stands, WalksIn

(* The callers of the bus: a modal opens, or closes, with or without a      *)
(* click on the panel.                                                      *)
LEMMA Opening ==
  ASSUME FocusInv, NEW owner \in Owner, SettingsOpen(owner)
  PROVE  /\ Consistent(manager') /\ player' \in Player
         /\ manager'.f10 = manager.f10
         /\ appMode = "game" => manager'.owners = manager.owners \cup {owner}
         /\ appMode # "game" => manager' = manager
  BY Suspends, Players DEF FocusInv, FocusTypeOK, SettingsOpen

\* A player that the manager releases is free for the game, and stands in the scene it stood
\* in.
LEMMA Releasing ==
  ASSUME NEW m, Consistent(m), NEW p \in Player
  PROVE  /\ Released(m, p) \in Player /\ Free(m, Released(m, p))
         /\ Released(m, p).inScene = p.inScene
  BY Players DEF Released, Free

\* SettingsClose takes one owner away and, in the game, frees the player.
LEMMA Closing ==
  ASSUME FocusInv, NEW owner \in Owner, SettingsClose(owner)
  PROVE  /\ Consistent(manager') /\ player' \in Player
         /\ manager'.f10 = manager.f10 /\ manager'.owners = manager.owners \ {owner}
         /\ appMode = "game" => Free(manager', player')
  <1>1. CASE appMode = "game"
    <2>1. manager' = ResumeGameInput(manager, owner) /\ player' = Released(manager', player)
      BY <1>1 DEF SettingsClose
    <2>2. Consistent(manager) /\ player \in Player
      BY DEF FocusInv, FocusTypeOK
    <2>3. /\ Consistent(manager') /\ manager'.f10 = manager.f10
          /\ manager'.owners = manager.owners \ {owner}
      BY <2>1, <2>2, Resumes
    <2> QED BY <2>1, <2>2, <2>3, Releasing
  <1>2. CASE appMode = "serious"
    <2>1. manager' = manager /\ player' = player /\ manager.owners = {}
      BY <1>2 DEF SettingsClose, FocusInv, OwnersInv
    <2> QED BY <1>2, <2>1 DEF FocusInv, FocusTypeOK
  <1> QED BY <1>1, <1>2 DEF FocusInv, FocusTypeOK

\* A click on the panel keeps the owners and frees the player.
LEMMA Clicking ==
  ASSUME NEW m, Consistent(m), NEW p \in Player, PanelClicked(m, p)
  PROVE  /\ Consistent(manager') /\ player' \in Player
         /\ manager'.f10 = m.f10 /\ manager'.owners = m.owners
         /\ Free(manager', player')
  BY Switches, Players DEF PanelClicked, BlurTerminal, Free

\* Closing the overlay by a click outside does both at once.
LEMMA ClosingWithClick ==
  ASSUME FocusInv, SettingsCloseAndClick
  PROVE  /\ Consistent(manager') /\ player' \in Player
         /\ manager'.f10 = manager.f10 /\ manager'.owners = manager.owners \ {"overlay"}
         /\ appMode = "game" => Free(manager', player')
  <1>1. CASE appMode = "game"
    <2> DEFINE m == ResumeGameInput(manager, "overlay")
    <2>1. /\ Consistent(m) /\ m.f10 = manager.f10 /\ m.owners = manager.owners \ {"overlay"}
      BY Resumes DEF FocusInv, Owner
    <2>2. PanelClicked(m, Released(m, player))
      BY <1>1 DEF SettingsCloseAndClick
    <2>3. Released(m, player) \in Player
      BY <2>1, Releasing DEF FocusInv, FocusTypeOK
    <2> HIDE DEF m
    <2> QED BY <2>1, <2>2, <2>3, Clicking
  <1>2. CASE appMode = "serious"
    <2>1. manager' = manager /\ player' = player /\ manager.owners = {}
      BY <1>2 DEF SettingsCloseAndClick, FocusInv, OwnersInv
    <2> QED BY <1>2, <2>1 DEF FocusInv, FocusTypeOK
  <1> QED BY <1>1, <1>2 DEF FocusInv, FocusTypeOK

-----------------------------------------------------------------------------

(* The first window.                                                        *)
LEMMA FirstWindow == FocusInit => FocusInv
  <1> SUFFICES ASSUME FocusInit PROVE FocusInv
    OBVIOUS
  <1>1. Consistent(manager) /\ manager.f10 = FALSE /\ manager.owners = {}
    BY DEF FocusInit, Consistent, Manager, Focus, SwitchToGame, Created, Saved, Nothing
  <1>2. FocusTypeOK
    <2>1. player \in Player /\ overlay \in [visible : BOOLEAN, showing : 0..MaxShows]
      BY DEF FocusInit, NewPlayer, NoOverlay, Player
    <2>2. layout \in [portrait : BOOLEAN, locked : BOOLEAN]
      BY DEF FocusInit
    <2>3. manager \in Manager
      BY <1>1 DEF Consistent
    <2>4. requests \in 0..MaxRequests /\ modals \subseteq Scrim \cup Floating
          /\ crossed \subseteq {"modals", "voice"}
      BY DEF FocusInit
    <2>5. game \in BOOLEAN /\ staleEscape \in BOOLEAN /\ voiceOwnsInput \in BOOLEAN
          /\ appMode \in {"game", "serious"}
      BY DEF FocusInit
    <2> QED BY <2>1, <2>2, <2>3, <2>4, <2>5 DEF FocusTypeOK
  <1>3. ButtonInv /\ OwnersInv /\ HeldInv /\ MetInv /\ WalksInv
    BY <1>1 DEF FocusInit, NewPlayer, NoOverlay, ButtonInv, OwnersInv, HeldInv, MetInv, WalksInv
  <1> QED BY <1>1, <1>2, <1>3 DEF FocusInv

(* The player walks in and out, and plays.                                  *)
LEMMA SceneKeeps ==
  ASSUME FocusInv,
         TriggerEntrance \/ EntranceComplete \/ TriggerExit \/ StartGame \/ GameCloses \/ Interact
  PROVE  FocusInv'
  <1> USE DEF window, scene
  <1>1. Consistent(manager)
    BY DEF FocusInv
  <1>2. /\ Consistent(manager') /\ manager'.owners = manager.owners /\ manager'.f10 = manager.f10
        /\ manager' = manager \/ (EntranceComplete /\ manager'.focus = "game")
    <2>1. CASE EntranceComplete
      BY <1>1, <2>1, Switches DEF EntranceComplete
    <2>2. CASE ~EntranceComplete
      <3>1. manager' = manager
        BY <2>2 DEF TriggerEntrance, TriggerExit, StartGame, GameCloses, Interact
      <3> QED BY <1>1, <3>1
    <2> QED BY <2>1, <2>2
  <1>3. /\ UNCHANGED <<modals, requests, staleEscape, voiceOwnsInput, layout, appMode, crossed>>
        /\ overlay'.visible = overlay.visible
    BY DEF TriggerEntrance, EntranceComplete, TriggerExit, StartGame, GameCloses, Interact,
           StartConversation, FocusInv, FocusTypeOK
  <1>4. player' \in Player /\ game' \in BOOLEAN
        /\ overlay' \in [visible : BOOLEAN, showing : 0..MaxShows]
    <2>1. player \in Player /\ game \in BOOLEAN /\ overlay \in [visible : BOOLEAN, showing : 0..MaxShows]
      BY DEF FocusInv, FocusTypeOK
    <2>2. player' \in Player
      BY <2>1 DEF TriggerEntrance, EntranceComplete, TriggerExit, StartGame, GameCloses, Interact,
                  StartConversation, Player, Walks, UpAgain
    <2>3. \/ overlay' = overlay
          \/ overlay.showing < MaxShows /\ overlay' = [overlay EXCEPT !.showing = @ + 1]
      BY DEF TriggerEntrance, EntranceComplete, TriggerExit, StartGame, GameCloses, Interact,
             StartConversation
    <2>4. overlay' \in [visible : BOOLEAN, showing : 0..MaxShows]
      BY <2>1, <2>3
    <2>5. game' \in BOOLEAN
      BY <2>1 DEF TriggerEntrance, EntranceComplete, TriggerExit, StartGame, GameCloses, Interact
    <2> QED BY <2>2, <2>4, <2>5
  <1>5. FocusTypeOK'
    BY <1>2, <1>3, <1>4 DEF FocusInv, FocusTypeOK, Consistent
  <1>6. ButtonInv' /\ OwnersInv' /\ HeldInv' /\ MetInv'
    BY <1>2, <1>3 DEF FocusInv, ButtonInv, OwnersInv, HeldInv, MetInv
  <1>7. WalksInv'
    <2>1. CASE TriggerEntrance
      BY <2>1 DEF TriggerEntrance, WalksInv, FocusInv, FocusTypeOK, Player
    <2>2. CASE EntranceComplete
      BY <2>2 DEF EntranceComplete, WalksInv, FocusInv, FocusTypeOK, Player, Walks
    <2>3. CASE TriggerExit
      BY <2>3 DEF TriggerExit, WalksInv, FocusInv, FocusTypeOK, Player
    <2>4. CASE StartGame
      BY <2>4 DEF StartGame, Updates, WalksInv, FocusInv, FocusTypeOK, Player
    <2>5. CASE GameCloses
      BY <2>5 DEF GameCloses, UpAgain, WalksInv, FocusInv, FocusTypeOK, Player
    <2>6. CASE Interact
      BY <2>6 DEF Interact, StartConversation, WalksInv, FocusInv, FocusTypeOK
    <2> QED BY <2>1, <2>2, <2>3, <2>4, <2>5, <2>6
  <1> QED BY <1>2, <1>5, <1>6, <1>7 DEF FocusInv

(* With no modal over the window, the sprite customizer closes with the     *)
(* click that a panel hears.                                                *)
LEMMA SpritesGo ==
  ASSUME FocusInv, modals \cap Scrim = {}, modals' = modals \ {"sprites"}, crossed' = crossed,
         UNCHANGED window, appMode = "game",
         manager'.owners = IF "sprites" \in modals THEN manager.owners \ {"overlay"}
                           ELSE manager.owners
  PROVE  OwnersInv' /\ HeldInv' /\ MetInv'
  <1>1. modals \subseteq {"popover", "sprites"}
    BY DEF FocusInv, FocusTypeOK, Floating
  <1>2. MetInv' /\ OwnersInv'
    BY <1>1 DEF FocusInv, MetInv, OwnersInv, window
  <1>3. HeldInv'
    BY <1>1 DEF FocusInv, MetInv, HeldInv, window
  <1> QED BY <1>2, <1>3

(* A press on the canvas, and what it was a press of.                       *)
LEMMA PressKeeps ==
  ASSUME FocusInv, Press
  PROVE  FocusInv'
  <1>1. /\ Consistent(manager') /\ player' \in Player /\ manager'.f10 = manager.f10
        /\ Free(manager', player')
        /\ manager'.owners = IF "sprites" \in modals THEN manager.owners \ {"overlay"}
                             ELSE manager.owners
    BY Clicking, ClosingWithClick DEF Press, CanvasInReach, FocusInv, FocusTypeOK
  <1>2. OwnersInv' /\ HeldInv' /\ MetInv'
    BY <1>1, SpritesGo DEF Press, CanvasInReach
  <1>3. FocusTypeOK' /\ ButtonInv' /\ WalksInv'
    BY <1>1 DEF Press, FocusInv, FocusTypeOK, ButtonInv, WalksInv, Free, Consistent, scene, window
  <1> QED BY <1>1, <1>2, <1>3 DEF FocusInv

\* Releasing a held key or button preserves the invariant.
LEMMA LetGoKeeps ==
  ASSUME FocusInv, LetGo
  PROVE  FocusInv'
  <1>1. CASE StartConversation /\ UNCHANGED manager
    <2>1. FocusTypeOK'
      <3>1. player \in Player /\ overlay \in [visible : BOOLEAN, showing : 0..MaxShows]
        BY DEF FocusInv, FocusTypeOK
      <3>2. player' \in Player
        BY <1>1, <3>1 DEF StartConversation, Player
      <3>3. overlay' \in [visible : BOOLEAN, showing : 0..MaxShows]
        BY <1>1, <3>1 DEF StartConversation
      <3> QED BY <1>1, <3>2, <3>3 DEF LetGo, FocusInv, FocusTypeOK, window
    <2>2. Consistent(manager)' /\ ButtonInv' /\ OwnersInv' /\ HeldInv' /\ MetInv'
      BY <1>1 DEF LetGo, StartConversation, FocusInv, FocusTypeOK, ButtonInv, OwnersInv, HeldInv,
                  MetInv, window
    <2>3. WalksInv'
      BY <1>1 DEF LetGo, StartConversation, FocusInv, FocusTypeOK, WalksInv
    <2> QED BY <2>1, <2>2, <2>3 DEF FocusInv
  <1>2. CASE manager' = BlurTerminal(manager) /\ player' = WalksIn(player) /\ UNCHANGED overlay
    <2>1. /\ Consistent(manager') /\ player' \in Player /\ manager'.f10 = manager.f10
          /\ manager'.owners = manager.owners /\ Free(manager', player')
      BY <1>2, Switches, Players DEF BlurTerminal, Free, FocusInv, FocusTypeOK
    <2>2. FocusTypeOK' /\ ButtonInv' /\ OwnersInv' /\ HeldInv' /\ MetInv' /\ WalksInv'
      BY <1>2, <2>1 DEF LetGo, FocusInv, FocusTypeOK, ButtonInv, OwnersInv, HeldInv, MetInv, WalksInv,
                        Free, Consistent, window
    <2> QED BY <2>1, <2>2 DEF FocusInv
  <1> QED BY <1>1, <1>2 DEF LetGo

(* The overlay of the terminal is there, takes the focus, and goes.         *)
LEMMA OverlayKeeps ==
  ASSUME FocusInv, Shown \/ FocusTerminal \/ Hide
  PROVE  FocusInv'
  <1>0. Consistent(manager) /\ player \in Player
    BY DEF FocusInv, FocusTypeOK
  <1>1. CASE Shown
    <2>1. /\ Consistent(manager') /\ manager'.f10 = TRUE /\ manager'.owners = manager.owners
          /\ manager'.focus = "terminal"
      <3> DEFINE m == [manager EXCEPT !.f10 = TRUE]
      <3>1. Consistent(m) /\ m.f10 = TRUE /\ m.owners = manager.owners
        BY <1>0, Buttons
      <3>2. manager' = SwitchToTerminal(m)
        BY <1>1 DEF Shown
      <3> HIDE DEF m
      <3> QED BY <3>1, <3>2, Switches
    <2>2. overlay' \in [visible : BOOLEAN, showing : 0..MaxShows] /\ overlay'.visible
      BY <1>1 DEF Shown, FocusInv, FocusTypeOK
    <2>3. FocusTypeOK'
      BY <1>1, <2>1, <2>2 DEF Shown, FocusInv, FocusTypeOK, Consistent, window
    <2>4. ButtonInv' /\ OwnersInv' /\ HeldInv' /\ MetInv' /\ WalksInv'
      BY <1>1, <2>1, <2>2 DEF Shown, FocusInv, ButtonInv, OwnersInv, HeldInv, MetInv, WalksInv, window
    <2> QED BY <2>1, <2>3, <2>4 DEF FocusInv
  <1>2. CASE FocusTerminal
    <2> DEFINE m == IF "sprites" \in modals THEN ResumeGameInput(manager, "overlay") ELSE manager
    <2>1. /\ Consistent(m) /\ m.f10 = manager.f10
          /\ m.owners = IF "sprites" \in modals THEN manager.owners \ {"overlay"} ELSE manager.owners
      BY <1>0, Resumes DEF Owner
    <2>2. /\ manager' = SwitchToTerminal(m)
          /\ player' = IF "sprites" \in modals THEN Released(m, player) ELSE player
      BY <1>2 DEF FocusTerminal
    <2> HIDE DEF m
    <2>3. /\ Consistent(manager') /\ manager'.f10 = manager.f10 /\ manager'.focus = "terminal"
          /\ manager'.owners = m.owners
      BY <2>1, <2>2, Switches
    <2>4. player' \in Player
      BY <1>0, <2>1, <2>2, Releasing
    <2>5. OwnersInv' /\ HeldInv' /\ MetInv'
      BY <1>2, <2>1, <2>3, SpritesGo DEF FocusTerminal
    <2>6. FocusTypeOK' /\ ButtonInv' /\ WalksInv'
      BY <1>2, <2>3, <2>4 DEF FocusTerminal, FocusInv, FocusTypeOK, ButtonInv, WalksInv, Consistent,
                              scene, window
    <2> QED BY <2>3, <2>5, <2>6 DEF FocusInv
  <1>3. CASE Hide
    <2>1. /\ Consistent(manager') /\ manager'.f10 = FALSE /\ manager'.owners = manager.owners
      <3> DEFINE m == [manager EXCEPT !.f10 = FALSE]
      <3>1. Consistent(m) /\ m.f10 = FALSE /\ m.owners = manager.owners
        BY <1>0, Buttons
      <3>2. manager' = SwitchToNone(m) \/ manager' = SwitchToGame(m)
        BY <1>3 DEF Hide, BlurTerminal
      <3> HIDE DEF m
      <3> QED BY <3>1, <3>2, Switches
    <2>2. overlay' \in [visible : BOOLEAN, showing : 0..MaxShows] /\ ~overlay'.visible
      BY <1>3 DEF Hide, FocusInv, FocusTypeOK
    <2>3. player' \in Player /\ (player'.inScene => player'.movementEnabled /\ player'.walking)
      BY <1>0, <1>3 DEF Hide, Player
    <2>4. FocusTypeOK'
      BY <1>3, <2>1, <2>2, <2>3 DEF Hide, FocusInv, FocusTypeOK, Consistent, window
    <2>5. ButtonInv' /\ OwnersInv' /\ HeldInv' /\ MetInv' /\ WalksInv'
      BY <1>3, <2>1, <2>2, <2>3 DEF Hide, FocusInv, ButtonInv, OwnersInv, HeldInv, MetInv, WalksInv,
                                    window
    <2> QED BY <2>1, <2>4, <2>5 DEF FocusInv
  <1> QED BY <1>1, <1>2, <1>3

-----------------------------------------------------------------------------
(* The modals open.                                                         *)

(* Neither the overlay nor the game changes, and the types of the rest are  *)
(* clear.                                                                   *)
LEMMA TypesAndButton ==
  ASSUME FocusInv, UNCHANGED scene, UNCHANGED appMode, Consistent(manager'), player' \in Player,
         manager'.f10 = manager.f10, modals' \subseteq Scrim \cup Floating,
         requests' \in 0..MaxRequests, staleEscape' \in BOOLEAN, voiceOwnsInput' \in BOOLEAN,
         layout' = layout, crossed' \subseteq {"modals", "voice"}
  PROVE  FocusTypeOK' /\ ButtonInv'
  BY DEF FocusInv, FocusTypeOK, ButtonInv, Consistent, scene

(* One modal where there was none.                                          *)
LEMMA OpensKeeps ==
  ASSUME FocusInv, NEW k \in Scrim \cup Floating, Opens(k)
  PROVE  FocusInv'
  <1>1. /\ Consistent(manager') /\ player' \in Player /\ manager'.f10 = manager.f10
        /\ appMode = "game" => manager'.owners = manager.owners \cup {"overlay"}
        /\ appMode # "game" => manager' = manager
    BY Opening DEF Opens, Owner
  <1>2. modals' = {k} /\ crossed' = crossed /\ UNCHANGED scene /\ UNCHANGED window
    BY DEF Opens
  <1>3. FocusTypeOK' /\ ButtonInv'
    BY <1>1, <1>2, TypesAndButton DEF FocusInv, FocusTypeOK, window
  <1>4. OwnersInv' /\ HeldInv' /\ MetInv' /\ WalksInv'
    BY <1>1, <1>2 DEF FocusInv, FocusTypeOK, OwnersInv, HeldInv, MetInv, WalksInv, window
  <1> QED BY <1>1, <1>3, <1>4 DEF FocusInv

(* The settings open again.                                                 *)
LEMMA ResetKeeps ==
  ASSUME FocusInv, ResetSettings
  PROVE  FocusInv'
  <1>1. /\ Consistent(manager') /\ player' \in Player /\ manager'.f10 = manager.f10
        /\ appMode = "game" => manager'.owners = manager.owners \cup {"overlay"}
        /\ appMode # "game" => manager' = manager
    <2>1. CASE appMode = "game"
      <3> DEFINE m == ResumeGameInput(manager, "overlay")
      <3>1. /\ Consistent(m) /\ m.f10 = manager.f10 /\ m.owners = manager.owners \ {"overlay"}
        BY Resumes DEF FocusInv, Owner
      <3>2. manager' = SuspendGameInput(m, "overlay") /\ player' = Stands(player)
        BY <2>1 DEF ResetSettings
      <3> HIDE DEF m
      <3>3. /\ Consistent(manager') /\ manager'.f10 = m.f10
            /\ manager'.owners = m.owners \cup {"overlay"}
        BY <3>1, <3>2, Suspends DEF Owner
      <3> QED BY <2>1, <3>1, <3>2, <3>3, Players DEF FocusInv, FocusTypeOK
    <2>2. CASE appMode # "game"
      BY <2>2 DEF ResetSettings, FocusInv, FocusTypeOK
    <2> QED BY <2>1, <2>2
  <1>2. /\ UNCHANGED <<modals, crossed>> /\ UNCHANGED scene /\ "settings" \in modals
        /\ UNCHANGED <<requests, voiceOwnsInput, layout, appMode>> /\ staleEscape' = TRUE
    BY DEF ResetSettings
  <1>3. FocusTypeOK' /\ ButtonInv'
    BY <1>1, <1>2, TypesAndButton DEF FocusInv, FocusTypeOK
  <1>4. OwnersInv' /\ HeldInv' /\ MetInv' /\ WalksInv'
    BY <1>1, <1>2 DEF FocusInv, FocusTypeOK, OwnersInv, HeldInv, MetInv, WalksInv
  <1> QED BY <1>1, <1>3, <1>4 DEF FocusInv

(* The Teams settings open over whatever is there.                          *)
LEMMA TeamsOpensKeeps ==
  ASSUME FocusInv, TeamsSettingsOpen
  PROVE  FocusInv'
  <1>1. /\ Consistent(manager') /\ player' \in Player /\ manager'.f10 = manager.f10
        /\ appMode = "game" => manager'.owners = manager.owners \cup {"overlay"}
        /\ appMode # "game" => manager' = manager
    BY Opening DEF TeamsSettingsOpen, Owner
  <1>2. /\ UNCHANGED scene /\ UNCHANGED <<staleEscape, voiceOwnsInput, layout, appMode>>
        /\ requests > 0 /\ requests' = requests - 1
        /\ modals' = modals \cup {"teams"} \cup (IF "teams" \in modals THEN {"abandoned"} ELSE {})
        /\ crossed' = crossed \cup (IF modals # {} THEN {"modals"} ELSE {})
    BY DEF TeamsSettingsOpen
  <1>3. requests' \in 0..MaxRequests
    BY <1>2 DEF FocusInv, FocusTypeOK
  <1>4. modals' \subseteq Scrim \cup Floating /\ modals' # {}
    BY <1>2 DEF FocusInv, FocusTypeOK, Scrim
  <1>5. FocusTypeOK' /\ ButtonInv'
    BY <1>1, <1>2, <1>3, <1>4, TypesAndButton DEF FocusInv, FocusTypeOK
  <1>6. OwnersInv' /\ HeldInv' /\ WalksInv'
    BY <1>1, <1>2, <1>4 DEF FocusInv, FocusTypeOK, OwnersInv, HeldInv, WalksInv
  <1>7. MetInv'
    BY <1>2 DEF FocusInv, MetInv
  <1> QED BY <1>1, <1>5, <1>6, <1>7 DEF FocusInv

-----------------------------------------------------------------------------
(* The modals close.                                                        *)

(* The overlay's hold ends: fewer modals are left, and if any then two had  *)
(* met or the step says so.                                                 *)
LEMMA HoldEnds ==
  ASSUME FocusInv, UNCHANGED scene, UNCHANGED <<voiceOwnsInput, layout, appMode>>,
         Consistent(manager'), player' \in Player, manager'.f10 = manager.f10,
         manager'.owners = manager.owners \ {"overlay"},
         appMode = "game" => Free(manager', player'),
         requests' \in 0..MaxRequests, staleEscape' \in BOOLEAN,
         modals' \subseteq modals, crossed' \ {"modals"} = crossed \ {"modals"},
         modals' # {} => "modals" \in crossed'
  PROVE  FocusInv'
  <1>1. modals' \subseteq Scrim \cup Floating /\ crossed' \subseteq {"modals", "voice"}
        /\ voiceOwnsInput' \in BOOLEAN
    BY DEF FocusInv, FocusTypeOK
  <1>2. FocusTypeOK' /\ ButtonInv'
    BY <1>1, TypesAndButton
  <1>3. OwnersInv' /\ MetInv'
    BY DEF FocusInv, OwnersInv, MetInv
  <1>4. HeldInv'
    BY DEF FocusInv, HeldInv
  <1>5. WalksInv'
    BY DEF WalksInv, Free
  <1> QED BY <1>2, <1>3, <1>4, <1>5 DEF FocusInv

(* One of the modals closes.                                                *)
LEMMA ClosesKeeps ==
  ASSUME FocusInv, NEW k, Closes(k), staleEscape' \in BOOLEAN,
         SettingsClose("overlay") \/ SettingsCloseAndClick
  PROVE  FocusInv'
  <1>1. /\ Consistent(manager') /\ player' \in Player /\ manager'.f10 = manager.f10
        /\ manager'.owners = manager.owners \ {"overlay"}
        /\ appMode = "game" => Free(manager', player')
    BY Closing, ClosingWithClick DEF Owner
  <1>2. /\ UNCHANGED scene /\ UNCHANGED <<requests, voiceOwnsInput, layout, appMode>>
        /\ k \in modals /\ modals' = modals \ {k}
        /\ crossed' = IF modals' = {} THEN crossed \ {"modals"} ELSE crossed
    BY DEF Closes, Unless
  <1>3. modals' # {} => "modals" \in crossed'
    BY <1>2 DEF FocusInv, MetInv
  <1>4. crossed' \ {"modals"} = crossed \ {"modals"} /\ modals' \subseteq modals
    BY <1>2
  <1>5. requests' \in 0..MaxRequests
    BY <1>2 DEF FocusInv, FocusTypeOK
  <1> QED BY <1>1, <1>2, <1>3, <1>4, <1>5, HoldEnds

(* Escape closes them all, or none but the hold.                            *)
LEMMA EscapeKeeps ==
  ASSUME FocusInv, PressEscape
  PROVE  FocusInv'
  <1>1. /\ Consistent(manager') /\ player' \in Player /\ manager'.f10 = manager.f10
        /\ manager'.owners = manager.owners \ {"overlay"}
        /\ appMode = "game" => Free(manager', player')
    BY Closing, ClosingWithClick DEF Owner, PressEscape
  <1>2. /\ UNCHANGED scene /\ UNCHANGED <<requests, voiceOwnsInput, layout, appMode>>
        /\ modals' = modals \ ClosedByEscape /\ staleEscape' = FALSE
        /\ crossed' = (crossed \ {"modals"}) \cup (IF modals' # {} THEN {"modals"} ELSE {})
    BY DEF PressEscape
  <1>3. modals' # {} => "modals" \in crossed'
    BY <1>2
  <1>4. crossed' \ {"modals"} = crossed \ {"modals"} /\ modals' \subseteq modals
    BY <1>2
  <1>5. requests' \in 0..MaxRequests
    BY <1>2 DEF FocusInv, FocusTypeOK
  <1> QED BY <1>1, <1>2, <1>3, <1>4, <1>5, HoldEnds

(* The Teams settings are asked for, and the settings close for them.       *)
LEMMA AskKeeps ==
  ASSUME FocusInv, AskTeamsSettings
  PROVE  FocusInv'
  <1>1. /\ UNCHANGED scene /\ UNCHANGED <<voiceOwnsInput, layout, appMode>>
        /\ modals \subseteq {"settings"} /\ modals' = {} /\ crossed' = crossed \ {"modals"}
        /\ requests < MaxRequests /\ requests' = requests + 1 /\ staleEscape' \in BOOLEAN
    BY DEF AskTeamsSettings, FocusInv, FocusTypeOK
  <1>2. requests' \in 0..MaxRequests
    BY <1>1 DEF FocusInv, FocusTypeOK
  <1>3. CASE "settings" \in modals
    <2>1. /\ Consistent(manager') /\ player' \in Player /\ manager'.f10 = manager.f10
          /\ manager'.owners = manager.owners \ {"overlay"}
          /\ appMode = "game" => Free(manager', player')
      BY <1>3, Closing DEF Owner, AskTeamsSettings
    <2> QED BY <1>1, <1>2, <2>1, HoldEnds
  <1>4. CASE "settings" \notin modals
    <2>1. modals = {} /\ UNCHANGED <<manager, player>>
      BY <1>1, <1>4 DEF AskTeamsSettings
    <2>2. FocusTypeOK' /\ ButtonInv'
      BY <1>1, <1>2, <2>1, TypesAndButton DEF FocusInv, FocusTypeOK
    <2>3. Consistent(manager)' /\ OwnersInv' /\ HeldInv' /\ MetInv' /\ WalksInv'
      BY <1>1, <2>1 DEF FocusInv, OwnersInv, HeldInv, MetInv, WalksInv, scene
    <2> QED BY <2>2, <2>3 DEF FocusInv
  <1> QED BY <1>3, <1>4

-----------------------------------------------------------------------------
(* Push-to-talk and the window.                                             *)

\* What the voice control does to the focus preserves the invariant.
LEMMA VoiceKeeps ==
  ASSUME FocusInv, VoiceChanges
  PROVE  FocusInv'
  <1>1. /\ UNCHANGED scene /\ UNCHANGED <<modals, requests, staleEscape, layout, appMode>>
        /\ crossed' = crossed \ {"voice"} /\ voiceOwnsInput' \in BOOLEAN
    BY DEF VoiceChanges
  <1>2. CASE voiceOwnsInput'
    <2>1. /\ Consistent(manager') /\ player' \in Player /\ manager'.f10 = manager.f10
          /\ appMode = "game" => manager'.owners = manager.owners \cup {"voice"}
          /\ appMode # "game" => manager' = manager
      BY <1>2, Opening DEF VoiceChanges, Owner
    <2>2. FocusTypeOK' /\ ButtonInv'
      BY <1>1, <2>1, TypesAndButton DEF FocusInv, FocusTypeOK
    <2>3. OwnersInv' /\ HeldInv' /\ MetInv' /\ WalksInv'
      BY <1>1, <1>2, <2>1 DEF FocusInv, FocusTypeOK, OwnersInv, HeldInv, MetInv, WalksInv
    <2> QED BY <2>1, <2>2, <2>3 DEF FocusInv
  <1>3. CASE ~voiceOwnsInput'
    <2>1. /\ Consistent(manager') /\ player' \in Player /\ manager'.f10 = manager.f10
          /\ manager'.owners = manager.owners \ {"voice"}
          /\ appMode = "game" => Free(manager', player')
      BY <1>3, Closing DEF VoiceChanges, Owner
    <2>2. FocusTypeOK' /\ ButtonInv'
      BY <1>1, <2>1, TypesAndButton DEF FocusInv, FocusTypeOK
    <2>3. OwnersInv' /\ HeldInv' /\ MetInv' /\ WalksInv'
      BY <1>1, <1>3, <2>1 DEF FocusInv, OwnersInv, HeldInv, MetInv, WalksInv, Free
    <2> QED BY <2>1, <2>2, <2>3 DEF FocusInv
  <1> QED BY <1>2, <1>3

(* The layout changes: with it the focus, and nobody's hold.                *)
LEMMA LayoutKeeps ==
  ASSUME FocusInv, ApplyResponsiveLayout
  PROVE  FocusInv'
  <1>1. /\ UNCHANGED scene
        /\ UNCHANGED <<modals, requests, staleEscape, voiceOwnsInput, appMode, crossed>>
    BY DEF ApplyResponsiveLayout
  <1>2. layout' \in [portrait : BOOLEAN, locked : BOOLEAN]
    <2>1. layout \in [portrait : BOOLEAN, locked : BOOLEAN]
      BY DEF FocusInv, FocusTypeOK
    <2>2. \/ layout' = [portrait |-> ~layout.portrait, locked |-> ~layout.portrait]
          \/ layout' = [layout EXCEPT !.portrait = ~layout.portrait]
      BY DEF ApplyResponsiveLayout
    <2>3. (~layout.portrait) \in BOOLEAN
      OBVIOUS
    <2>4. CASE layout' = [portrait |-> ~layout.portrait, locked |-> ~layout.portrait]
      BY <2>3, <2>4
    <2>5. CASE layout' = [layout EXCEPT !.portrait = ~layout.portrait]
      BY <2>1, <2>3, <2>5
    <2> QED BY <2>2, <2>4, <2>5
  <1>3. (manager' = manager /\ player' = player) \/ HandleLayoutChange(~layout.portrait)
    BY DEF ApplyResponsiveLayout
  <1>4. Consistent(manager) /\ player \in Player
    BY DEF FocusInv, FocusTypeOK
  <1>5. /\ Consistent(manager') /\ player' \in Player /\ manager'.f10 = manager.f10
        /\ manager'.owners = manager.owners
        /\ \/ manager' = manager /\ player' = player
           \/ Free(manager', player')
    BY <1>3, <1>4, Switches, Players DEF HandleLayoutChange, Free
  <1>6. FocusTypeOK' /\ ButtonInv'
    BY <1>1, <1>2, <1>5 DEF FocusInv, FocusTypeOK, ButtonInv, Consistent, scene
  <1>7. OwnersInv' /\ HeldInv' /\ MetInv' /\ WalksInv'
    BY <1>1, <1>5 DEF FocusInv, OwnersInv, HeldInv, MetInv, WalksInv, Free, scene
  <1> QED BY <1>5, <1>6, <1>7 DEF FocusInv

(* The game is destroyed, or a new one is made.                             *)
LEMMA ModeKeeps ==
  ASSUME FocusInv, ApplyAppMode
  PROVE  FocusInv'
  <1>1. /\ Consistent(manager') /\ manager'.owners = {} /\ ~manager'.f10
    BY DEF ApplyAppMode, Consistent, Manager, Focus, SwitchToGame, Created, Destroyed, Saved, Nothing
  <1>2. /\ player' = NewPlayer /\ overlay' = NoOverlay /\ game' = FALSE /\ modals = {}
        /\ UNCHANGED <<modals, requests, staleEscape, voiceOwnsInput>>
        /\ crossed' = IF voiceOwnsInput THEN crossed \cup {"voice"} ELSE crossed
        /\ appMode' \in {"game", "serious"} /\ layout' = [layout EXCEPT !.locked = FALSE]
    BY DEF ApplyAppMode
  <1>3. player' \in Player /\ overlay' \in [visible : BOOLEAN, showing : 0..MaxShows]
    BY <1>2 DEF NewPlayer, NoOverlay, Player
  <1>4. layout' \in [portrait : BOOLEAN, locked : BOOLEAN] /\ crossed' \subseteq {"modals", "voice"}
    BY <1>2 DEF FocusInv, FocusTypeOK
  <1>5. FocusTypeOK'
    BY <1>1, <1>2, <1>3, <1>4 DEF FocusInv, FocusTypeOK, Consistent
  <1>6. ButtonInv' /\ OwnersInv' /\ HeldInv' /\ MetInv' /\ WalksInv'
    BY <1>1, <1>2 DEF ButtonInv, OwnersInv, HeldInv, MetInv, WalksInv, NewPlayer, NoOverlay
  <1> QED BY <1>1, <1>5, <1>6 DEF FocusInv

-----------------------------------------------------------------------------
(* Every step keeps the invariant.                                          *)
LEMMA FocusStep == FocusInv /\ [FocusNext]_focusVars => FocusInv'
  <1> SUFFICES ASSUME FocusInv, [FocusNext]_focusVars PROVE FocusInv'
    OBVIOUS
  <1>1. CASE TriggerEntrance \/ EntranceComplete \/ TriggerExit \/ StartGame \/ GameCloses \/ Interact
    BY <1>1, SceneKeeps
  <1>2. CASE Press \/ LetGo \/ Shown \/ FocusTerminal \/ Hide
    BY <1>2, PressKeeps, LetGoKeeps, OverlayKeeps
  <1>3. CASE OpenSettings \/ ShowSprites \/ ShowNewOfficeDialog \/ ShowOfficeSettingsPopover
    BY <1>3, OpensKeeps DEF OpenSettings, ShowSprites, ShowNewOfficeDialog, ShowOfficeSettingsPopover,
                            Scrim, Floating
  <1>4. CASE CloseSettings \/ HideSprites \/ CloseNewOfficeDialog \/ CloseOfficePopover
             \/ CloseTeamsSettings
    <2>1. staleEscape' \in BOOLEAN /\ (SettingsClose("overlay") \/ SettingsCloseAndClick)
      BY <1>4 DEF CloseSettings, HideSprites, CloseNewOfficeDialog, CloseOfficePopover,
                  CloseTeamsSettings, FocusInv, FocusTypeOK
    <2> QED BY <1>4, <2>1, ClosesKeeps DEF CloseSettings, HideSprites, CloseNewOfficeDialog,
                                          CloseOfficePopover, CloseTeamsSettings
  <1>5. CASE PressEscape \/ ResetSettings \/ AskTeamsSettings \/ TeamsSettingsOpen
    BY <1>5, EscapeKeeps, ResetKeeps, AskKeeps, TeamsOpensKeeps
  <1>6. CASE VoiceChanges \/ ApplyResponsiveLayout \/ ApplyAppMode
    BY <1>6, VoiceKeeps, LayoutKeeps, ModeKeeps
  <1>7. CASE UNCHANGED focusVars
    BY <1>7 DEF focusVars, FocusInv, FocusTypeOK, ButtonInv, OwnersInv, HeldInv, MetInv, WalksInv
  <1> QED BY <1>1, <1>2, <1>3, <1>4, <1>5, <1>6, <1>7 DEF FocusNext

(* What the invariant means for the keys.                                   *)
LEMMA Reaches == FocusInv => KeysReachOne
  <1> SUFFICES ASSUME FocusInv PROVE KeysReachOne
    OBVIOUS
  <1>1. OneListener
    BY DEF FocusInv, Consistent, ButtonInv, OneListener
  <1>2. ModalsHoldTheKeys
    BY DEF FocusInv, Consistent, HeldInv, ModalsHoldTheKeys
  <1>3. NobodyIsLockedOut
    <2>1. ASSUME appMode = "game", modals = {}, ~voiceOwnsInput, manager.focus = "game"
          PROVE  manager.owners = {} /\ manager.keyboard
      <3>1. manager.owners \subseteq {"overlay", "voice"}
        BY DEF FocusInv, Consistent, Manager, Owner
      <3> QED BY <2>1, <3>1 DEF FocusInv, OwnersInv, Consistent
    <2> QED BY <2>1 DEF FocusInv, WalksInv, NobodyIsLockedOut
  <1> QED BY <1>1, <1>2, <1>3 DEF KeysReachOne

(* A key is for the game, the terminal or a modal, for one of them only,    *)
(* and the user gets the game back: whatever opens, closes, is clicked or   *)
(* said in whatever order (InputManager and those that ask it).             *)
THEOREM KeysHaveOneAddressee == FocusSpec => []KeysReachOne
  BY FirstWindow, FocusStep, Reaches, PTL DEF FocusSpec
=============================================================================
