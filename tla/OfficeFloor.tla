----------------------------- MODULE OfficeFloor -----------------------------
(* The floor of an office in OfficeScene: who sits, walks in and walks out, *)
(* and how the animations of the player, of agents that are hired or        *)
(* dismissed, and of a switch to another office get in each other's way.    *)
EXTENDS Integers, FiniteSets

CONSTANTS
    Office,         \* the offices of the window
    Main,           \* the one that cannot be deleted, office-0
    Fleet,          \* those with the fleet's layout
    Desk,           \* the stools of a floor with the default layout
    MaxHires, MaxExits, MaxSwitches     \* bounds: on what the user and Ringleader do

(* The reserve agent of a stool, or the fleet's agent of a seat: every      *)
(* office has agents of its own.                                            *)
Person == Office \X Desk
Of(o) == {o} \X Desk

VARIABLES
    offices,        \* those that exist
    current,        \* officeManager.currentOfficeId
    seated,         \* seatedAgents of every office, as they are saved
    floor,          \* the office whose layout is built
    agents,         \* the reserve agents in AGENTS
    npcs,           \* those of them with an NPC
    taken,          \* the stools that carry an agent's id
    walkIns,        \* NPCs on their way to a seat
    walkOuts,       \* NPCs on their way to the doors
    walkInAgents,   \* those the skip button would seat
    skipButton,     \* it is shown
    pendingWalkIns, animating, playerInScene,
    entering, leaving,      \* the tweens of the player
    mishaps,        \* history: what has gone by the flag that blocks a switch
    spent           \* what the bounds count

floorVars == <<offices, current, seated, floor, agents, npcs, taken, walkIns, walkOuts, walkInAgents,
               skipButton, pendingWalkIns, animating, playerInScene, entering, leaving, mishaps, spent>>
player == <<playerInScene, entering, leaving>>
people == <<seated, agents, npcs, taken>>
walks == <<walkIns, walkOuts, walkInAgents, skipButton, pendingWalkIns>>

Default == Office \ Fleet

Init == /\ offices = Office /\ current = Main /\ floor = Main
        /\ seated = [o \in Office |-> {}]
        /\ agents = {} /\ npcs = {} /\ taken = {}
        /\ walkIns = {} /\ walkOuts = {} /\ walkInAgents = {}
        /\ skipButton = FALSE /\ pendingWalkIns = 0
        /\ animating = FALSE /\ playerInScene = FALSE
        /\ entering = FALSE /\ leaving = FALSE
        /\ mishaps = {} /\ spent = [hires |-> 0, exits |-> 0, switches |-> 0]

Spend(what, max) == spent[what] < max /\ spent' = [spent EXCEPT ![what] = @ + 1]
Mishap(name, happened) == mishaps' = IF happened THEN mishaps \cup {name} ELSE mishaps

-----------------------------------------------------------------------------
(* The player.                                                              *)

Enter ==
    /\ ~playerInScene
    /\ playerInScene' = TRUE /\ entering' = TRUE /\ animating' = TRUE
    /\ UNCHANGED <<offices, current, floor, leaving, mishaps, spent>> /\ UNCHANGED people /\ UNCHANGED walks

(* A bug: the entrance ends the animation whoever else is walking.          *)
EntranceEndsIt == FALSE
StillWalking == IF pendingWalkIns <= 0 THEN FALSE ELSE animating
Entered ==
    /\ entering /\ entering' = FALSE
    /\ animating' = StillWalking
    /\ UNCHANGED <<offices, current, floor, playerInScene, leaving, mishaps, spent>>
    /\ UNCHANGED people /\ UNCHANGED walks

(* E near the doors, also while the entrance is still under way.            *)
Exit ==
    /\ playerInScene /\ Spend("exits", MaxExits)
    /\ playerInScene' = FALSE /\ leaving' = TRUE /\ animating' = TRUE
    /\ UNCHANGED <<offices, current, floor, entering, mishaps>> /\ UNCHANGED people /\ UNCHANGED walks

(* The exit ends the animation for the agents that still walk in, too.      *)
Left ==
    /\ leaving /\ leaving' = FALSE /\ animating' = FALSE
    /\ Mishap("left during a walk-in", walkIns # {})
    /\ UNCHANGED <<offices, current, floor, playerInScene, entering, spent>>
    /\ UNCHANGED people /\ UNCHANGED walks

-----------------------------------------------------------------------------
(* Walking in.                                                              *)

(* triggerAgentWalkIn: the list of those under way is started anew when     *)
(* nothing is animated.                                                     *)
(* A bug: it always is.                                                     *)
ListAnew(ps) == ps
ListWith(ps) == (IF animating THEN walkInAgents ELSE {}) \cup ps
WalkIn(ps) ==
    /\ pendingWalkIns' = pendingWalkIns + Cardinality(ps)
    /\ walkInAgents' = ListWith(ps) /\ walkIns' = walkIns \cup ps
    /\ animating' = TRUE /\ skipButton' = TRUE

(* onAgentSeated.                                                           *)
Arrive(p) ==
    /\ p \in walkIns /\ walkIns' = walkIns \ {p}
    /\ walkInAgents' = walkInAgents \ {p}
    /\ pendingWalkIns' = pendingWalkIns - 1
    /\ animating' = IF pendingWalkIns' <= 0 THEN FALSE ELSE animating
    /\ skipButton' = IF pendingWalkIns' <= 0 THEN FALSE ELSE skipButton
    /\ UNCHANGED <<offices, current, floor, walkOuts, mishaps, spent>>
    /\ UNCHANGED people /\ UNCHANGED player

(* A bug: the walks of those it seats go on.                                *)
GoOnWalking == walkIns
Cancelled == walkIns \ walkInAgents
SkipWalkInAnimation ==
    /\ skipButton /\ animating /\ walkInAgents # {}
    /\ walkIns' = Cancelled /\ walkInAgents' = {}
    /\ pendingWalkIns' = 0 /\ animating' = FALSE /\ skipButton' = FALSE
    /\ UNCHANGED <<offices, current, floor, walkOuts, mishaps, spent>>
    /\ UNCHANGED people /\ UNCHANGED player

-----------------------------------------------------------------------------
(* Hiring and dismissing.                                                   *)

(* addSeatedAgent: one agent to a stool.                                    *)
AddSeatedAgent(s, o, p) ==
    IF \E q \in s[o] : q[2] = p[2] THEN s ELSE [s EXCEPT ![o] = @ \cup {p}]

(* spawnReserveAgent, with the agent the floor's roster has for the stool.  *)
SpawnReserveAgent(d, s) ==
    LET p == <<floor, d>> IN
    IF p \in agents
    THEN /\ seated' = s
         /\ UNCHANGED <<agents, npcs, taken, walkIns, walkInAgents, skipButton, pendingWalkIns, animating>>
    ELSE /\ agents' = agents \cup {p} /\ npcs' = npcs \cup {p} /\ taken' = taken \cup {d}
         /\ seated' = AddSeatedAgent(s, current, p)
         /\ WalkIn({p})

(* A click on an empty stool.                                               *)
Hire(d) ==
    /\ floor \in Default /\ d \notin taken
    /\ Spend("hires", MaxHires)
    /\ SpawnReserveAgent(d, seated)
    /\ UNCHANGED <<offices, current, floor, walkOuts, mishaps>> /\ UNCHANGED player

(* Ringleader brings a reserve agent of any office online: the seat is      *)
(* saved, and then the floor told of it if it is the current office's.      *)
SeatPersisted(o, d) ==
    /\ o \in offices \ Fleet
    /\ \A q \in seated[o] : q[2] # d
    /\ Spend("hires", MaxHires)
    /\ LET saved == [seated EXCEPT ![o] = @ \cup {<<o, d>>}]
       IN IF o = current /\ floor \in Default
          THEN SpawnReserveAgent(d, saved) /\ Mishap("hired during a walk-out", <<o, d>> \in agents)
          ELSE /\ seated' = saved
               /\ UNCHANGED <<agents, npcs, taken, walkIns, walkInAgents, skipButton, pendingWalkIns,
                              animating, mishaps>>
    /\ UNCHANGED <<offices, current, floor, walkOuts>> /\ UNCHANGED player

(* dismissReserveAgent: F near the agent.                                   *)
DismissReserveAgent(p) ==
    /\ playerInScene /\ ~animating
    /\ floor \in Default /\ p \in npcs
    /\ seated' = [seated EXCEPT ![current] = @ \ {p}]
    /\ walkOuts' = walkOuts \cup {p}
    /\ UNCHANGED <<offices, current, floor, agents, npcs, taken, walkIns, walkInAgents, skipButton,
                   pendingWalkIns, animating, mishaps, spent>>
    /\ UNCHANGED player

(* A bug: the stool stays with the agent that left.                         *)
KeepsStool(d) == taken
Freed(d) == taken \ {d}
(* Outside, the NPC is destroyed, and a walk to its seat with it.           *)
WalkedOut(p) ==
    /\ p \in walkOuts /\ walkOuts' = walkOuts \ {p}
    /\ npcs' = npcs \ {p} /\ agents' = agents \ {p} /\ taken' = Freed(p[2])
    /\ walkIns' = walkIns \ {p}
    /\ UNCHANGED <<offices, current, seated, floor, walkInAgents, skipButton, pendingWalkIns, animating,
                   mishaps, spent>>
    /\ UNCHANGED player

-----------------------------------------------------------------------------
(* Another office.                                                          *)

(* restoreSeatedReserveAgents: the seats that fit the office's own roster.  *)
Restored(o, s) == s[o] \cap Of(o)

(* rebuildLayout: destroys the NPCs, and their walks with them; the count   *)
(* of walk-ins is left as it is.  A fleet walks in.                         *)
RebuildLayout(o) ==
    /\ floor' = o
    /\ walkOuts' = {}
    /\ IF o \in Fleet
       THEN /\ agents' = {} /\ npcs' = Of(o) /\ taken' = {}
            /\ walkIns' = Of(o) /\ walkInAgents' = Of(o) /\ skipButton' = TRUE /\ animating' = TRUE
            /\ pendingWalkIns' = pendingWalkIns + Cardinality(Of(o))
            /\ playerInScene' = FALSE
       ELSE /\ agents' = Restored(o, seated) /\ npcs' = Restored(o, seated)
            /\ taken' = {p[2] : p \in Restored(o, seated)}
            /\ walkIns' = {} /\ walkInAgents' = {} /\ skipButton' = FALSE
            /\ UNCHANGED <<pendingWalkIns, animating, playerInScene>>
    /\ UNCHANGED <<seated, entering, leaving>>

(* A bug: the scene is asked, and not whether it moves.                     *)
NeverBlocked == FALSE
Blocked == animating
SwitchToOffice(o) ==
    /\ o \in offices /\ Spend("switches", MaxSwitches)
    /\ ~Blocked
    /\ current' = o /\ RebuildLayout(o)
    /\ UNCHANGED <<offices, mishaps>>

(* deleteOffice makes the main office the current one; the switch to it is  *)
(* blocked while something moves, and the floor stays the deleted office's. *)
DeleteOffice(o) ==
    /\ o \in offices \ {Main} /\ Spend("switches", MaxSwitches)
    /\ offices' = offices \ {o}
    /\ IF animating
       THEN /\ current' = IF current = o THEN Main ELSE current
            /\ Mishap("deleted during a walk", current = o)
            /\ UNCHANGED <<floor, animating>> /\ UNCHANGED people /\ UNCHANGED player /\ UNCHANGED walks
       ELSE /\ current' = Main
            /\ RebuildLayout(Main) /\ UNCHANGED mishaps

Animation == \/ Entered \/ Left
             \/ \E p \in Person : Arrive(p) \/ WalkedOut(p)
Next == \/ Animation
        \/ Enter \/ Exit \/ SkipWalkInAnimation
        \/ \E d \in Desk : Hire(d)
        \/ \E o \in Office, d \in Desk : SeatPersisted(o, d)
        \/ \E p \in Person : DismissReserveAgent(p)
        \/ \E o \in Office : SwitchToOffice(o) \/ DeleteOffice(o)
Spec == Init /\ [][Next]_floorVars

-----------------------------------------------------------------------------
(* The variables have their types.                                          *)
TypeOK ==
    /\ offices \subseteq Office /\ current \in offices /\ floor \in Office
    /\ seated \in [Office -> SUBSET Person] /\ taken \subseteq Desk
    /\ agents \subseteq Person /\ npcs \subseteq Person
    /\ walkIns \cup walkOuts \subseteq npcs
    /\ walkInAgents \subseteq Person /\ pendingWalkIns \in Int
    /\ {skipButton, animating, playerInScene, entering, leaving} \subseteq BOOLEAN

(* The flag that blocks a switch and a dismissal is up as long as an agent  *)
(* walks in, the count is that of the agents under way, and the skip button *)
(* would seat them all; and it comes down when nothing moves any more: no   *)
(* office is blocked for good.  Until the player goes out of the doors      *)
(* during a walk-in.                                                        *)
WalksAreCounted ==
    "left during a walk-in" \notin mishaps =>
        /\ pendingWalkIns = Cardinality(walkIns) /\ walkInAgents = walkIns
        /\ walkIns # {} => animating /\ skipButton
        /\ animating => walkIns # {} \/ entering \/ leaving

(* When nobody walks out, the agents on the floor, their stools, the global *)
(* roster and the seats that were saved for a restart are the same; unless  *)
(* Ringleader has hired an agent that was on its way out, or the office was *)
(* deleted while something moved.                                           *)
FloorIsAsSaved ==
    (mishaps \subseteq {"left during a walk-in"} /\ walkOuts = {} /\ floor \in Default) =>
        /\ seated[floor] = npcs /\ agents = npcs
        /\ taken = {p[2] : p \in npcs}

(* A seat is saved for an agent of the office itself; unless the office on  *)
(* the floor was deleted.                                                   *)
SeatsAreOwn ==
    "deleted during a walk" \notin mishaps => \A o \in Office : seated[o] \subseteq Of(o)
=============================================================================
