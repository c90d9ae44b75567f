--------------------------- MODULE TeamsConnections ---------------------------
(***************************************************************************)
(* The Teams connections of the agents: TeamsService's bindings of agents  *)
(* to channel threads, through registration, disconnection, pause and      *)
(* resume, the periodic reconciliation with the terminal sessions, the     *)
(* service's start and stop, the store on disk and crashes.                *)
(*                                                                         *)
(* The service is single-threaded: an action is what it does between two   *)
(* awaits, and the variables below named `tasks' say at which await each   *)
(* call is suspended.  Bindings are objects shared by reference (a         *)
(* suspended call may hold one that has left the list), so they live in a  *)
(* heap `obj'.  Channels, handles, titles and the 30-day clean-up of the   *)
(* store are left out; what a thread carries is ThreadInteractions.        *)
(***************************************************************************)
EXTENDS Naturals, Sequences, SequencesExt

CONSTANTS
    Agent,          \* agents that can be connected
    Orchestrator,   \* those exempt from pausing (isOrchestratorKey)
    MaxThreads,     \* bound: threads ever created for an agent
    MaxObjects,     \* bound: binding objects of an agent since the last crash
    MaxSessions,    \* bound: sessions of each agent
    MaxLeaving,     \* bound: goOffline calls of one agent under way
    MaxStarts,      \* bound: starts of the service
    MaxPauses,      \* bound: pauses
    MaxFailures,    \* bound: failed saves, failed or cancelled registrations
    Visit,          \* reconcile passes suspended in a visit to a binding
    OrderedWrites,  \* whether overlapping writes of the store end in order
    CalmStart       \* whether nothing else is under way while the service starts

ASSUME ConnectionsAssumption ==
    /\ Agent # {}
    /\ Orchestrator \subseteq Agent
    /\ MaxThreads \in Nat
    /\ MaxObjects \in Nat
    /\ MaxSessions \in Nat
    /\ MaxStarts \in Nat
    /\ MaxPauses \in Nat
    /\ MaxFailures \in Nat
    /\ MaxLeaving \in Nat
    /\ OrderedWrites \in BOOLEAN
    /\ CalmStart \in BOOLEAN

VARIABLES
    started,        \* TeamsService.started, with Teams enabled in the settings
    loading,        \* start() is reading the store
    starts,         \* starts so far
    agentsPaused,   \* TeamsService.agentsPaused
    pauses,         \* pauses so far
    tagLeft,        \* history: a resume has left the tag of a pause behind
    obj,            \* each agent's binding objects, in the order they were made
    threads,        \* threads created for each agent
    bound,          \* each agent's object in `bindings', 0 if none
    retained,       \* registrationThreads: each agent's object, 0 if none
    kept,           \* knownThreads' registrationBinding of each agent
    reg,            \* task: each agent's registration
    leaving,        \* task: goOffline calls awaiting their thread notices
    visit,          \* task: reconcile passes awaiting an answer
    restoring,      \* task: the restore of the orchestrator's presence
    resetting,      \* task: /new and /clear awaiting the new session
    saves,          \* store.save calls under way, in order
    disk,           \* the store
    failures,       \* failed saves so far
    forwarding,     \* agents whose events the terminal server mirrors
    session,        \* each agent's session id at the terminal server, 0 if none
    ready           \* agents whose session is alive and ready

flagVars == <<started, loading, starts, agentsPaused, pauses, tagLeft>>
serviceVars == <<flagVars, threads>>
memoryVars == <<obj, bound, retained, kept>>
adoptVars == <<restoring, resetting>>
taskVars == <<reg, leaving, visit, adoptVars>>
storeVars == <<saves, disk, failures>>
sessionVars == <<session, ready>>
vars == <<serviceVars, memoryVars, taskVars, storeVars, sessionVars, forwarding>>

Pausable == Agent \ Orchestrator
Object == 1..MaxObjects
NoObject == 0
Nothing == [thread |-> 0, session |-> 0, paused |-> FALSE]

(* A stored binding; thread 0 stands for no binding. *)
Stored == [thread : 0..MaxThreads, session : 0..MaxSessions, paused : BOOLEAN]
Image == [bindings : [Agent -> Stored], kept : [Agent -> Stored]]

Registration ==
    [pc : {"idle", "called", "ensuring", "creating", "saving", "saved",
           "failed", "retaining"},
     obj : Object \cup {NoObject}, cancelled : BOOLEAN, reconnect : BOOLEAN,
     wasOnline : BOOLEAN, session : 0..MaxSessions]

IdleReg == [pc |-> "idle", obj |-> NoObject, cancelled |-> FALSE,
            reconnect |-> FALSE, wasOnline |-> FALSE, session |-> 0]

IdleVisit == [pc |-> "idle", agent |-> CHOOSE a \in Agent : TRUE, obj |-> NoObject,
              session |-> 0, ready |-> FALSE]

NotRestored == [pc |-> "unloaded", obj |-> NoObject]
NoReset == [obj |-> NoObject, session |-> 0]

TypeOK ==
    /\ started \in BOOLEAN
    /\ loading \in BOOLEAN
    /\ starts \in 0..MaxStarts
    /\ agentsPaused \in BOOLEAN
    /\ pauses \in 0..MaxPauses
    /\ tagLeft \in BOOLEAN
    /\ obj \in [Agent -> Seq([thread : 1..MaxThreads, session : 1..MaxSessions,
                              online : BOOLEAN, paused : BOOLEAN])]
    /\ threads \in [Agent -> 0..MaxThreads]
    /\ \A a \in Agent :
          /\ Len(obj[a]) <= MaxObjects
          /\ bound[a] <= Len(obj[a])
          /\ retained[a] <= Len(obj[a])
          /\ reg[a].obj <= Len(obj[a])
    /\ bound \in [Agent -> Object \cup {NoObject}]
    /\ retained \in [Agent -> Object \cup {NoObject}]
    /\ kept \in [Agent -> Stored]
    /\ reg \in [Agent -> Registration]
    /\ leaving \in [Agent -> 0..MaxLeaving]
    /\ visit \in [Visit -> [pc : {"idle", "identifying", "probing"},
                            agent : Agent, obj : Object \cup {NoObject},
                            session : 0..MaxSessions, ready : BOOLEAN]]
    /\ restoring \in [Orchestrator -> [pc : {"unloaded", "due", "asking", "done"},
                                        obj : Object \cup {NoObject}]]
    /\ resetting \in [Agent -> [obj : Object \cup {NoObject}, session : 0..MaxSessions]]
    /\ saves \in Seq([image : Image, waiter : SUBSET Agent])
    /\ disk \in Image
    /\ failures \in 0..MaxFailures
    /\ forwarding \in SUBSET Agent
    /\ session \in [Agent -> 0..MaxSessions]
    /\ ready \in SUBSET Agent

Init ==
    /\ started = FALSE
    /\ loading = FALSE
    /\ starts = 0
    /\ agentsPaused = FALSE
    /\ pauses = 0
    /\ tagLeft = FALSE
    /\ obj = [a \in Agent |-> <<>>]
    /\ threads = [a \in Agent |-> 0]
    /\ bound = [a \in Agent |-> NoObject]
    /\ retained = [a \in Agent |-> NoObject]
    /\ kept = [a \in Agent |-> Nothing]
    /\ reg = [a \in Agent |-> IdleReg]
    /\ leaving = [a \in Agent |-> 0]
    /\ visit = [v \in Visit |-> IdleVisit]
    /\ restoring = [a \in Orchestrator |-> NotRestored]
    /\ resetting = [a \in Agent |-> NoReset]
    /\ saves = <<>>
    /\ disk = [bindings |-> [a \in Agent |-> Nothing], kept |-> [a \in Agent |-> Nothing]]
    /\ failures = 0
    /\ forwarding = {}
    /\ session = [a \in Agent |-> 0]
    /\ ready = {}

-----------------------------------------------------------------------------
(* Bindings and the store.                                                 *)

BoundOnline(a) == bound[a] # NoObject /\ obj[a][bound[a]].online

Copy(o) == [thread |-> o.thread, session |-> o.session, paused |-> o.paused]

(* What persist() writes: the objects in the list and the known threads.   *)
ImageOf(heap, list, retainedThreads) ==
    [bindings |-> [a \in Agent |-> IF list[a] = NoObject THEN Nothing ELSE Copy(heap[a][list[a]])],
     kept |-> retainedThreads]

(* persist(), with the agents whose registration awaits it.                *)
(* (Mutant: the image is taken before the change.)                         *)
PersistBefore(waiter) ==
    saves' = Append(saves, [image |-> ImageOf(obj, bound, kept), waiter |-> waiter])

Persist(waiter) ==
    saves' = Append(saves, [image |-> ImageOf(obj', bound', kept'), waiter |-> waiter])

(* The registrations of these agents are superseded: their `cancelled()'   *)
(* holds from now on.                                                      *)
Cancelled(agents) ==
    [a \in Agent |-> IF a \in agents /\ reg[a].pc # "idle"
                     THEN [reg[a] EXCEPT !.cancelled = TRUE] ELSE reg[a]]

(* A call can be made now. *)
Open == CalmStart => ~loading

(* A reconcile visit or a restore leaves alone what a registration owns.   *)
Contended(a) == reg[a].pc # "idle" \/ retained[a] # NoObject

-----------------------------------------------------------------------------
(* register(), registerOnce(), finishRegistration().                       *)

Register(a) ==
    /\ started
    /\ Open
    /\ reg[a].pc = "idle"
    /\ reg' = [reg EXCEPT ![a] = [IdleReg EXCEPT !.pc = "called"]]
    /\ UNCHANGED <<serviceVars, memoryVars, leaving, visit, adoptVars, storeVars,
                   sessionVars, forwarding>>

(* The registration ends without a binding. *)
RegisterEnds(a) ==
    /\ reg' = [reg EXCEPT ![a] = IdleReg]
    /\ UNCHANGED <<serviceVars, memoryVars, leaving, visit, adoptVars, storeVars,
                   sessionVars, forwarding>>

(* A paused binding is reported as it is, unless a registration is unfinished. *)
ReportedPaused(a) ==
    bound[a] # NoObject /\ obj[a][bound[a]].paused /\ retained[a] = NoObject

RegisterChecks(a) ==
    /\ reg[a].pc = "called"
    /\ IF reg[a].cancelled \/ ReportedPaused(a)
       THEN RegisterEnds(a)
       ELSE /\ reg' = [reg EXCEPT ![a].pc = "ensuring"]
            /\ UNCHANGED <<serviceVars, memoryVars, leaving, visit, adoptVars,
                           storeVars, sessionVars, forwarding>>

(* The lifecycle's 60-second deadline passes. *)
DeadlinePasses(a) ==
    /\ reg[a].pc # "idle"
    /\ ~reg[a].cancelled
    /\ failures < MaxFailures
    /\ failures' = failures + 1
    /\ reg' = Cancelled({a})
    /\ UNCHANGED <<serviceVars, memoryVars, leaving, visit, adoptVars, saves, disk,
                   sessionVars, forwarding>>

(* finishRegistration up to its persist(), for object o of the agent's     *)
(* objects `heap'.                                                         *)
FinishBegins(a, o, heap, reconnect) ==
    /\ obj' = [obj EXCEPT ![a] = [heap EXCEPT ![o].paused =
                                      agentsPaused /\ a \notin Orchestrator]]
    /\ retained' = [retained EXCEPT ![a] = o]
    /\ kept' = IF kept[a].thread = heap[o].thread THEN [kept EXCEPT ![a] = Nothing] ELSE kept
    /\ bound' = IF bound[a] = NoObject THEN [bound EXCEPT ![a] = o] ELSE bound
    /\ reg' = [reg EXCEPT ![a] = [pc |-> "saving", obj |-> o, session |-> 0,
                                  cancelled |-> @.cancelled, reconnect |-> reconnect,
                                  wasOnline |-> heap[o].online]]
    /\ Persist({a})
    /\ UNCHANGED <<flagVars, leaving, visit, adoptVars, disk, failures,
                   sessionVars, forwarding>>

(* The thread the agent still owns: its binding's, or one retained from an *)
(* unfinished registration.  (Mutant: only what is in the list.)           *)
BoundOnly(a) == bound[a]

Existing(a) == IF bound[a] # NoObject THEN bound[a] ELSE retained[a]

(* The session was ensured and identified: reuse the agent's thread or     *)
(* go on to create one.                                                    *)
RegisterIdentifies(a) ==
    /\ reg[a].pc = "ensuring"
    /\ IF reg[a].cancelled \/ session[a] = 0
       THEN RegisterEnds(a)
       ELSE IF Existing(a) # NoObject
       THEN FinishBegins(a, Existing(a), [obj[a] EXCEPT ![Existing(a)].session = session[a]], TRUE)
            /\ UNCHANGED threads
       ELSE /\ reg' = [reg EXCEPT ![a].pc = "creating", ![a].session = session[a]]
            /\ UNCHANGED <<serviceVars, memoryVars, leaving, visit, adoptVars,
                           storeVars, sessionVars, forwarding>>

(* Cancelled before the thread was created, or Graph refuses it. *)
RegisterFailsToCreate(a) ==
    /\ reg[a].pc = "creating"
    /\ \/ reg[a].cancelled /\ UNCHANGED failures
       \/ failures < MaxFailures /\ failures' = failures + 1
    /\ reg' = [reg EXCEPT ![a] = IdleReg]
    /\ UNCHANGED <<serviceVars, memoryVars, leaving, visit, adoptVars, saves, disk,
                   sessionVars, forwarding>>

(* retainRegistrationThread: the thread is remembered for the next attempt. *)
Retain(a, o) == kept' = [kept EXCEPT ![a] = Copy(o)]

(* createThread returns: the thread exists from now on, whatever follows.  *)
(* It is bound to the session that was identified before.                  *)
RegisterCreates(a) ==
    LET o == Len(obj[a]) + 1
        made == [thread |-> threads[a] + 1, session |-> reg[a].session, online |-> FALSE,
                 paused |-> agentsPaused /\ a \notin Orchestrator] IN
    /\ reg[a].pc = "creating"
    /\ o <= MaxObjects
    /\ threads[a] < MaxThreads
    /\ threads' = [threads EXCEPT ![a] = @ + 1]
    /\ IF reg[a].cancelled
       THEN /\ obj' = [obj EXCEPT ![a] = Append(@, made)]
            /\ retained' = [retained EXCEPT ![a] = o]
            /\ Retain(a, made)
            /\ reg' = [reg EXCEPT ![a].pc = "retaining", ![a].session = 0]
            /\ UNCHANGED bound
            /\ Persist({a})
            /\ UNCHANGED <<flagVars, leaving, visit, adoptVars, disk, failures,
                           sessionVars, forwarding>>
       ELSE FinishBegins(a, o, Append(obj[a], made), FALSE)

(* A re-registration that goes wrong leaves a connection that still works. *)
Preserved(a) ==
    /\ reg[a].reconnect
    /\ reg[a].wasOnline
    /\ obj[a][reg[a].obj].online
    /\ bound[a] = reg[a].obj

PausedInPlace(a) == obj[a][reg[a].obj].paused /\ bound[a] = reg[a].obj

(* What settles the registration while its binding is where it should be.  *)
RegisterSettles(a) ==
    /\ retained' = [retained EXCEPT ![a] = NoObject]
    /\ reg' = [reg EXCEPT ![a] = IdleReg]
    /\ UNCHANGED <<serviceVars, bound, kept, leaving, visit, adoptVars, storeVars,
                   sessionVars>>

RegisterSucceeds(a) ==
    LET o == reg[a].obj
        online == ~obj[a][o].paused IN
    /\ reg[a].pc = "saved"
    /\ ~reg[a].cancelled
    /\ obj' = [obj EXCEPT ![a][o].online = online]
    /\ forwarding' = IF online THEN forwarding \cup {a} ELSE forwarding \ {a}
    /\ RegisterSettles(a)

RegisterPreserves(a) ==
    /\ \/ /\ reg[a].pc = "saved"
          /\ reg[a].cancelled
          /\ Preserved(a) \/ PausedInPlace(a)
       \/ /\ reg[a].pc = "failed"
          /\ Preserved(a)
    /\ RegisterSettles(a)
    /\ UNCHANGED <<obj, forwarding>>

(* Cancelled during its save: the binding stays down, its thread is kept.  *)
RegisterRetains(a) ==
    LET o == reg[a].obj IN
    /\ reg[a].pc = "saved"
    /\ reg[a].cancelled
    /\ ~Preserved(a)
    /\ ~PausedInPlace(a)
    /\ obj' = [obj EXCEPT ![a][o].online = FALSE]
    /\ Retain(a, obj[a][o])
    /\ reg' = [reg EXCEPT ![a].pc = "retaining"]
    /\ UNCHANGED <<bound, retained>>
    /\ Persist({a})
    /\ UNCHANGED <<serviceVars, leaving, visit, adoptVars, disk, failures,
                   sessionVars, forwarding>>

(* The save failed: the binding stays down, its thread is kept in memory.  *)
RegisterNotSaved(a) ==
    LET o == reg[a].obj IN
    /\ reg[a].pc = "failed"
    /\ ~Preserved(a)
    /\ obj' = [obj EXCEPT ![a][o].online = FALSE]
    /\ Retain(a, obj[a][o])
    /\ forwarding' = forwarding \ {a}
    /\ reg' = [reg EXCEPT ![a] = IdleReg]
    /\ UNCHANGED <<serviceVars, bound, retained, leaving, visit, adoptVars, storeVars,
                   sessionVars>>

-----------------------------------------------------------------------------
(* goOffline(): from the app, from /stop, from a session's end and from    *)
(* reconcile.                                                              *)

(* Once its notices are posted (or at once if there is none to post): the  *)
(* agent's binding, whichever it is by now, leaves the list.               *)
Leave(a) ==
    /\ forwarding' = forwarding \ {a}
    /\ bound' = [bound EXCEPT ![a] = NoObject]
    /\ UNCHANGED <<obj, retained, kept>>
    /\ Persist({})

(* A binding that is online or paused gets a notice, and the post is awaited. *)
NoticeDue(a) == obj[a][bound[a]].online \/ obj[a][bound[a]].paused

GoesOffline(a) ==
    /\ reg' = Cancelled({a})
    /\ \/ /\ bound[a] = NoObject
          /\ UNCHANGED <<memoryVars, leaving, saves, forwarding>>
       \/ /\ bound[a] # NoObject
          /\ NoticeDue(a)
          /\ leaving[a] < MaxLeaving
          /\ leaving' = [leaving EXCEPT ![a] = @ + 1]
          /\ UNCHANGED <<memoryVars, saves, forwarding>>
       \/ /\ bound[a] # NoObject
          /\ ~NoticeDue(a)
          /\ Leave(a)
          /\ UNCHANGED leaving
    /\ UNCHANGED <<serviceVars, adoptVars, disk, failures>>

GoOffline(a) ==
    /\ Open
    /\ GoesOffline(a)
    /\ UNCHANGED <<visit, sessionVars>>

GoOfflineEnds(a) ==
    /\ leaving[a] > 0
    /\ leaving' = [leaving EXCEPT ![a] = @ - 1]
    /\ Leave(a)
    /\ UNCHANGED <<serviceVars, reg, visit, adoptVars, disk, failures, sessionVars>>

-----------------------------------------------------------------------------
(* pauseAgentConnections(), resumeAgentConnections().                      *)

(* Every binding is tagged, the offline ones that may reconnect included.  *)
Tagged == {a \in Pausable : bound[a] # NoObject}

(* The heap with `change' made to the bound objects of these agents.       *)
Paused(o) == [o EXCEPT !.paused = TRUE, !.online = FALSE]
Unpaused(o) == [o EXCEPT !.paused = FALSE]

Changed(agents, change(_)) ==
    [a \in Agent |-> IF a \in agents
                     THEN [obj[a] EXCEPT ![bound[a]] = change(@)] ELSE obj[a]]

Pause ==
    /\ started
    /\ Open
    /\ pauses < MaxPauses
    /\ pauses' = pauses + 1
    /\ reg' = Cancelled(Pausable)
    /\ obj' = Changed(Tagged, Paused)
    /\ forwarding' = forwarding \ {a \in Pausable : BoundOnline(a)}
    /\ agentsPaused' = TRUE
    /\ UNCHANGED <<bound, retained, kept>>
    /\ Persist({})
    /\ UNCHANGED <<started, loading, starts, tagLeft, threads, leaving, visit, adoptVars, disk,
                   failures, sessionVars>>

(* A tag on a thread that is not, or not only, in the list. *)
Tags == \E a \in Pausable : \/ kept[a].paused
                            \/ retained[a] # NoObject /\ obj[a][retained[a]].paused

Resume ==
    /\ started
    /\ Open
    /\ agentsPaused
    /\ obj' = Changed({a \in Agent : bound[a] # NoObject}, Unpaused)
    /\ agentsPaused' = FALSE
    /\ UNCHANGED <<bound, retained, kept>>
    /\ tagLeft' = (tagLeft \/ Tags')
    /\ IF obj' = obj THEN UNCHANGED saves ELSE Persist({})
    /\ UNCHANGED <<started, loading, starts, threads, pauses, taskVars, disk, failures,
                   sessionVars, forwarding>>

-----------------------------------------------------------------------------
(* reconcile(), one binding at a time; onSessionExit();                    *)
(* reonlineToCurrentSession().                                             *)

(* What a pass visits. (Mutants: only what is offline, only what is online.) *)
VisitedIfOffline(a) == bound[a] # NoObject /\ ~Contended(a) /\ ~BoundOnline(a)

VisitedIfOnline(a) == ~Contended(a) /\ BoundOnline(a)

Visited(a) == bound[a] # NoObject /\ ~Contended(a)

(* The pass asks for the session of the agent's binding. *)
VisitBegins(v, a) ==
    /\ started
    /\ Open
    /\ visit[v].pc = "idle"
    /\ Visited(a)
    /\ visit' = [visit EXCEPT ![v] = [IdleVisit EXCEPT !.pc = "identifying",
                                                       !.agent = a, !.obj = bound[a],
                                                       !.session = session[a]]]
    /\ UNCHANGED <<serviceVars, memoryVars, reg, leaving, adoptVars, storeVars,
                   sessionVars, forwarding>>

(* What the pass checks again after each await.                            *)
(* (Mutant: it does not.)                                                  *)
TrustsItsVisit(v) == started

StillValid(v) ==
    LET a == visit[v].agent IN
    started /\ bound[a] = visit[v].obj /\ ~Contended(a)

VisitEnds(v) == visit' = [visit EXCEPT ![v] = IdleVisit]

VisitIdentifies(v) ==
    LET a == visit[v].agent
        o == visit[v].obj IN
    /\ visit[v].pc = "identifying"
    /\ IF StillValid(v) /\ obj[a][o].online /\ visit[v].session # obj[a][o].session
       THEN /\ GoesOffline(a)
            /\ VisitEnds(v)
            /\ UNCHANGED sessionVars
       ELSE /\ IF StillValid(v) /\ ~obj[a][o].online /\ ~obj[a][o].paused
                    /\ visit[v].session # 0 /\ visit[v].session = obj[a][o].session
               THEN visit' = [visit EXCEPT ![v].pc = "probing", ![v].ready = a \in ready]
               ELSE VisitEnds(v)
            /\ UNCHANGED <<serviceVars, memoryVars, reg, leaving, adoptVars, storeVars,
                           sessionVars, forwarding>>

(* The session is ready: the binding is back online. (The code saves once, *)
(* at the end of the pass: nothing a save writes changes here.)            *)
VisitReconnects(v) ==
    LET a == visit[v].agent
        o == visit[v].obj IN
    /\ visit[v].pc = "probing"
    /\ VisitEnds(v)
    /\ IF visit[v].ready /\ StillValid(v) /\ ~obj[a][o].paused
       THEN /\ obj' = [obj EXCEPT ![a][o].online = TRUE]
            /\ forwarding' = forwarding \cup {a}
            /\ UNCHANGED <<bound, retained, kept>>
            /\ Persist({})
       ELSE UNCHANGED <<memoryVars, forwarding, saves>>
    /\ UNCHANGED <<serviceVars, reg, leaving, adoptVars, disk, failures, sessionVars>>

(* The restore of the orchestrator's presence, once after the application  *)
(* loaded a binding of it: reonlineToCurrentSession adopts the session of  *)
(* the day.                                                                *)
RestoreBegins(a) ==
    /\ started
    /\ Open
    /\ restoring[a].pc = "due"
    /\ restoring' = [restoring EXCEPT ![a] =
                        IF bound[a] = NoObject \/ BoundOnline(a)
                        THEN [pc |-> "done", obj |-> NoObject]
                        ELSE [pc |-> "asking", obj |-> bound[a]]]
    /\ UNCHANGED <<serviceVars, memoryVars, reg, leaving, visit, resetting, storeVars,
                   sessionVars, forwarding>>

RestoreEnds(a) ==
    LET o == restoring[a].obj IN
    /\ restoring[a].pc = "asking"
    /\ restoring' = [restoring EXCEPT ![a] = [pc |-> "done", obj |-> NoObject]]
    /\ IF started /\ session[a] # 0 /\ a \in ready
       THEN /\ obj' = [obj EXCEPT ![a][o].session = session[a], ![a][o].online = TRUE]
            /\ forwarding' = forwarding \cup {a}
            /\ UNCHANGED <<bound, retained, kept>>
            /\ Persist({})
       ELSE UNCHANGED <<memoryVars, forwarding, saves>>
    /\ UNCHANGED <<serviceVars, reg, leaving, visit, resetting, disk, failures, sessionVars>>

(* /new and /clear in the thread: the terminal server kills the terminal   *)
(* and mints a session id, which the binding then adopts.                  *)
ResetBegins(a) ==
    /\ started
    /\ Open
    /\ BoundOnline(a)
    /\ resetting[a] = NoReset
    /\ session[a] < MaxSessions
    /\ session' = [session EXCEPT ![a] = @ + 1]
    /\ ready' = ready \ {a}
    /\ resetting' = [resetting EXCEPT ![a] = [obj |-> bound[a], session |-> session'[a]]]
    /\ UNCHANGED <<serviceVars, memoryVars, reg, leaving, visit, restoring, storeVars,
                   forwarding>>

ResetEnds(a) ==
    /\ resetting[a] # NoReset
    /\ obj' = [obj EXCEPT ![a][resetting[a].obj].session = resetting[a].session]
    /\ resetting' = [resetting EXCEPT ![a] = NoReset]
    /\ UNCHANGED <<bound, retained, kept>>
    /\ Persist({})
    /\ UNCHANGED <<serviceVars, reg, leaving, visit, restoring, disk, failures,
                   sessionVars, forwarding>>

-----------------------------------------------------------------------------
(* The terminal sessions.                                                  *)

SessionOpens(a) ==
    /\ session[a] < MaxSessions
    /\ session' = [session EXCEPT ![a] = @ + 1]
    /\ ready' = ready \ {a}
    /\ UNCHANGED <<serviceVars, memoryVars, taskVars, storeVars, forwarding>>

SessionReady(a) ==
    /\ session[a] # 0
    /\ a \notin ready
    /\ ready' = ready \cup {a}
    /\ UNCHANGED <<serviceVars, memoryVars, taskVars, storeVars, session, forwarding>>

(* A terminal exits; the service hears of it if it mirrors an online agent. *)
SessionExits(a) ==
    /\ a \in ready
    /\ ready' = ready \ {a}
    /\ IF started /\ ~loading /\ BoundOnline(a)
       THEN GoesOffline(a)
       ELSE UNCHANGED <<serviceVars, memoryVars, reg, leaving, adoptVars, storeVars,
                        forwarding>>
    /\ UNCHANGED <<visit, session>>

-----------------------------------------------------------------------------
(* start(), stop(), the store and crashes.                                 *)

(* No call of an earlier run of the service is suspended. *)
Quiet ==
    /\ saves = <<>>
    /\ \A a \in Agent : reg[a].pc = "idle" /\ leaving[a] = 0
    /\ \A v \in Visit : visit[v].pc = "idle"
    /\ \A a \in Orchestrator : restoring[a].pc # "asking"
    /\ \A a \in Agent : resetting[a] = NoReset

Start ==
    /\ ~started
    /\ ~loading
    /\ CalmStart => Quiet
    /\ starts < MaxStarts
    /\ starts' = starts + 1
    /\ started' = TRUE
    /\ loading' = TRUE
    /\ UNCHANGED <<agentsPaused, pauses, tagLeft, threads, memoryVars, taskVars, storeVars,
                   sessionVars, forwarding>>

(* The objects made of the store: each agent's binding, then its kept thread. *)
(* (Mutants: the session is not read back; not set offline.)               *)
WokenSessionless(stored) ==
    IF stored.thread = 0 THEN <<>>
    ELSE <<[thread |-> stored.thread, session |-> 0,
            online |-> FALSE, paused |-> stored.paused]>>

WokenOnline(stored) ==
    IF stored.thread = 0 THEN <<>>
    ELSE <<[thread |-> stored.thread, session |-> stored.session,
            online |-> TRUE, paused |-> stored.paused]>>

Woken(stored) ==
    IF stored.thread = 0 THEN <<>>
    ELSE <<[thread |-> stored.thread, session |-> stored.session,
            online |-> FALSE, paused |-> stored.paused]>>

Loaded(image) ==
    /\ obj' = [a \in Agent |-> obj[a] \o Woken(image.bindings[a]) \o Woken(image.kept[a])]
    /\ bound' = [a \in Agent |-> IF image.bindings[a].thread = 0 THEN NoObject
                                 ELSE Len(obj[a]) + 1]
    /\ retained' = [a \in Agent |-> IF image.kept[a].thread = 0 THEN NoObject
                                    ELSE Len(obj'[a])]
    /\ kept' = image.kept

(* agentsPaused, recomputed from the bindings and the kept threads.        *)
PausedIn(image) ==
    \E a \in Pausable : image.bindings[a].paused \/ image.kept[a].paused

StartLoads ==
    /\ loading
    /\ loading' = FALSE
    /\ Loaded(disk)
    /\ \A a \in Agent : Len(obj'[a]) <= MaxObjects
    /\ agentsPaused' = PausedIn(disk)
    /\ restoring' = [a \in Orchestrator |->
                        IF restoring[a].pc # "unloaded" THEN restoring[a]
                        ELSE [NotRestored EXCEPT !.pc =
                                IF bound'[a] = NoObject THEN "done" ELSE "due"]]
    /\ UNCHANGED <<started, starts, pauses, tagLeft, threads, reg, leaving, visit,
                   resetting, storeVars, sessionVars, forwarding>>

Stop ==
    /\ started
    /\ started' = FALSE
    /\ reg' = Cancelled(Agent)
    /\ forwarding' = forwarding \ {a \in Agent : BoundOnline(a)}
    /\ UNCHANGED <<loading, starts, agentsPaused, pauses, tagLeft, threads, memoryVars,
                   leaving, visit, adoptVars, storeVars, sessionVars>>

(* A save ends: the store holds its image, the registration awaiting it    *)
(* goes on.                                                                *)
Resumed(waiter, outcome) ==
    [a \in Agent |-> IF a \notin waiter THEN reg[a]
                     ELSE IF reg[a].pc = "retaining" THEN IdleReg
                     ELSE [reg[a] EXCEPT !.pc = outcome]]

SaveEnds(n) ==
    /\ n \in DOMAIN saves
    /\ OrderedWrites => n = 1
    /\ saves' = RemoveAt(saves, n)
    /\ \/ /\ disk' = saves[n].image
          /\ reg' = Resumed(saves[n].waiter, "saved")
          /\ UNCHANGED failures
       \/ /\ failures < MaxFailures
          /\ failures' = failures + 1
          /\ reg' = Resumed(saves[n].waiter, "failed")
          /\ UNCHANGED disk
    /\ UNCHANGED <<serviceVars, memoryVars, leaving, visit, adoptVars, sessionVars,
                   forwarding>>

(* The application dies, its terminal server and its unfinished writes with it. *)
Crash ==
    /\ started' = FALSE
    /\ loading' = FALSE
    /\ agentsPaused' = FALSE
    /\ obj' = [a \in Agent |-> <<>>]
    /\ bound' = [a \in Agent |-> NoObject]
    /\ retained' = [a \in Agent |-> NoObject]
    /\ kept' = [a \in Agent |-> Nothing]
    /\ reg' = [a \in Agent |-> IdleReg]
    /\ leaving' = [a \in Agent |-> 0]
    /\ visit' = [v \in Visit |-> IdleVisit]
    /\ restoring' = [a \in Orchestrator |-> NotRestored]
    /\ resetting' = [a \in Agent |-> NoReset]
    /\ saves' = <<>>
    /\ forwarding' = {}
    /\ ready' = {}
    /\ UNCHANGED <<starts, pauses, tagLeft, threads, disk, failures, session>>

Next ==
    \/ \E a \in Agent :
          \/ Register(a) \/ RegisterChecks(a) \/ DeadlinePasses(a)
          \/ RegisterIdentifies(a) \/ RegisterFailsToCreate(a) \/ RegisterCreates(a)
          \/ RegisterSucceeds(a) \/ RegisterPreserves(a) \/ RegisterRetains(a)
          \/ RegisterNotSaved(a)
          \/ GoOffline(a) \/ GoOfflineEnds(a) \/ ResetBegins(a) \/ ResetEnds(a)
          \/ SessionOpens(a) \/ SessionReady(a) \/ SessionExits(a)
          \/ \E v \in Visit : VisitBegins(v, a)
    \/ \E v \in Visit : VisitIdentifies(v) \/ VisitReconnects(v)
    \/ \E a \in Orchestrator : RestoreBegins(a) \/ RestoreEnds(a)
    \/ Pause \/ Resume \/ Start \/ StartLoads \/ Stop \/ Crash
    \/ \E n \in DOMAIN saves : SaveEnds(n)

Spec == Init /\ [][Next]_vars

(* Awaited answers, posts and writes arrive, and the reconcile timer keeps *)
(* firing while the service runs.  What the users, the sessions and the    *)
(* environment do is their choice.                                         *)
Fairness ==
    /\ \A a \in Agent :
          /\ WF_vars(RegisterChecks(a) \/ RegisterIdentifies(a)
                       \/ RegisterFailsToCreate(a) \/ RegisterCreates(a)
                       \/ RegisterSucceeds(a) \/ RegisterPreserves(a)
                       \/ RegisterRetains(a) \/ RegisterNotSaved(a))
          /\ WF_vars(GoOfflineEnds(a))
          /\ WF_vars(ResetEnds(a))
          /\ WF_vars(\E v \in Visit : VisitBegins(v, a))
    /\ \A v \in Visit : WF_vars(VisitIdentifies(v) \/ VisitReconnects(v))
    /\ WF_vars(\E n \in DOMAIN saves : SaveEnds(n))
    /\ WF_vars(StartLoads)

FairSpec == Spec /\ Fairness

-----------------------------------------------------------------------------
(* Safety.                                                                 *)

(* While the connections are paused no office agent is online: neither a   *)
(* registration nor a reconcile pass that was under way when the pause     *)
(* came brings one back (register's pauseEpoch, reconcile's re-checks).    *)
(* Except once a resume has left the tag of a pause on a thread that is not *)
(* listed: the next start takes it for a pause of the office (PausedIn)    *)
(* while the other agents, whose tags are gone, reconnect.                 *)
PausedStaysDark ==
    agentsPaused /\ ~tagLeft => \A a \in Pausable : ~BoundOnline(a)

(* An online agent is mirrored: nobody is shown as online in Teams while   *)
(* the terminal server withholds its events (setForwarding).  The restore  *)
(* of the orchestrator does not promise it: it revives the binding it found *)
(* before its awaits, whatever has become of it.                           *)
OnlineIsMirrored ==
    started /\ ~loading => \A a \in Pausable : BoundOnline(a) => a \in forwarding

(* finishRegistration: mirroring is kept on "for the WHOLE time the agent  *)
(* is online" and is "Disabled again in goOffline": an agent without an    *)
(* online binding is not mirrored.                                         *)
MirroredOnlyWhileOnline ==
    \A a \in Agent : a \in forwarding => BoundOnline(a)

(* An agent has one thread: the binding in the list and the thread that an *)
(* unfinished registration retained never differ, whatever was cancelled,  *)
(* failed or restarted ("Offline and partially-created bindings still own  *)
(* their thread").                                                         *)
OneThread ==
    \A a \in Agent : bound[a] # NoObject /\ retained[a] # NoObject =>
        obj[a][bound[a]].thread = obj[a][retained[a]].thread

(* With no write under way and none failed, the store holds what the       *)
(* service holds: a crash at that point loses no binding, no retained      *)
(* thread and no pause.                                                    *)
StoreIsCurrent ==
    (started /\ ~loading /\ saves = <<>> /\ failures = 0)
        => disk = ImageOf(obj, bound, kept)

(* The variables have their types, the terminal server mirrors the office  *)
(* agents that are online, and the disk holds what the service holds.      *)
ConnectionsAreMirrored == TypeOK /\ OnlineIsMirrored /\ StoreIsCurrent

-----------------------------------------------------------------------------
(* Liveness.                                                               *)

Stale(a) == started /\ ~loading /\ BoundOnline(a) /\ obj[a][bound[a]].session # session[a]

(* FR-022: an agent whose session was replaced does not stay online in its *)
(* old thread.                                                             *)
StaleSessionLeaves == \A a \in Agent : Stale(a) ~> ~Stale(a)

Reconnectable(a) ==
    /\ started
    /\ ~loading
    /\ bound[a] # NoObject
    /\ ~Contended(a)
    /\ ~obj[a][bound[a]].online
    /\ ~obj[a][bound[a]].paused
    /\ obj[a][bound[a]].session = session[a]
    /\ a \in ready

(* FR-024: a stored agent whose session is back and ready reconnects.      *)
ReadySessionReconnects == \A a \in Agent : Reconnectable(a) ~> ~Reconnectable(a)

(* An agent is online where its session is.                                *)
SessionsDecide == StaleSessionLeaves /\ ReadySessionReconnects

=============================================================================
