----------------------- MODULE TeamsConnections_proofs -------------------------
(* Proofs about TeamsConnections.  An action changes a few agents or moves *)
(* the whole service (a pause, a start, a crash): the lemmas show that an  *)
(* agent nobody touches keeps its part of the invariant, and that what is  *)
(* saved is an image a start can load.                                     *)
EXTENDS TeamsConnections, SequenceTheorems, TLAPS

Obj == [thread : 1..MaxThreads, session : 1..MaxSessions, online : BOOLEAN, paused : BOOLEAN]
Heap == [Agent -> Seq(Obj)]
Save == [image : Image, waiter : SUBSET Agent]

(* A registration that has an object awaits a save of it, or its result.   *)
Holds(a) == reg[a].pc \in {"saving", "saved", "failed"}

-----------------------------------------------------------------------------
(* Objects and heaps.                                                      *)

LEMMA Editing ==
  ASSUME NEW h \in Seq(Obj), NEW o, NEW r, o \in DOMAIN h => r \in Obj,
         NEW g, g = [h EXCEPT ![o] = r]
  PROVE  /\ g \in Seq(Obj) /\ Len(g) = Len(h) /\ DOMAIN g = DOMAIN h
         /\ \A q \in DOMAIN h : g[q] = IF q = o THEN r ELSE h[q]
  <1>1. /\ Len(h) \in Nat /\ DOMAIN h = 1..Len(h)
        /\ \A q \in DOMAIN h : h[q] \in Obj
    BY LenProperties, ElementOfSeq
  <1>2. /\ DOMAIN g = DOMAIN h
        /\ \A q \in DOMAIN h : g[q] = IF q = o THEN r ELSE h[q]
        /\ g = [q \in DOMAIN h |-> IF q = o THEN r ELSE h[q]]
    <2>1. h = [q \in DOMAIN h |-> h[q]]
      BY LenProperties
    <2> QED BY <2>1
  <1>3. g \in [1..Len(h) -> Obj]
    BY <1>1, <1>2
  <1>4. g \in Seq(Obj) /\ Len(g) = Len(h)
    <2>1. g \in Seq(Obj)
      BY <1>1, <1>3, SeqDef
    <2> QED BY <2>1, <1>1, <1>2, LenProperties
  <1> QED BY <1>2, <1>4

LEMMA SetFields ==
  ASSUME NEW r \in Obj
  PROVE  /\ \A v \in BOOLEAN :
               /\ [r EXCEPT !.online = v] \in Obj
               /\ [r EXCEPT !.online = v].thread = r.thread
               /\ [r EXCEPT !.online = v].session = r.session
               /\ [r EXCEPT !.online = v].online = v
               /\ [r EXCEPT !.online = v].paused = r.paused
         /\ \A v \in BOOLEAN :
               /\ [r EXCEPT !.paused = v] \in Obj
               /\ [r EXCEPT !.paused = v].thread = r.thread
               /\ [r EXCEPT !.paused = v].session = r.session
               /\ [r EXCEPT !.paused = v].online = r.online
               /\ [r EXCEPT !.paused = v].paused = v
         /\ \A s \in 1..MaxSessions :
               /\ [r EXCEPT !.session = s] \in Obj
               /\ [r EXCEPT !.session = s].thread = r.thread
               /\ [r EXCEPT !.session = s].session = s
               /\ [r EXCEPT !.session = s].online = r.online
               /\ [r EXCEPT !.session = s].paused = r.paused
  BY DEF Obj

(* From one heap to another, one agent's objects may differ.               *)
Differs(f, g, a, o) ==
    /\ g \in Heap
    /\ \A c \in Agent : c # a => g[c] = f[c]
    /\ DOMAIN g[a] = DOMAIN f[a] /\ Len(g[a]) = Len(f[a])
    /\ \A q \in DOMAIN f[a] :
          /\ q # o => g[a][q] = f[a][q]
          /\ g[a][q].thread = f[a][q].thread

Edited(f, g, a, o, r) == g = [f EXCEPT ![a] = [f[a] EXCEPT ![o] = r]]

LEMMA HeapDiffers ==
  ASSUME NEW f \in Heap, NEW a \in Agent, NEW o, NEW r, NEW g, Edited(f, g, a, o, r),
         o \in DOMAIN f[a] => r \in Obj /\ r.thread = f[a][o].thread
  PROVE  Differs(f, g, a, o) /\ (o \in DOMAIN f[a] => g[a][o] = r)
  <1>1. f[a] \in Seq(Obj) /\ g = [f EXCEPT ![a] = [f[a] EXCEPT ![o] = r]]
    BY DEF Heap, Edited
  <1>2. /\ g[a] = [f[a] EXCEPT ![o] = r]
        /\ \A c \in Agent : c # a => g[c] = f[c]
        /\ g = [c \in Agent |-> IF c = a THEN g[a] ELSE f[c]]
    BY <1>1 DEF Heap
  <1>3. /\ g[a] \in Seq(Obj) /\ Len(g[a]) = Len(f[a]) /\ DOMAIN g[a] = DOMAIN f[a]
        /\ \A q \in DOMAIN f[a] : g[a][q] = IF q = o THEN r ELSE f[a][q]
    BY <1>1, <1>2, Editing
  <1>4. g \in Heap
    BY <1>2, <1>3 DEF Heap
  <1> QED BY <1>2, <1>3, <1>4 DEF Differs

-----------------------------------------------------------------------------
(* Types.                                                                  *)

FlagTypes ==
    /\ started \in BOOLEAN /\ loading \in BOOLEAN /\ starts \in 0..MaxStarts
    /\ agentsPaused \in BOOLEAN /\ pauses \in 0..MaxPauses /\ tagLeft \in BOOLEAN
    /\ failures \in 0..MaxFailures
RegTypes == reg \in [Agent -> Registration]
ListTypes ==
    /\ obj \in Heap
    /\ threads \in [Agent -> 0..MaxThreads]
    /\ bound \in [Agent -> Object \cup {NoObject}]
    /\ retained \in [Agent -> Object \cup {NoObject}]
    /\ kept \in [Agent -> Stored]
InHeap(a) ==
    /\ Len(obj[a]) <= MaxObjects /\ bound[a] <= Len(obj[a]) /\ retained[a] <= Len(obj[a])
    /\ reg[a].obj <= Len(obj[a])
TaskTypes ==
    /\ leaving \in [Agent -> 0..MaxLeaving]
    /\ visit \in [Visit -> [pc : {"idle", "identifying", "probing"},
                            agent : Agent, obj : Object \cup {NoObject},
                            session : 0..MaxSessions, ready : BOOLEAN]]
    /\ restoring \in [Orchestrator -> [pc : {"unloaded", "due", "asking", "done"},
                                        obj : Object \cup {NoObject}]]
    /\ resetting \in [Agent -> [obj : Object \cup {NoObject}, session : 0..MaxSessions]]
StoreTypes == saves \in Seq(Save) /\ disk \in Image
SessionTypes ==
    forwarding \in SUBSET Agent /\ session \in [Agent -> 0..MaxSessions] /\ ready \in SUBSET Agent

Types == /\ FlagTypes /\ RegTypes /\ ListTypes /\ (\A a \in Agent : InHeap(a))
         /\ TaskTypes /\ StoreTypes /\ SessionTypes

LEMMA TypesAreOK == Types => TypeOK
  BY DEF Types, FlagTypes, RegTypes, ListTypes, InHeap, TaskTypes, StoreTypes, SessionTypes,
         TypeOK, Heap, Obj, Save

LEMMA Constants ==
  /\ MaxThreads \in Nat /\ MaxObjects \in Nat /\ MaxSessions \in Nat /\ MaxStarts \in Nat
  /\ MaxPauses \in Nat /\ MaxFailures \in Nat /\ MaxLeaving \in Nat
  /\ NoObject = 0 /\ NoObject \notin Object /\ Object = 1..MaxObjects
  /\ Pausable \subseteq Agent /\ Orchestrator \subseteq Agent /\ Pausable \cap Orchestrator = {}
  /\ Nothing \in Stored /\ IdleReg \in Registration
  /\ IdleReg.pc = "idle" /\ IdleReg.obj = NoObject /\ IdleReg.session = 0
  /\ ~IdleReg.cancelled /\ ~IdleReg.reconnect /\ ~IdleReg.wasOnline
  /\ Nothing.thread = 0 /\ Nothing.session = 0 /\ Nothing.paused = FALSE
  BY ConnectionsAssumption DEF NoObject, Object, Pausable, Nothing, Stored, IdleReg, Registration

(* An object in the list or retained is in the heap.                       *)
LEMMA References ==
  ASSUME ListTypes, NEW a \in Agent, InHeap(a), RegTypes
  PROVE  /\ obj[a] \in Seq(Obj) /\ Len(obj[a]) \in Nat /\ DOMAIN obj[a] = 1..Len(obj[a])
         /\ \A q \in DOMAIN obj[a] : obj[a][q] \in Obj
         /\ bound[a] # NoObject => bound[a] \in DOMAIN obj[a]
         /\ retained[a] # NoObject => retained[a] \in DOMAIN obj[a]
         /\ reg[a].obj # NoObject => reg[a].obj \in DOMAIN obj[a]
  <1>1. /\ obj[a] \in Seq(Obj) /\ Len(obj[a]) \in Nat /\ DOMAIN obj[a] = 1..Len(obj[a])
        /\ \A q \in DOMAIN obj[a] : obj[a][q] \in Obj
    BY LenProperties, ElementOfSeq DEF ListTypes, Heap
  <1>2. /\ bound[a] \in Object \cup {NoObject} /\ retained[a] \in Object \cup {NoObject}
        /\ reg[a].obj \in Object \cup {NoObject}
    BY DEF ListTypes, RegTypes, Registration
  <1> QED BY <1>1, <1>2, Constants DEF InHeap

-----------------------------------------------------------------------------
(* The invariant of an agent's memory.                                     *)

Linked(a) ==
    /\ Holds(a) => /\ reg[a].obj # NoObject /\ retained[a] = reg[a].obj
                   /\ bound[a] \in {NoObject, reg[a].obj}
                   /\ kept[a].thread = 0
    /\ reg[a].pc = "creating" =>
          bound[a] = NoObject /\ retained[a] = NoObject /\ reg[a].session # 0
SameThread(a) ==
    /\ bound[a] # NoObject /\ retained[a] # NoObject =>
          obj[a][bound[a]].thread = obj[a][retained[a]].thread
    /\ kept[a].thread # 0 =>
          /\ retained[a] # NoObject /\ obj[a][retained[a]].thread = kept[a].thread
          /\ kept[a].session # 0
Dark(a) ==
    a \in Pausable /\ retained[a] # NoObject /\ ~Holds(a) => ~obj[a][retained[a]].online
Obeys(a) ==
    a \in Pausable /\ ~tagLeft =>
        /\ agentsPaused /\ bound[a] # NoObject =>
              obj[a][bound[a]].paused /\ ~obj[a][bound[a]].online
        /\ ~agentsPaused => /\ ~kept[a].paused
                            /\ retained[a] # NoObject => ~obj[a][retained[a]].paused
                            /\ bound[a] # NoObject => ~obj[a][bound[a]].paused
Mirrored(a) ==
    a \in Pausable /\ started /\ ~loading /\ BoundOnline(a) => a \in forwarding

AgentInv(a) == Linked(a) /\ SameThread(a) /\ Dark(a) /\ Obeys(a) /\ Mirrored(a)

(* What a step may do to a registration that has no object.                *)
SameReg(a) == /\ reg'[a].pc = reg[a].pc /\ reg'[a].obj = reg[a].obj
              /\ reg'[a].session = reg[a].session
Advances(a) ==
    /\ reg[a].pc \in {"idle", "called", "ensuring", "creating"}
    /\ reg'[a].obj \in {NoObject, reg[a].obj}
    /\ \/ reg'[a].pc \in {"idle", "called", "ensuring"}
       \/ /\ reg'[a].pc = "creating" /\ reg'[a].session # 0
          /\ bound[a] = NoObject /\ retained[a] = NoObject
    /\ reg[a].pc = "idle" => Open
Gentle == reg' \in [Agent -> Registration] /\ \A a \in Agent : SameReg(a) \/ Advances(a)

MemorySame(a) ==
    obj'[a] = obj[a] /\ bound'[a] = bound[a] /\ retained'[a] = retained[a] /\ kept'[a] = kept[a]
FlagsSame == started' = started /\ loading' = loading /\ agentsPaused' = agentsPaused /\ tagLeft' = tagLeft

LEMMA Bystander ==
  ASSUME NEW a \in Agent, AgentInv(a), MemorySame(a), SameReg(a) \/ Advances(a),
         tagLeft' = tagLeft, agentsPaused' = agentsPaused,
         started' /\ ~loading' =>
            started /\ ~loading /\ (a \in forwarding => a \in forwarding')
  PROVE  AgentInv(a)'
  <1>1. Holds(a)' <=> Holds(a)
    BY DEF SameReg, Advances, Holds
  <1>2. Linked(a)'
    BY <1>1 DEF AgentInv, Linked, MemorySame, SameReg, Advances, Holds
  <1>3. SameThread(a)'
    BY DEF AgentInv, SameThread, MemorySame
  <1>4. Dark(a)'
    BY <1>1 DEF AgentInv, Dark, MemorySame
  <1>5. Obeys(a)'
    BY DEF AgentInv, Obeys, MemorySame
  <1>6. Mirrored(a)'
    BY DEF AgentInv, Mirrored, MemorySame, BoundOnline
  <1> QED BY <1>2, <1>3, <1>4, <1>5, <1>6 DEF AgentInv

LEMMA CancelledReg ==
  ASSUME RegTypes, NEW A, NEW a \in Agent
  PROVE  /\ Cancelled(A) \in [Agent -> Registration]
         /\ Cancelled(A)[a].pc = reg[a].pc /\ Cancelled(A)[a].obj = reg[a].obj
         /\ Cancelled(A)[a].session = reg[a].session
         /\ a \notin A => Cancelled(A)[a] = reg[a]
         /\ reg[a].pc = "idle" => Cancelled(A)[a] = reg[a]
         /\ a \in A /\ reg[a].pc # "idle" => Cancelled(A)[a].cancelled
  <1>1. ASSUME NEW c \in Agent
        PROVE  /\ Cancelled(A)[c] \in Registration
               /\ Cancelled(A)[c].pc = reg[c].pc /\ Cancelled(A)[c].obj = reg[c].obj
               /\ Cancelled(A)[c].session = reg[c].session
               /\ c \notin A => Cancelled(A)[c] = reg[c]
               /\ reg[c].pc = "idle" => Cancelled(A)[c] = reg[c]
               /\ c \in A /\ reg[c].pc # "idle" => Cancelled(A)[c].cancelled
    <2>1. reg[c] \in Registration
      BY DEF RegTypes
    <2>2. Cancelled(A)[c] = IF c \in A /\ reg[c].pc # "idle"
                            THEN [reg[c] EXCEPT !.cancelled = TRUE] ELSE reg[c]
      BY DEF Cancelled
    <2>3. [reg[c] EXCEPT !.cancelled = TRUE] \in Registration
      BY <2>1 DEF Registration
    <2>4. /\ [reg[c] EXCEPT !.cancelled = TRUE].pc = reg[c].pc
          /\ [reg[c] EXCEPT !.cancelled = TRUE].obj = reg[c].obj
          /\ [reg[c] EXCEPT !.cancelled = TRUE].session = reg[c].session
          /\ [reg[c] EXCEPT !.cancelled = TRUE].cancelled = TRUE
      BY <2>1 DEF Registration
    <2> QED BY <2>1, <2>2, <2>3, <2>4
  <1>2. Cancelled(A) \in [Agent -> Registration]
    BY <1>1 DEF Cancelled
  <1> QED BY <1>1, <1>2

-----------------------------------------------------------------------------
(* The steps that change an agent's memory.                                *)

Memory ==
    /\ FlagTypes /\ RegTypes /\ ListTypes /\ SessionTypes /\ TaskTypes
    /\ \A a \in Agent : InHeap(a) /\ AgentInv(a)

Moved(a) ==
    /\ ListTypes' /\ RegTypes' /\ FlagsSame
    /\ \A c \in Agent : c # a => /\ MemorySame(c) /\ SameReg(c)
                                 /\ c \in forwarding => c \in forwarding'
    /\ InHeap(a)' /\ AgentInv(a)'

LEMMA FinishMoves ==
  ASSUME Memory, NEW a \in Agent, NEW h \in Seq(Obj), NEW o \in DOMAIN h, NEW rc \in BOOLEAN,
         FinishBegins(a, o, h, rc), threads' \in [Agent -> 0..MaxThreads],
         reg[a].pc \in {"ensuring", "creating"},
         Len(h) <= MaxObjects,
         bound[a] # NoObject => o = bound[a],
         bound[a] = NoObject /\ retained[a] # NoObject => o = retained[a],
         Existing(a) = NoObject => ~h[o].online,
         Existing(a) # NoObject => /\ o \in DOMAIN obj[a] /\ h[o].thread = obj[a][o].thread
                                   /\ h[o].online = obj[a][o].online
  PROVE  Moved(a) /\ reg'[a].pc = "saving" /\ reg'[a].obj = o
  <1>1. /\ InHeap(a) /\ AgentInv(a) /\ ListTypes /\ RegTypes /\ FlagTypes
        /\ reg[a] \in Registration
    BY DEF Memory, RegTypes
  <1>2. /\ DOMAIN h = 1..Len(h) /\ Len(h) \in Nat /\ h[o] \in Obj
        /\ o \in Object /\ o # NoObject
    BY LenProperties, ElementOfSeq, Constants
  <1> DEFINE p == agentsPaused /\ a \notin Orchestrator
             g == [h EXCEPT ![o].paused = p]
  <1>3. /\ g \in Seq(Obj) /\ Len(g) = Len(h) /\ DOMAIN g = DOMAIN h
        /\ g[o].thread = h[o].thread /\ g[o].online = h[o].online /\ g[o].paused = p
    <2>1. p \in BOOLEAN
      BY <1>1 DEF FlagTypes
    <2>2. g = [h EXCEPT ![o] = [h[o] EXCEPT !.paused = p]]
      OBVIOUS
    <2> HIDE DEF g, p
    <2>3. PICK r : r = [h[o] EXCEPT !.paused = p]
      OBVIOUS
    <2>4. r \in Obj /\ r.thread = h[o].thread /\ r.online = h[o].online /\ r.paused = p
      BY <2>1, <2>3, <1>2, SetFields
    <2>5. g = [h EXCEPT ![o] = r]
      BY <2>2, <2>3
    <2> QED BY <2>4, <2>5, Editing
  <1>4. /\ obj' = [obj EXCEPT ![a] = g]
        /\ retained' = [retained EXCEPT ![a] = o]
        /\ kept' = IF kept[a].thread = h[o].thread THEN [kept EXCEPT ![a] = Nothing] ELSE kept
        /\ bound' = IF bound[a] = NoObject THEN [bound EXCEPT ![a] = o] ELSE bound
        /\ reg' = [reg EXCEPT ![a] = [pc |-> "saving", obj |-> o, session |-> 0,
                              cancelled |-> reg[a].cancelled, reconnect |-> rc,
                              wasOnline |-> h[o].online]]
        /\ started' = started /\ loading' = loading /\ agentsPaused' = agentsPaused
        /\ tagLeft' = tagLeft /\ forwarding' = forwarding
    BY DEF FinishBegins, flagVars
  <1> HIDE DEF g
  <1>5. /\ obj'[a] = g /\ retained'[a] = o
        /\ kept'[a] = IF kept[a].thread = h[o].thread THEN Nothing ELSE kept[a]
        /\ bound'[a] = o
        /\ reg'[a].pc = "saving" /\ reg'[a].obj = o
    BY <1>1, <1>4 DEF ListTypes, Heap, RegTypes
  <1>6. RegTypes'
    <2>1. PICK r : r = [pc |-> "saving", obj |-> o, session |-> 0,
                              cancelled |-> reg[a].cancelled, reconnect |-> rc,
                              wasOnline |-> h[o].online]
      OBVIOUS
    <2>2. r \in Registration
      BY <2>1, <1>1, <1>2, Constants DEF Registration, Obj
    <2>3. reg' = [reg EXCEPT ![a] = r]
      BY <2>1, <1>4
    <2> QED BY <2>2, <2>3, <1>1 DEF RegTypes
  <1>7. ListTypes'
    BY <1>1, <1>2, <1>3, <1>4, Constants DEF ListTypes, Heap
  <1>8. \A c \in Agent : c # a => MemorySame(c) /\ SameReg(c)
    BY <1>1, <1>4 DEF MemorySame, SameReg, ListTypes, RegTypes, Heap
  <1>9. InHeap(a)'
    BY <1>2, <1>3, <1>5, Constants DEF InHeap
  <1>10. kept'[a].thread = 0 /\ (kept'[a] = kept[a] \/ kept'[a] = Nothing)
    BY <1>1, <1>5, Constants DEF AgentInv, SameThread, Existing
  <1>11. AgentInv(a)'
    <2>1. Linked(a)' /\ Dark(a)'
      BY <1>2, <1>5, <1>10 DEF Linked, Dark, Holds
    <2>2. SameThread(a)'
      BY <1>5, <1>10 DEF SameThread
    <2>3. /\ a \in Pausable /\ o # bound[a] => ~h[o].online
          /\ o = bound[a] => h[o].online = obj[a][bound[a]].online
      BY <1>1, <1>2 DEF AgentInv, Dark, Existing, Holds
    <2>4. a \in Pausable => p = agentsPaused
      BY <1>1, Constants DEF FlagTypes
    <2> HIDE DEF p
    <2>5. Obeys(a)'
      BY <1>1, <1>2, <1>3, <1>4, <1>5, <1>10, <2>3, <2>4, Constants DEF AgentInv, Obeys
    <2>6. Mirrored(a)'
      BY <1>1, <1>2, <1>3, <1>4, <1>5, <2>3 DEF AgentInv, Mirrored, BoundOnline
    <2> QED BY <2>1, <2>2, <2>5, <2>6 DEF AgentInv
  <1> QED BY <1>4, <1>5, <1>6, <1>7, <1>8, <1>9, <1>11 DEF Moved, FlagsSame

LEMMA IdentifyMoves ==
  ASSUME Memory, NEW a \in Agent, RegisterIdentifies(a),
         ~reg[a].cancelled, session[a] # 0, Existing(a) # NoObject
  PROVE  /\ Moved(a) /\ reg'[a].pc = "saving" /\ Persist({a})
         /\ UNCHANGED <<started, loading, starts, agentsPaused, pauses, tagLeft, failures,
                        leaving, visit, restoring, resetting, disk, session, ready, forwarding>>
  <1> DEFINE o == Existing(a)
             h == [obj[a] EXCEPT ![o].session = session[a]]
  <1>1. /\ InHeap(a) /\ AgentInv(a) /\ ListTypes /\ RegTypes /\ SessionTypes
    BY DEF Memory
  <1>2. FinishBegins(a, o, h, TRUE) /\ UNCHANGED threads /\ reg[a].pc = "ensuring"
    BY DEF RegisterIdentifies
  <1>3. /\ o \in DOMAIN obj[a] /\ obj[a] \in Seq(Obj) /\ obj[a][o] \in Obj
        /\ session[a] \in 1..MaxSessions
    BY <1>1, References, Constants DEF Existing, SessionTypes
  <1>4. /\ h \in Seq(Obj) /\ Len(h) = Len(obj[a]) /\ DOMAIN h = DOMAIN obj[a]
        /\ h[o].thread = obj[a][o].thread /\ h[o].online = obj[a][o].online
    <2>1. h = [obj[a] EXCEPT ![o] = [obj[a][o] EXCEPT !.session = session[a]]]
      OBVIOUS
    <2> HIDE DEF h, o
    <2>2. PICK r : r = [obj[a][o] EXCEPT !.session = session[a]]
      OBVIOUS
    <2>3. r \in Obj /\ r.thread = obj[a][o].thread /\ r.online = obj[a][o].online
      BY <2>2, <1>3, SetFields
    <2>4. h = [obj[a] EXCEPT ![o] = r]
      BY <2>1, <2>2
    <2> QED BY <2>3, <2>4, <1>3, Editing
  <1>5. /\ bound[a] # NoObject => o = bound[a]
        /\ bound[a] = NoObject /\ retained[a] # NoObject => o = retained[a]
    BY DEF Existing
  <1>6. threads' \in [Agent -> 0..MaxThreads] /\ Len(h) <= MaxObjects
    BY <1>1, <1>2, <1>4 DEF ListTypes, InHeap
  <1> HIDE DEF h
  <1>7. Moved(a) /\ reg'[a].pc = "saving"
    BY <1>2, <1>3, <1>4, <1>5, <1>6, FinishMoves
  <1> QED BY <1>2, <1>7 DEF FinishBegins, flagVars, adoptVars, sessionVars

LEMMA CreateMoves ==
  ASSUME Memory, NEW a \in Agent, RegisterCreates(a)
  PROVE  /\ Moved(a) /\ reg'[a].pc \in {"saving", "retaining"} /\ Persist({a})
         /\ UNCHANGED <<started, loading, starts, agentsPaused, pauses, tagLeft, failures,
                        leaving, visit, restoring, resetting, disk, session, ready, forwarding>>
  <1> DEFINE o == Len(obj[a]) + 1
             made == [thread |-> threads[a] + 1, session |-> reg[a].session, online |-> FALSE,
                      paused |-> agentsPaused /\ a \notin Orchestrator]
             h == Append(obj[a], made)
  <1>1. /\ InHeap(a) /\ AgentInv(a) /\ ListTypes /\ RegTypes /\ FlagTypes
        /\ reg[a] \in Registration
    BY DEF Memory, RegTypes
  <1>2. /\ bound[a] = NoObject /\ retained[a] = NoObject /\ reg[a].session \in 1..MaxSessions
        /\ reg[a].pc = "creating" /\ kept[a].thread = 0 /\ Existing(a) = NoObject
    BY <1>1, Constants DEF RegisterCreates, AgentInv, Linked, SameThread, Registration, Existing
  <1>3. /\ obj[a] \in Seq(Obj) /\ Len(obj[a]) \in Nat /\ o \in Object /\ o <= MaxObjects
    BY <1>1, References, Constants DEF RegisterCreates
  <1>4. made \in Obj /\ ~made.online /\ made.thread # 0
        /\ (made.paused = (agentsPaused /\ a \notin Orchestrator))
        /\ made.thread = threads[a] + 1 /\ made.session = reg[a].session
    BY <1>1, <1>2, Constants DEF RegisterCreates, Obj, ListTypes, FlagTypes
  <1>5. threads' \in [Agent -> 0..MaxThreads]
    BY <1>1, Constants DEF RegisterCreates, ListTypes
  <1>6. CASE ~reg[a].cancelled
    <2>1. FinishBegins(a, o, h, FALSE)
      BY <1>6 DEF RegisterCreates
    <2> HIDE DEF made
    <2>2. /\ h \in Seq(Obj) /\ Len(h) = Len(obj[a]) + 1 /\ h[o] = made /\ o \in DOMAIN h
      BY <1>3, <1>4, AppendProperties
    <2> HIDE DEF h
    <2>3. Moved(a) /\ reg'[a].pc = "saving"
      BY <1>2, <1>3, <1>4, <1>5, <2>1, <2>2, FinishMoves
    <2> QED BY <2>1, <2>3 DEF FinishBegins, flagVars, adoptVars, sessionVars
  <1>7. CASE reg[a].cancelled
    <2>1. /\ obj' = [obj EXCEPT ![a] = h] /\ retained' = [retained EXCEPT ![a] = o]
          /\ kept' = [kept EXCEPT ![a] = Copy(made)] /\ bound' = bound
          /\ reg' = [reg EXCEPT ![a].pc = "retaining", ![a].session = 0]
          /\ Persist({a})
          /\ UNCHANGED <<started, loading, starts, agentsPaused, pauses, tagLeft, failures,
                        leaving, visit, restoring, resetting, disk, session, ready, forwarding>>
      BY <1>7 DEF RegisterCreates, Retain, flagVars, adoptVars, sessionVars
    <2> HIDE DEF made
    <2>2. /\ h \in Seq(Obj) /\ Len(h) = Len(obj[a]) + 1 /\ h[o] = made
      BY <1>3, <1>4, AppendProperties
    <2> HIDE DEF h
    <2>3. /\ Copy(made) \in Stored /\ Copy(made).thread = made.thread
          /\ Copy(made).session = made.session /\ Copy(made).paused = made.paused
      BY <1>4, Constants DEF Copy, Stored, Obj
    <2>4. /\ RegTypes' /\ reg'[a].pc = "retaining" /\ reg'[a].obj = reg[a].obj
          /\ \A c \in Agent : c # a => reg'[c] = reg[c]
      <3>1. PICK r : r = [reg[a] EXCEPT !.pc = "retaining", !.session = 0]
        OBVIOUS
      <3>2. r \in Registration /\ r.pc = "retaining" /\ r.obj = reg[a].obj
        BY <3>1, <1>1, Constants DEF Registration
      <3>3. reg' = [reg EXCEPT ![a] = r]
        BY <2>1, <3>1, <1>1 DEF RegTypes
      <3> QED BY <3>2, <3>3, <1>1 DEF RegTypes
    <2>5. /\ obj'[a] = h /\ retained'[a] = o /\ kept'[a] = Copy(made) /\ bound'[a] = NoObject
      BY <2>1, <1>1, <1>2 DEF ListTypes, Heap
    <2>6. ListTypes'
      BY <1>1, <1>3, <1>5, <2>1, <2>2, <2>3, Constants DEF ListTypes, Heap
    <2>7. \A c \in Agent : c # a => MemorySame(c) /\ SameReg(c)
      BY <1>1, <2>1, <2>4 DEF MemorySame, SameReg, ListTypes, Heap
    <2>8. InHeap(a)'
      BY <1>1, <1>3, <2>2, <2>4, <2>5, Constants DEF InHeap, Registration
    <2>9. AgentInv(a)'
      <3>1. Linked(a)' /\ Dark(a)'
        BY <2>2, <2>4, <2>5, <1>4 DEF Linked, Dark, Holds
      <3>2. SameThread(a)'
        BY <2>2, <2>3, <2>5, <1>2, <1>3, <1>4, Constants DEF SameThread
      <3>3. Obeys(a)'
        BY <2>1, <2>2, <2>3, <2>5, <1>4, Constants DEF Obeys
      <3>4. Mirrored(a)'
        BY <2>5 DEF Mirrored, BoundOnline
      <3> QED BY <3>1, <3>2, <3>3, <3>4 DEF AgentInv
    <2> QED BY <2>1, <2>4, <2>6, <2>7, <2>8, <2>9 DEF Moved, FlagsSame
  <1> QED BY <1>6, <1>7

SameImage == ImageOf(obj', bound', kept') = ImageOf(obj, bound, kept)

LEMMA SameImages ==
  ASSUME ListTypes, RegTypes, \A c \in Agent : InHeap(c),
         \A c \in Agent : \A q \in DOMAIN obj[c] : Copy(obj'[c][q]) = Copy(obj[c][q]),
         UNCHANGED <<bound, kept>>
  PROVE  SameImage
  <1>1. \A c \in Agent : bound[c] # NoObject => Copy(obj'[c][bound[c]]) = Copy(obj[c][bound[c]])
    BY References
  <1> QED BY <1>1 DEF SameImage, ImageOf

LEMMA SettleMoves ==
  ASSUME Memory, NEW a \in Agent, RegisterSucceeds(a) \/ RegisterPreserves(a)
  PROVE  /\ Moved(a) /\ reg[a].pc \in {"saved", "failed"} /\ reg'[a].pc = "idle" /\ SameImage
         /\ UNCHANGED <<started, loading, starts, agentsPaused, pauses, tagLeft, failures,
                        leaving, visit, restoring, resetting, saves, disk, session, ready>>
  <1>1. /\ InHeap(a) /\ AgentInv(a) /\ ListTypes /\ RegTypes /\ reg[a] \in Registration
        /\ \A c \in Agent : InHeap(c)
    BY DEF Memory, RegTypes
  <1>2. /\ reg[a].pc \in {"saved", "failed"} /\ retained' = [retained EXCEPT ![a] = NoObject]
        /\ reg' = [reg EXCEPT ![a] = IdleReg] /\ bound' = bound /\ kept' = kept
        /\ UNCHANGED <<started, loading, starts, agentsPaused, pauses, tagLeft, failures, threads,
                       leaving, visit, restoring, resetting, saves, disk, session, ready>>
    BY DEF RegisterSucceeds, RegisterPreserves, RegisterSettles, serviceVars, flagVars, adoptVars,
           storeVars, sessionVars
  <1> DEFINE o == reg[a].obj
  <1>3. /\ o # NoObject /\ retained[a] = o /\ bound[a] \in {NoObject, o} /\ kept[a].thread = 0
        /\ o \in DOMAIN obj[a] /\ obj[a][o] \in Obj
    BY <1>1, <1>2, References DEF AgentInv, Linked, Holds
  <1>4. /\ Differs(obj, obj', a, o)
        /\ obj'[a][o].paused = obj[a][o].paused
        /\ \A c \in Agent : \A q \in DOMAIN obj[c] : Copy(obj'[c][q]) = Copy(obj[c][q])
        /\ \/ obj' = obj /\ forwarding' = forwarding
           \/ /\ obj'[a][o].online = ~obj[a][o].paused
              /\ forwarding' = IF ~obj[a][o].paused THEN forwarding \cup {a} ELSE forwarding \ {a}
    <2>1. CASE RegisterSucceeds(a)
      <3>1. obj' = [obj EXCEPT ![a][o].online = ~obj[a][o].paused]
        BY <2>1 DEF RegisterSucceeds
      <3>2. obj \in Heap /\ obj[a][o].paused \in BOOLEAN
        BY <1>1, <1>3 DEF ListTypes, Obj
      <3> HIDE DEF o
      <3>3. PICK v \in BOOLEAN : v = ~obj[a][o].paused
        BY <3>2
      <3>4. PICK r : r = [obj[a][o] EXCEPT !.online = v]
        OBVIOUS
      <3>7. /\ r \in Obj /\ r.thread = obj[a][o].thread /\ r.session = obj[a][o].session
            /\ r.online = v /\ r.paused = obj[a][o].paused
        BY <3>4, <1>3, SetFields
      <3>8. Edited(obj, obj', a, o, r)
        BY <3>1, <3>3, <3>4 DEF Edited
      <3>9. Copy(r) = Copy(obj[a][o])
        BY <3>7 DEF Copy
      <3>10. PICK g : g = obj'
        OBVIOUS
      <3>15. Differs(obj, g, a, o) /\ g[a][o] = r
        BY <1>3, <3>2, <3>7, <3>8, <3>10, HeapDiffers
      <3>13. /\ Differs(obj, g, a, o) /\ g[a][o] = r
             /\ \A c \in Agent : \A q \in DOMAIN obj[c] : Copy(g[c][q]) = Copy(obj[c][q])
        BY <3>9, <3>15 DEF Differs
      <3>5. /\ Differs(obj, obj', a, o)
            /\ obj'[a][o].paused = obj[a][o].paused /\ obj'[a][o].online = v
            /\ \A c \in Agent : \A q \in DOMAIN obj[c] : Copy(obj'[c][q]) = Copy(obj[c][q])
        BY <3>7, <3>10, <3>13
      <3>6. forwarding' = IF ~obj[a][o].paused THEN forwarding \cup {a} ELSE forwarding \ {a}
        BY <2>1 DEF RegisterSucceeds, o
      <3> QED BY <3>3, <3>5, <3>6
    <2>2. CASE RegisterPreserves(a)
      BY <2>2, <1>1 DEF RegisterPreserves, Differs, ListTypes, Heap
    <2> QED BY <2>1, <2>2
  <1>5. /\ reg'[a] = IdleReg /\ retained'[a] = NoObject
        /\ \A c \in Agent : c # a => MemorySame(c) /\ SameReg(c)
                                     /\ (c \in forwarding => c \in forwarding')
    BY <1>1, <1>2, <1>4 DEF ListTypes, RegTypes, MemorySame, SameReg, Differs
  <1>6. RegTypes' /\ ListTypes'
    BY <1>1, <1>2, <1>4, Constants DEF RegTypes, ListTypes, Differs
  <1>7. InHeap(a)'
    BY <1>1, <1>2, <1>4, <1>5, References, Constants DEF InHeap, Differs
  <1>8. AgentInv(a)'
    <2>1. Linked(a)' /\ SameThread(a)' /\ Dark(a)'
      BY <1>2, <1>3, <1>5, Constants DEF Linked, SameThread, Dark, Holds
    <2>2. Obeys(a)'
      BY <1>1, <1>2, <1>3, <1>4, <1>5 DEF AgentInv, Obeys
    <2>3. Mirrored(a)'
      BY <1>1, <1>2, <1>3, <1>4 DEF AgentInv, Mirrored, BoundOnline
    <2> QED BY <2>1, <2>2, <2>3 DEF AgentInv
  <1>9. SameImage
    BY <1>1, <1>2, <1>4, SameImages
  <1> QED BY <1>2, <1>5, <1>6, <1>7, <1>8, <1>9, Constants DEF Moved, FlagsSame

LEMMA RetainMoves ==
  ASSUME Memory, NEW a \in Agent, RegisterRetains(a) \/ RegisterNotSaved(a)
  PROVE  /\ Moved(a)
         /\ \/ reg[a].pc = "saved" /\ reg'[a].pc = "retaining" /\ Persist({a})
            \/ reg[a].pc = "failed" /\ reg'[a].pc = "idle" /\ saves' = saves
         /\ UNCHANGED <<started, loading, starts, agentsPaused, pauses, tagLeft, failures,
                        leaving, visit, restoring, resetting, disk, session, ready>>
  <1>1. /\ InHeap(a) /\ AgentInv(a) /\ ListTypes /\ RegTypes /\ reg[a] \in Registration
        /\ obj \in Heap
    BY DEF Memory, RegTypes, ListTypes
  <1> DEFINE o == reg[a].obj
  <1>2. /\ obj' = [obj EXCEPT ![a][o].online = FALSE]
        /\ kept' = [kept EXCEPT ![a] = Copy(obj[a][o])] /\ bound' = bound /\ retained' = retained
        /\ UNCHANGED <<started, loading, starts, agentsPaused, pauses, tagLeft, failures, threads,
                       leaving, visit, restoring, resetting, disk, session, ready>>
        /\ \A c \in Agent : c # a => (c \in forwarding => c \in forwarding')
    BY DEF RegisterRetains, RegisterNotSaved, Retain, serviceVars, flagVars, adoptVars,
           storeVars, sessionVars
  <1>3. /\ reg[a].pc \in {"saved", "failed"}
        /\ o # NoObject /\ retained[a] = o /\ bound[a] \in {NoObject, o}
        /\ o \in DOMAIN obj[a] /\ obj[a][o] \in Obj
    BY <1>1, References DEF AgentInv, Linked, Holds, RegisterRetains, RegisterNotSaved
  <1>4. /\ Differs(obj, obj', a, o) /\ ~obj'[a][o].online
        /\ obj'[a][o].paused = obj[a][o].paused /\ obj'[a][o].thread = obj[a][o].thread
    <2> HIDE DEF o
    <2>3. PICK r : r = [obj[a][o] EXCEPT !.online = FALSE]
      OBVIOUS
    <2>4. /\ r \in Obj /\ r.thread = obj[a][o].thread /\ r.session = obj[a][o].session
          /\ r.online = FALSE /\ r.paused = obj[a][o].paused
      BY <2>3, <1>3, SetFields
    <2>5. Edited(obj, obj', a, o, r)
      BY <1>2, <2>3 DEF Edited
    <2>7. PICK g : g = obj'
      OBVIOUS
    <2>10. Differs(obj, g, a, o) /\ g[a][o] = r
      BY <1>1, <1>3, <2>4, <2>5, <2>7, HeapDiffers
    <2>1. /\ Differs(obj, obj', a, o) /\ ~obj'[a][o].online
          /\ obj'[a][o].paused = obj[a][o].paused
      BY <2>4, <2>7, <2>10
    <2> QED BY <2>1, <1>3 DEF Differs
  <1>5. /\ RegTypes' /\ reg'[a].obj \in {o, NoObject}
        /\ \A c \in Agent : c # a => SameReg(c)
        /\ \/ reg[a].pc = "saved" /\ reg'[a].pc = "retaining" /\ Persist({a})
           \/ reg[a].pc = "failed" /\ reg'[a].pc = "idle" /\ saves' = saves
    <2>1. CASE RegisterRetains(a)
      <3>1. reg' = [reg EXCEPT ![a].pc = "retaining"] /\ Persist({a}) /\ reg[a].pc = "saved"
        BY <2>1 DEF RegisterRetains
      <3>2. /\ reg' \in [Agent -> Registration] /\ reg'[a].pc = "retaining"
            /\ reg'[a].obj = reg[a].obj /\ \A c \in Agent : c # a => reg'[c] = reg[c]
        <4>1. PICK r : r = [reg[a] EXCEPT !.pc = "retaining"]
          OBVIOUS
        <4>2. r \in Registration /\ r.pc = "retaining" /\ r.obj = reg[a].obj
          BY <4>1, <1>1 DEF Registration
        <4>3. reg' = [reg EXCEPT ![a] = r]
          BY <3>1, <4>1
        <4> QED BY <4>2, <4>3, <1>1 DEF RegTypes
      <3> QED BY <3>1, <3>2 DEF RegTypes, SameReg
    <2>2. CASE RegisterNotSaved(a)
      <3>1. reg' = [reg EXCEPT ![a] = IdleReg] /\ saves' = saves /\ reg[a].pc = "failed"
        BY <2>2 DEF RegisterNotSaved, storeVars
      <3>2. reg'[a] = IdleReg /\ (\A c \in Agent : c # a => reg'[c] = reg[c])
        BY <3>1, <1>1 DEF RegTypes
      <3>3. RegTypes'
        BY <3>1, <1>1, Constants DEF RegTypes
      <3>4. IdleReg.obj = NoObject /\ IdleReg.pc = "idle"
        BY DEF IdleReg
      <3>5. reg'[a].obj \in {o, NoObject} /\ reg'[a].pc = "idle"
        BY <3>2, <3>4
      <3>6. \A c \in Agent : c # a => SameReg(c)
        BY <3>2 DEF SameReg
      <3> QED BY <3>1, <3>3, <3>5, <3>6
    <2> QED BY <2>1, <2>2
  <1>6. /\ Copy(obj[a][o]) \in Stored /\ Copy(obj[a][o]).thread = obj[a][o].thread
        /\ Copy(obj[a][o]).session # 0 /\ Copy(obj[a][o]).paused = obj[a][o].paused
    BY <1>3, Constants DEF Copy, Stored, Obj
  <1>7. ListTypes' /\ kept'[a] = Copy(obj[a][o])
    BY <1>1, <1>2, <1>4, <1>6 DEF ListTypes, Differs
  <1>8. \A c \in Agent : c # a => MemorySame(c)
    BY <1>1, <1>2, <1>4 DEF MemorySame, Differs, ListTypes
  <1>9. InHeap(a)'
    <2> HIDE DEF o
    <2>1. Len(obj'[a]) = Len(obj[a]) /\ Len(obj[a]) \in Nat
      BY <1>1, <1>4, References DEF Differs
    <2>2. bound' = bound /\ retained' = retained
      BY <1>2
    <2>3. reg'[a].obj <= Len(obj[a])
      <3>1. o <= Len(obj[a])
        BY <1>1 DEF InHeap, o
      <3>2. NoObject <= Len(obj[a])
        BY <2>1, Constants
      <3> QED BY <1>5, <3>1, <3>2
    <2> QED BY <1>1, <2>1, <2>2, <2>3 DEF InHeap
  <1>10. AgentInv(a)'
    <2> HIDE DEF o
    <2>1. Linked(a)' /\ Dark(a)'
      BY <1>2, <1>3, <1>4, <1>5 DEF Linked, Dark, Holds
    <2>2. SameThread(a)'
      BY <1>2, <1>3, <1>4, <1>6, <1>7 DEF SameThread
    <2>3. Obeys(a)'
      BY <1>1, <1>2, <1>3, <1>4, <1>6, <1>7 DEF AgentInv, Obeys
    <2>4. Mirrored(a)'
      BY <1>2, <1>3, <1>4 DEF Mirrored, BoundOnline
    <2> QED BY <2>1, <2>2, <2>3, <2>4 DEF AgentInv
  <1> QED BY <1>2, <1>5, <1>7, <1>8, <1>9, <1>10 DEF Moved, FlagsSame

LEMMA LeaveMoves ==
  ASSUME Memory, NEW a \in Agent, Leave(a), reg' = reg \/ reg' = Cancelled({a}),
         UNCHANGED serviceVars
  PROVE  Moved(a) /\ Persist({})
  <1>1. /\ InHeap(a) /\ AgentInv(a) /\ ListTypes /\ RegTypes
    BY DEF Memory
  <1>2. /\ bound' = [bound EXCEPT ![a] = NoObject] /\ forwarding' = forwarding \ {a}
        /\ UNCHANGED <<obj, retained, kept, threads, started, loading, agentsPaused, tagLeft>>
        /\ Persist({})
    BY DEF Leave, serviceVars, flagVars
  <1>3. RegTypes' /\ \A c \in Agent : SameReg(c)
    <2>1. CASE reg' = reg
      BY <2>1, <1>1 DEF RegTypes, SameReg
    <2>2. CASE reg' = Cancelled({a})
      <3>1. /\ Cancelled({a}) \in [Agent -> Registration]
            /\ \A c \in Agent : /\ Cancelled({a})[c].pc = reg[c].pc
                                 /\ Cancelled({a})[c].obj = reg[c].obj
                                 /\ Cancelled({a})[c].session = reg[c].session
        BY <1>1, CancelledReg
      <3> QED BY <2>2, <3>1 DEF RegTypes, SameReg
    <2> QED BY <2>1, <2>2
  <1>4. ListTypes' /\ bound'[a] = NoObject /\ \A c \in Agent : c # a => MemorySame(c)
    BY <1>1, <1>2, Constants DEF ListTypes, MemorySame
  <1>5. InHeap(a)'
    BY <1>1, <1>2, <1>3, <1>4, References, Constants DEF InHeap, SameReg
  <1>6. AgentInv(a)'
    <2>1. Linked(a)' /\ SameThread(a)' /\ Dark(a)' /\ Holds(a)' = Holds(a)
      BY <1>1, <1>2, <1>3, <1>4 DEF AgentInv, Linked, SameThread, Dark, Holds, SameReg
    <2>2. Obeys(a)' /\ Mirrored(a)'
      BY <1>1, <1>2, <1>4 DEF AgentInv, Obeys, Mirrored, BoundOnline
    <2> QED BY <2>1, <2>2 DEF AgentInv
  <1> QED BY <1>2, <1>3, <1>4, <1>5, <1>6 DEF Moved, FlagsSame


(* One object of an agent is edited in place.                              *)
LEMMA EditMoves ==
  ASSUME Memory, NEW a \in Agent, NEW o, NEW r, Edited(obj, obj', a, o, r),
         UNCHANGED <<bound, retained, kept, reg, threads>>, FlagsSame,
         \A c \in forwarding : c \in forwarding',
         o \in DOMAIN obj[a] => /\ r \in Obj /\ r.thread = obj[a][o].thread
                                /\ r.paused <=> obj[a][o].paused,
         a \in Pausable /\ o \in DOMAIN obj[a] /\ r.online =>
            \/ obj[a][o].online
            \/ a \in forwarding' /\ ~r.paused /\ bound[a] = o /\ retained[a] = NoObject
  PROVE  Moved(a)
  <1>1. /\ InHeap(a) /\ AgentInv(a) /\ ListTypes /\ RegTypes /\ reg[a] \in Registration
        /\ obj \in Heap /\ FlagTypes
    BY DEF Memory, RegTypes, ListTypes
  <1>2. PICK g : g = obj'
    OBVIOUS
  <1>3. Differs(obj, g, a, o) /\ (o \in DOMAIN obj[a] => g[a][o] = r)
    BY <1>1, <1>2, HeapDiffers
  <1>4. /\ Differs(obj, obj', a, o) /\ (o \in DOMAIN obj[a] => obj'[a][o] = r)
    BY <1>2, <1>3
  <1>5. ListTypes' /\ RegTypes' /\ InHeap(a)'
    BY <1>1, <1>4 DEF ListTypes, RegTypes, InHeap, Differs
  <1>6. \A c \in Agent : c # a => MemorySame(c) /\ SameReg(c)
    BY <1>4 DEF MemorySame, SameReg, Differs
  <1>7. /\ bound[a] # NoObject => bound[a] \in DOMAIN obj[a]
        /\ retained[a] # NoObject => retained[a] \in DOMAIN obj[a]
    BY <1>1, References
  <1>8. \A q \in DOMAIN obj[a] : /\ obj'[a][q].thread = obj[a][q].thread
                                 /\ obj'[a][q].paused <=> obj[a][q].paused
                                 /\ obj'[a][q].online /\ ~obj[a][q].online /\ a \in Pausable =>
                                      /\ a \in forwarding' /\ ~obj[a][q].paused
                                      /\ bound[a] = q /\ retained[a] = NoObject
    BY <1>4 DEF Differs
  <1>9. Linked(a)' /\ SameThread(a)' /\ Dark(a)'
    BY <1>1, <1>7, <1>8 DEF AgentInv, Linked, SameThread, Dark, Holds
  <1>10. Obeys(a)'
    BY <1>1, <1>7, <1>8 DEF AgentInv, Obeys, FlagsSame, FlagTypes
  <1>11. Mirrored(a)'
    BY <1>1, <1>7, <1>8 DEF AgentInv, Mirrored, FlagsSame, BoundOnline
  <1> QED BY <1>5, <1>6, <1>9, <1>10, <1>11 DEF Moved, AgentInv

LEMMA ReconnectMoves ==
  ASSUME Memory, NEW v \in Visit, VisitReconnects(v)
  PROVE  /\ \/ \E a \in Agent : Moved(a) /\ Persist({})
            \/ UNCHANGED <<obj, bound, retained, kept, forwarding, saves>>
         /\ UNCHANGED <<reg, threads, disk, failures>> /\ FlagsSame
  <1> DEFINE a == visit[v].agent
             o == visit[v].obj
  <1>1. /\ UNCHANGED <<reg, threads, disk, failures>> /\ FlagsSame
    BY DEF VisitReconnects, serviceVars, flagVars, FlagsSame
  <1>2. a \in Agent
    BY DEF Memory, TaskTypes
  <1>3. CASE visit[v].ready /\ StillValid(v) /\ ~obj[a][o].paused
    <2>1. /\ obj' = [obj EXCEPT ![a][o].online = TRUE] /\ forwarding' = forwarding \cup {a}
          /\ UNCHANGED <<bound, retained, kept>> /\ Persist({})
          /\ bound[a] = o /\ retained[a] = NoObject /\ ~obj[a][o].paused
      BY <1>3 DEF VisitReconnects, StillValid, Contended
    <2>2. PICK r : r = [obj[a][o] EXCEPT !.online = TRUE]
      OBVIOUS
    <2>3. o \in DOMAIN obj[a] => obj[a][o] \in Obj
      BY <1>2, References DEF Memory
    <2> HIDE DEF a, o
    <2>4. o \in DOMAIN obj[a] => /\ r \in Obj /\ r.thread = obj[a][o].thread
                                 /\ r.paused <=> obj[a][o].paused
      <3>1. o \in DOMAIN obj[a] => /\ r \in Obj /\ r.thread = obj[a][o].thread
                                   /\ r.paused = obj[a][o].paused
        BY <2>2, <2>3, SetFields
      <3> QED BY <3>1
    <2>5. Edited(obj, obj', a, o, r)
      BY <2>1, <2>2 DEF Edited
    <2>6. \A c \in forwarding : c \in forwarding'
      BY <2>1
    <2>7. o \in DOMAIN obj[a] => a \in forwarding' /\ ~r.paused /\ bound[a] = o /\ retained[a] = NoObject
      BY <2>1, <2>4
    <2>8. Moved(a)
      BY <1>1, <1>2, <2>1, <2>4, <2>5, <2>6, <2>7, EditMoves
    <2> QED BY <1>1, <1>2, <2>1, <2>8
  <1>4. CASE ~(visit[v].ready /\ StillValid(v) /\ ~obj[a][o].paused)
    BY <1>1, <1>4 DEF VisitReconnects, memoryVars
  <1> QED BY <1>3, <1>4

LEMMA RestoreMoves ==
  ASSUME Memory, NEW a \in Orchestrator, RestoreEnds(a)
  PROVE  /\ \/ Moved(a) /\ Persist({})
            \/ UNCHANGED <<obj, bound, retained, kept, forwarding, saves>>
         /\ UNCHANGED <<reg, threads, disk, failures>> /\ FlagsSame
  <1> DEFINE o == restoring[a].obj
  <1>1. /\ UNCHANGED <<reg, threads, disk, failures>> /\ FlagsSame
    BY DEF RestoreEnds, serviceVars, flagVars, FlagsSame
  <1>2. a \in Agent /\ a \notin Pausable
    BY Constants
  <1>3. CASE started /\ session[a] # 0 /\ a \in ready
    <2>1. /\ obj' = [obj EXCEPT ![a][o].session = session[a], ![a][o].online = TRUE]
          /\ forwarding' = forwarding \cup {a}
          /\ UNCHANGED <<bound, retained, kept>> /\ Persist({})
      BY <1>3 DEF RestoreEnds
    <2>2. PICK q : q = [obj[a][o] EXCEPT !.session = session[a]]
      OBVIOUS
    <2>3. PICK r : r = [q EXCEPT !.online = TRUE]
      OBVIOUS
    <2>4. (o \in DOMAIN obj[a] => obj[a][o] \in Obj) /\ session[a] \in 1..MaxSessions
      BY <1>2, <1>3, References, Constants DEF Memory, SessionTypes
    <2>9. obj \in Heap
      BY DEF Memory, ListTypes
    <2> HIDE DEF o
    <2>5. o \in DOMAIN obj[a] => /\ r \in Obj /\ r.thread = obj[a][o].thread
                                 /\ r.paused <=> obj[a][o].paused
      <3>1. SUFFICES ASSUME o \in DOMAIN obj[a]
                     PROVE  /\ r \in Obj /\ r.thread = obj[a][o].thread
                            /\ r.paused <=> obj[a][o].paused
        OBVIOUS
      <3>2. q \in Obj /\ q.thread = obj[a][o].thread /\ q.paused = obj[a][o].paused
        BY <3>1, <2>2, <2>4, SetFields
      <3>3. r \in Obj /\ r.thread = q.thread /\ r.paused = q.paused
        BY <3>2, <2>3, SetFields
      <3> QED BY <3>2, <3>3
    <2>6. Edited(obj, obj', a, o, r)
      BY <1>2, <2>1, <2>2, <2>3, <2>9 DEF Edited, Heap
    <2>7. \A c \in forwarding : c \in forwarding'
      BY <2>1
    <2>8. Moved(a)
      BY <1>1, <1>2, <2>1, <2>5, <2>6, <2>7, EditMoves
    <2> QED BY <1>1, <2>1, <2>8
  <1>4. CASE ~(started /\ session[a] # 0 /\ a \in ready)
    BY <1>1, <1>4 DEF RestoreEnds, memoryVars
  <1> QED BY <1>3, <1>4

LEMMA ResetMoves ==
  ASSUME Memory, NEW a \in Agent, ResetEnds(a), resetting[a].session # 0
  PROVE  /\ Moved(a) /\ Persist({})
         /\ UNCHANGED <<reg, threads, disk, failures, forwarding>> /\ FlagsSame
  <1> DEFINE o == resetting[a].obj
             s == resetting[a].session
  <1>1. /\ UNCHANGED <<reg, threads, disk, failures, forwarding, bound, retained, kept>>
        /\ FlagsSame /\ Persist({}) /\ obj' = [obj EXCEPT ![a][o].session = s]
    BY DEF ResetEnds, serviceVars, flagVars, FlagsSame
  <1>2. s \in 1..MaxSessions /\ (o \in DOMAIN obj[a] => obj[a][o] \in Obj)
    BY References, Constants DEF Memory, TaskTypes
  <1> HIDE DEF o, s
  <1>3. PICK r : r = [obj[a][o] EXCEPT !.session = s]
    OBVIOUS
  <1>4. o \in DOMAIN obj[a] => /\ r \in Obj /\ r.thread = obj[a][o].thread
                               /\ r.paused <=> obj[a][o].paused
                               /\ r.online <=> obj[a][o].online
    <2>1. o \in DOMAIN obj[a] => /\ r \in Obj /\ r.thread = obj[a][o].thread
                                 /\ r.paused = obj[a][o].paused
                                 /\ r.online = obj[a][o].online
      BY <1>2, <1>3, SetFields
    <2> QED BY <2>1
  <1>5. Edited(obj, obj', a, o, r)
    BY <1>1, <1>3 DEF Edited
  <1>6. Moved(a)
    BY <1>1, <1>4, <1>5, EditMoves
  <1> QED BY <1>1, <1>6


(* Pause and resume: the bound objects of several agents are edited.       *)
AllMoved == ListTypes' /\ RegTypes' /\ \A a \in Agent : InHeap(a)' /\ AgentInv(a)'

(* The heap g is f with the bound objects of these agents tagged or not.   *)
Retagged(f, g, agents, tag) ==
    /\ g \in Heap
    /\ \A c \in Agent :
          /\ DOMAIN g[c] = DOMAIN f[c] /\ Len(g[c]) = Len(f[c])
          /\ \A q \in DOMAIN f[c] :
                /\ g[c][q].thread = f[c][q].thread
                /\ IF c \in agents /\ q = bound[c]
                   THEN /\ g[c][q].paused <=> tag
                        /\ g[c][q].online <=> (f[c][q].online /\ ~tag)
                   ELSE g[c][q] = f[c][q]

Retags(g, agents, F) ==
    g = [c \in Agent |-> IF c \in agents THEN [obj[c] EXCEPT ![bound[c]] = F[c]] ELSE obj[c]]

LEMMA Retagging ==
  ASSUME Memory, NEW agents, NEW tag \in BOOLEAN, NEW F, NEW g, Retags(g, agents, F),
         \A c \in agents : c \in Agent => bound[c] # NoObject,
         \A c \in Agent : c \in agents =>
            /\ F[c] \in Obj /\ F[c].thread = obj[c][bound[c]].thread
            /\ F[c].paused <=> tag
            /\ F[c].online <=> (obj[c][bound[c]].online /\ ~tag)
  PROVE  Retagged(obj, g, agents, tag)
  <1>1. ASSUME NEW c \in Agent
        PROVE  /\ g[c] \in Seq(Obj) /\ DOMAIN g[c] = DOMAIN obj[c] /\ Len(g[c]) = Len(obj[c])
               /\ \A q \in DOMAIN obj[c] :
                     /\ g[c][q].thread = obj[c][q].thread
                     /\ IF c \in agents /\ q = bound[c]
                        THEN /\ g[c][q].paused <=> tag
                             /\ g[c][q].online <=> (obj[c][q].online /\ ~tag)
                        ELSE g[c][q] = obj[c][q]
    <2>1. obj[c] \in Seq(Obj) /\ (\A q \in DOMAIN obj[c] : obj[c][q] \in Obj)
      BY References DEF Memory
    <2>2. CASE c \notin agents
      BY <2>1, <2>2 DEF Retags
    <2>3. CASE c \in agents
      <3>1. bound[c] \in DOMAIN obj[c]
        BY <2>3, References DEF Memory
      <3>2. PICK r : r = F[c]
        OBVIOUS
      <3>3. /\ r \in Obj /\ r.thread = obj[c][bound[c]].thread
            /\ r.paused <=> tag
            /\ r.online <=> (obj[c][bound[c]].online /\ ~tag)
        BY <2>3, <3>2
      <3>4. PICK h : h = g[c]
        OBVIOUS
      <3>5. h = [obj[c] EXCEPT ![bound[c]] = r]
        BY <2>3, <3>2, <3>4 DEF Retags
      <3>6. /\ h \in Seq(Obj) /\ Len(h) = Len(obj[c]) /\ DOMAIN h = DOMAIN obj[c]
            /\ \A q \in DOMAIN obj[c] : h[q] = IF q = bound[c] THEN r ELSE obj[c][q]
        BY <2>1, <3>1, <3>3, <3>5, Editing
      <3> QED BY <2>3, <3>3, <3>4, <3>6
    <2> QED BY <2>2, <2>3
  <1>2. g \in Heap
    BY <1>1 DEF Heap, Retags
  <1> QED BY <1>1, <1>2 DEF Retagged

LEMMA PauseMoves ==
  ASSUME Memory, Pause
  PROVE  /\ AllMoved /\ Persist({}) /\ reg' = Cancelled(Pausable)
         /\ UNCHANGED <<started, loading, disk, failures, tagLeft>> /\ agentsPaused'
  <1>1. /\ reg' = Cancelled(Pausable) /\ obj' = Changed(Tagged, Paused)
        /\ forwarding' = forwarding \ {a \in Pausable : BoundOnline(a)}
        /\ agentsPaused' = TRUE /\ UNCHANGED <<bound, retained, kept>> /\ Persist({})
        /\ UNCHANGED <<started, loading, tagLeft, threads, disk, failures>>
    BY DEF Pause
  <1>3. \A c \in Tagged : c \in Agent => bound[c] # NoObject
    BY DEF Tagged
  <1>2. PICK F : F = [c \in Agent |-> Paused(obj[c][bound[c]])]
    OBVIOUS
  <1>4. PICK g : g = obj'
    OBVIOUS
  <1>5. Retags(g, Tagged, F)
    BY <1>1, <1>2, <1>4 DEF Changed, Retags
  <1>11. \A c \in Agent : c \in Tagged =>
            /\ F[c] \in Obj /\ F[c].thread = obj[c][bound[c]].thread
            /\ F[c].paused <=> TRUE
            /\ F[c].online <=> (obj[c][bound[c]].online /\ ~TRUE)
    <2>1. ASSUME NEW c \in Agent, c \in Tagged
          PROVE  obj[c][bound[c]] \in Obj
      BY <2>1, <1>3, References DEF Memory
    <2>2. \A r \in Obj : /\ Paused(r) \in Obj /\ Paused(r).thread = r.thread
                         /\ Paused(r).paused = TRUE
                         /\ Paused(r).online <=> (r.online /\ ~TRUE)
      BY DEF Paused, Obj
    <2> QED BY <1>2, <2>1, <2>2
  <1>6. Retagged(obj, g, Tagged, TRUE)
    BY <1>3, <1>5, <1>11, Retagging
  <1>7. Retagged(obj, obj', Tagged, TRUE)
    BY <1>4, <1>6
  <1>8. /\ reg' \in [Agent -> Registration]
        /\ \A c \in Agent : /\ reg'[c].pc = reg[c].pc /\ reg'[c].obj = reg[c].obj
                            /\ reg'[c].session = reg[c].session
    <2>1. /\ Cancelled(Pausable) \in [Agent -> Registration]
          /\ \A c \in Agent : /\ Cancelled(Pausable)[c].pc = reg[c].pc
                              /\ Cancelled(Pausable)[c].obj = reg[c].obj
                              /\ Cancelled(Pausable)[c].session = reg[c].session
      <3>1. Agent # {} /\ RegTypes
        BY ConnectionsAssumption DEF Memory
      <3> QED BY <3>1, CancelledReg
    <2> QED BY <1>1, <2>1
  <1>9. ListTypes' /\ RegTypes'
    BY <1>1, <1>7, <1>8 DEF Memory, ListTypes, RegTypes, Retagged
  <1>10. ASSUME NEW a \in Agent
         PROVE  InHeap(a)' /\ AgentInv(a)'
    <2>1. /\ InHeap(a) /\ AgentInv(a) /\ FlagTypes
          /\ bound[a] # NoObject => bound[a] \in DOMAIN obj[a]
          /\ retained[a] # NoObject => retained[a] \in DOMAIN obj[a]
      BY References DEF Memory
    <2>2. InHeap(a)'
      BY <1>1, <1>7, <1>8, <2>1 DEF InHeap, Retagged
    <2>3. \A q \in DOMAIN obj[a] :
             /\ obj'[a][q].thread = obj[a][q].thread
             /\ obj'[a][q].online => obj[a][q].online
             /\ a \in Pausable /\ q = bound[a] /\ bound[a] # NoObject =>
                   obj'[a][q].paused /\ ~obj'[a][q].online
      BY <1>7, Constants DEF Retagged, Tagged
    <2>4. Linked(a)' /\ SameThread(a)' /\ Dark(a)'
      BY <1>1, <1>8, <2>1, <2>3 DEF AgentInv, Linked, SameThread, Dark, Holds
    <2>5. Obeys(a)' /\ Mirrored(a)'
      BY <1>1, <2>1, <2>3 DEF Obeys, Mirrored, BoundOnline
    <2> QED BY <2>2, <2>4, <2>5 DEF AgentInv
  <1> QED BY <1>1, <1>9, <1>10 DEF AllMoved

LEMMA ResumeMoves ==
  ASSUME Memory, Resume
  PROVE  /\ AllMoved /\ reg' = reg
         /\ (obj' = obj /\ saves' = saves) \/ Persist({})
         /\ UNCHANGED <<started, loading, disk, failures, bound, kept>>
         /\ ~agentsPaused' /\ (tagLeft => tagLeft')
         /\ \A a \in Agent : ~tagLeft' /\ bound'[a] # NoObject => ~obj'[a][bound'[a]].paused
  <1> DEFINE A == {a \in Agent : bound[a] # NoObject}
  <1>1. /\ reg' = reg /\ obj' = Changed(A, Unpaused)
        /\ forwarding' = forwarding
        /\ agentsPaused' = FALSE /\ UNCHANGED <<bound, retained, kept>>
        /\ tagLeft' = (tagLeft \/ Tags')
        /\ (obj' = obj /\ saves' = saves) \/ Persist({})
        /\ UNCHANGED <<started, loading, threads, disk, failures>>
    BY DEF Resume, taskVars
  <1>3. \A c \in A : c \in Agent => bound[c] # NoObject
    OBVIOUS
  <1> HIDE DEF A
  <1>2. PICK F : F = [c \in Agent |-> Unpaused(obj[c][bound[c]])]
    OBVIOUS
  <1>4. PICK g : g = obj'
    OBVIOUS
  <1>5. Retags(g, A, F)
    BY <1>1, <1>2, <1>4 DEF Changed, Retags
  <1>11. \A c \in Agent : c \in A =>
            /\ F[c] \in Obj /\ F[c].thread = obj[c][bound[c]].thread
            /\ F[c].paused <=> FALSE
            /\ F[c].online <=> (obj[c][bound[c]].online /\ ~FALSE)
    <2>1. ASSUME NEW c \in Agent, c \in A
          PROVE  obj[c][bound[c]] \in Obj
      BY <2>1, <1>3, References DEF Memory
    <2>2. \A r \in Obj : /\ Unpaused(r) \in Obj /\ Unpaused(r).thread = r.thread
                         /\ Unpaused(r).paused = FALSE
                         /\ Unpaused(r).online <=> (r.online /\ ~FALSE)
      BY DEF Unpaused, Obj
    <2> QED BY <1>2, <2>1, <2>2
  <1>6. Retagged(obj, g, A, FALSE)
    BY <1>3, <1>5, <1>11, Retagging
  <1>7. Retagged(obj, obj', A, FALSE)
    BY <1>4, <1>6
  <1>9. ListTypes' /\ RegTypes'
    BY <1>1, <1>7 DEF Memory, ListTypes, RegTypes, Retagged
  <1>10. ASSUME NEW a \in Agent
         PROVE  /\ InHeap(a)' /\ AgentInv(a)'
                /\ bound'[a] # NoObject => ~obj'[a][bound'[a]].paused
    <2>1. /\ InHeap(a) /\ AgentInv(a) /\ FlagTypes
          /\ bound[a] # NoObject => bound[a] \in DOMAIN obj[a]
          /\ retained[a] # NoObject => retained[a] \in DOMAIN obj[a]
      BY References DEF Memory
    <2>2. InHeap(a)'
      BY <1>1, <1>7, <2>1 DEF InHeap, Retagged
    <2>3. \A q \in DOMAIN obj[a] :
             /\ obj'[a][q].thread = obj[a][q].thread
             /\ obj'[a][q].online <=> obj[a][q].online
             /\ q = bound[a] /\ bound[a] # NoObject => ~obj'[a][q].paused
      BY <1>7 DEF Retagged, A
    <2>4. Linked(a)' /\ SameThread(a)' /\ Dark(a)'
      BY <1>1, <2>1, <2>3 DEF AgentInv, Linked, SameThread, Dark, Holds
    <2>5. a \in Pausable /\ ~tagLeft' =>
             ~kept'[a].paused /\ (retained'[a] # NoObject => ~obj'[a][retained'[a]].paused)
      BY <1>1 DEF Tags
    <2>6. Obeys(a)' /\ Mirrored(a)'
      BY <1>1, <2>1, <2>3, <2>5 DEF AgentInv, Obeys, Mirrored, BoundOnline
    <2> QED BY <1>1, <2>1, <2>2, <2>3, <2>4, <2>6 DEF AgentInv
  <1> QED BY <1>1, <1>9, <1>10 DEF AllMoved


-----------------------------------------------------------------------------
(* The images of the store.                                                *)

(* What a save writes: no binding is nothing, a thread has its session, and *)
(* an agent's binding and kept thread agree.                               *)
GoodEntry(image, a) ==
    /\ image.bindings[a].thread = 0 => image.bindings[a] = Nothing
    /\ image.bindings[a].thread # 0 => image.bindings[a].session # 0
    /\ image.kept[a].thread # 0 => image.kept[a].session # 0
    /\ image.bindings[a].thread # 0 /\ image.kept[a].thread # 0 =>
          image.bindings[a].thread = image.kept[a].thread
Good(image) == image \in Image /\ \A a \in Agent : GoodEntry(image, a)

(* While every tag is a pause's, all office bindings are tagged or no thread is. *)
Coherent(image) ==
    PausedIn(image) => \A a \in Pausable : image.bindings[a].thread # 0 => image.bindings[a].paused

LEMMA WokenObjects ==
  ASSUME NEW s \in Stored, s.thread # 0 => s.session # 0
  PROVE  /\ Woken(s) \in Seq(Obj)
         /\ Len(Woken(s)) = IF s.thread = 0 THEN 0 ELSE 1
         /\ s.thread # 0 => /\ Woken(s)[1] \in Obj
                            /\ Woken(s)[1].thread = s.thread /\ Woken(s)[1].session = s.session
                            /\ ~Woken(s)[1].online /\ (Woken(s)[1].paused = s.paused)
  <1>1. CASE s.thread = 0
    <2>1. Woken(s) = <<>>
      BY <1>1 DEF Woken
    <2> QED BY <2>1, <1>1, EmptySeq
  <1>2. CASE s.thread # 0
    <2>1. PICK r : r = [thread |-> s.thread, session |-> s.session,
                        online |-> FALSE, paused |-> s.paused]
      OBVIOUS
    <2>2. r \in Obj /\ r.thread = s.thread /\ r.session = s.session /\ ~r.online
          /\ (r.paused = s.paused)
      BY <1>2, <2>1, Constants DEF Obj, Stored
    <2>3. Woken(s) = <<r>>
      BY <1>2, <2>1 DEF Woken
    <2>4. <<r>> \in Seq(Obj) /\ Len(<<r>>) = 1 /\ <<r>>[1] = r
      BY <2>2
    <2> QED BY <1>2, <2>2, <2>3, <2>4
  <1> QED BY <1>1, <1>2

(* The objects of one agent after the store was read.                      *)
Loads(g, h, b, k) == g = h \o Woken(b) \o Woken(k)

LEMMA LoadedObjects ==
  ASSUME NEW h \in Seq(Obj), NEW b \in Stored, NEW k \in Stored,
         b.thread # 0 => b.session # 0, k.thread # 0 => k.session # 0,
         NEW g, Loads(g, h, b, k)
  PROVE  /\ g \in Seq(Obj) /\ Len(g) \in Nat /\ Len(h) \in Nat /\ Len(h) <= Len(g)
         /\ b.thread # 0 => /\ Len(h) + 1 <= Len(g)
                            /\ g[Len(h) + 1].thread = b.thread
                            /\ g[Len(h) + 1].session = b.session
                            /\ ~g[Len(h) + 1].online
                            /\ g[Len(h) + 1].paused = b.paused
         /\ k.thread # 0 => /\ 1 <= Len(g) /\ g[Len(g)].thread = k.thread
                            /\ ~g[Len(g)].online /\ (g[Len(g)].paused = k.paused)
  <1> DEFINE B == Woken(b)
             K == Woken(k)
  <1>1. /\ B \in Seq(Obj) /\ Len(B) = IF b.thread = 0 THEN 0 ELSE 1
        /\ b.thread # 0 => /\ B[1].thread = b.thread /\ B[1].session = b.session
                           /\ ~B[1].online /\ (B[1].paused = b.paused)
    BY WokenObjects
  <1>2. /\ K \in Seq(Obj) /\ Len(K) = IF k.thread = 0 THEN 0 ELSE 1
        /\ k.thread # 0 => /\ K[1].thread = k.thread /\ ~K[1].online
                           /\ (K[1].paused = k.paused)
    BY WokenObjects
  <1> HIDE DEF B, K
  <1>3. Len(h) \in Nat
    BY LenProperties
  <1>4. PICK m : m = h \o B
    OBVIOUS
  <1>5. /\ m \in Seq(Obj) /\ Len(m) = Len(h) + Len(B)
        /\ \A i \in 1..(Len(h) + Len(B)) : m[i] = IF i <= Len(h) THEN h[i] ELSE B[i - Len(h)]
    BY <1>1, <1>4, ConcatProperties
  <1>6. g = m \o K
    BY <1>4 DEF B, K, Loads
  <1>7. /\ m \o K \in Seq(Obj) /\ Len(m \o K) = Len(m) + Len(K)
        /\ \A i \in 1..(Len(m) + Len(K)) :
              (m \o K)[i] = IF i <= Len(m) THEN m[i] ELSE K[i - Len(m)]
    <2>1. m \in Seq(Obj) /\ K \in Seq(Obj)
      BY <1>2, <1>5
    <2> QED BY <2>1, ConcatProperties
  <1>8. /\ g \in Seq(Obj) /\ Len(g) = Len(m) + Len(K)
        /\ \A i \in 1..(Len(m) + Len(K)) : g[i] = IF i <= Len(m) THEN m[i] ELSE K[i - Len(m)]
    BY <1>6, <1>7
  <1>9. /\ Len(B) \in {0, 1} /\ Len(K) \in {0, 1} /\ Len(m) \in Nat /\ Len(g) \in Nat
        /\ Len(h) <= Len(g)
    <2>1. Len(B) \in {0, 1} /\ Len(K) \in {0, 1}
      BY <1>1, <1>2
    <2>2. Len(m) \in Nat /\ Len(h) <= Len(m)
      BY <1>3, <1>5, <2>1
    <2> QED BY <1>3, <1>8, <2>1, <2>2
  <1>10. ASSUME b.thread # 0
         PROVE  g[Len(h) + 1] = B[1] /\ Len(h) + 1 <= Len(g)
    <2>1. Len(B) = 1 /\ Len(m) = Len(h) + 1 /\ Len(h) + 1 <= Len(g)
      BY <1>1, <1>3, <1>5, <1>8, <1>9, <1>10
    <2>2. m[Len(h) + 1] = B[1]
      BY <1>3, <1>5, <2>1
    <2>3. g[Len(h) + 1] = m[Len(h) + 1]
      BY <1>3, <1>8, <1>9, <2>1
    <2> QED BY <2>1, <2>2, <2>3
  <1>11. ASSUME k.thread # 0
         PROVE  g[Len(g)] = K[1] /\ 1 <= Len(g)
    <2>1. Len(K) = 1 /\ Len(g) = Len(m) + 1 /\ 1 <= Len(g)
      BY <1>2, <1>8, <1>9, <1>11
    <2>2. g[Len(m) + 1] = K[1]
      BY <1>8, <1>9, <2>1
    <2> QED BY <2>1, <2>2
  <1>12. b.thread # 0 => /\ g[Len(h) + 1].thread = b.thread
                         /\ g[Len(h) + 1].session = b.session
                         /\ ~g[Len(h) + 1].online
                         /\ g[Len(h) + 1].paused = b.paused
    BY <1>1, <1>10
  <1>13. k.thread # 0 => /\ g[Len(g)].thread = k.thread
                         /\ ~g[Len(g)].online /\ (g[Len(g)].paused = k.paused)
    BY <1>2, <1>11
  <1> QED BY <1>3, <1>8, <1>9, <1>10, <1>11, <1>12, <1>13

LEMMA LoadMoves ==
  ASSUME Memory, StartLoads, Good(disk), ~tagLeft => Coherent(disk),
         \A a \in Agent : reg[a].pc = "idle"
  PROVE  AllMoved /\ ImageOf(obj', bound', kept') = disk /\ reg' = reg /\ tagLeft' = tagLeft
  <1>1. /\ \A a \in Agent : Len(obj'[a]) <= MaxObjects
        /\ agentsPaused' = PausedIn(disk) /\ kept' = disk.kept
        /\ obj' = [a \in Agent |-> obj[a] \o Woken(disk.bindings[a]) \o Woken(disk.kept[a])]
        /\ bound' = [a \in Agent |-> IF disk.bindings[a].thread = 0 THEN NoObject
                                     ELSE Len(obj[a]) + 1]
        /\ retained' = [a \in Agent |-> IF disk.kept[a].thread = 0 THEN NoObject
                                        ELSE Len(obj'[a])]
        /\ UNCHANGED <<started, tagLeft, threads, reg, forwarding>>
    BY DEF StartLoads, Loaded
  <1>2. /\ disk.bindings \in [Agent -> Stored] /\ disk.kept \in [Agent -> Stored]
        /\ \A a \in Agent : GoodEntry(disk, a)
    BY DEF Good, Image
  <1>3. ASSUME NEW a \in Agent
        PROVE  /\ obj'[a] \in Seq(Obj) /\ Len(obj'[a]) \in Nat
               /\ Len(obj[a]) \in Nat /\ Len(obj[a]) <= Len(obj'[a])
               /\ disk.bindings[a].thread = 0 => bound'[a] = NoObject
               /\ disk.bindings[a].thread # 0 =>
                     /\ bound'[a] = Len(obj[a]) + 1 /\ bound'[a] <= Len(obj'[a])
                     /\ obj'[a][bound'[a]].thread = disk.bindings[a].thread
                     /\ obj'[a][bound'[a]].session = disk.bindings[a].session
                     /\ obj'[a][bound'[a]].paused = disk.bindings[a].paused
                     /\ ~obj'[a][bound'[a]].online
               /\ disk.kept[a].thread = 0 => retained'[a] = NoObject
               /\ disk.kept[a].thread # 0 =>
                     /\ retained'[a] = Len(obj'[a]) /\ 1 <= Len(obj'[a])
                     /\ obj'[a][retained'[a]].thread = disk.kept[a].thread
                     /\ obj'[a][retained'[a]].paused = disk.kept[a].paused
                     /\ ~obj'[a][retained'[a]].online
    <2>1. obj[a] \in Seq(Obj) /\ disk.bindings[a] \in Stored /\ disk.kept[a] \in Stored
      BY <1>2, References DEF Memory
    <2>2. /\ disk.bindings[a].thread # 0 => disk.bindings[a].session # 0
          /\ disk.kept[a].thread # 0 => disk.kept[a].session # 0
      BY <1>2 DEF GoodEntry
    <2>4. Loads(obj'[a], obj[a], disk.bindings[a], disk.kept[a])
      BY <1>1 DEF Loads
    <2>5. PICK g : /\ g = obj'[a]
                   /\ g \in Seq(Obj) /\ Len(g) \in Nat
                   /\ Len(obj[a]) \in Nat /\ Len(obj[a]) <= Len(g)
                   /\ disk.bindings[a].thread # 0 =>
                         /\ Len(obj[a]) + 1 <= Len(g)
                         /\ g[Len(obj[a]) + 1].thread = disk.bindings[a].thread
                         /\ g[Len(obj[a]) + 1].session = disk.bindings[a].session
                         /\ ~g[Len(obj[a]) + 1].online
                         /\ g[Len(obj[a]) + 1].paused = disk.bindings[a].paused
                   /\ disk.kept[a].thread # 0 =>
                         /\ 1 <= Len(g) /\ g[Len(g)].thread = disk.kept[a].thread
                         /\ ~g[Len(g)].online
                         /\ g[Len(g)].paused = disk.kept[a].paused
      BY <2>1, <2>2, <2>4, LoadedObjects
    <2>6. /\ bound'[a] = IF disk.bindings[a].thread = 0 THEN NoObject ELSE Len(obj[a]) + 1
          /\ retained'[a] = IF disk.kept[a].thread = 0 THEN NoObject ELSE Len(obj'[a])
      BY <1>1
    <2>7. /\ obj'[a] \in Seq(Obj) /\ Len(obj'[a]) \in Nat
          /\ Len(obj[a]) \in Nat /\ Len(obj[a]) <= Len(obj'[a])
      BY <2>5
    <2>8. ASSUME disk.bindings[a].thread # 0
          PROVE  /\ bound'[a] = Len(obj[a]) + 1 /\ bound'[a] <= Len(obj'[a])
                 /\ obj'[a][bound'[a]].thread = disk.bindings[a].thread
                 /\ obj'[a][bound'[a]].session = disk.bindings[a].session
                 /\ obj'[a][bound'[a]].paused = disk.bindings[a].paused
                 /\ ~obj'[a][bound'[a]].online
      BY <2>5, <2>6, <2>8
    <2>9. ASSUME disk.kept[a].thread # 0
          PROVE  /\ retained'[a] = Len(obj'[a]) /\ 1 <= Len(obj'[a])
                 /\ obj'[a][retained'[a]].thread = disk.kept[a].thread
                 /\ obj'[a][retained'[a]].paused = disk.kept[a].paused
                 /\ ~obj'[a][retained'[a]].online
      BY <2>5, <2>6, <2>9
    <2> QED BY <2>6, <2>7, <2>8, <2>9
  <1>4. obj' \in Heap
    BY <1>1, <1>3 DEF Heap
  <1>5. ListTypes' /\ RegTypes'
    <2>1. \A a \in Agent : /\ bound'[a] \in Object \cup {NoObject}
                           /\ retained'[a] \in Object \cup {NoObject}
      <3>1. ASSUME NEW a \in Agent
            PROVE  /\ bound'[a] \in Object \cup {NoObject}
                   /\ retained'[a] \in Object \cup {NoObject}
        <4>1. /\ Len(obj'[a]) \in Nat /\ Len(obj[a]) \in Nat /\ Len(obj'[a]) <= MaxObjects
              /\ bound'[a] = NoObject \/ (bound'[a] = Len(obj[a]) + 1 /\ bound'[a] <= Len(obj'[a]))
              /\ retained'[a] = NoObject \/ (retained'[a] = Len(obj'[a]) /\ 1 <= Len(obj'[a]))
          BY <1>1, <1>3
        <4> QED BY <4>1, Constants
      <3> QED BY <3>1
    <2> QED BY <1>1, <1>2, <1>4, <2>1 DEF ListTypes, RegTypes, Memory
  <1>6. ASSUME NEW a \in Agent
        PROVE  InHeap(a)' /\ AgentInv(a)'
    <2>1. InHeap(a) /\ reg[a].pc = "idle" /\ GoodEntry(disk, a) /\ reg[a] \in Registration
      BY <1>2 DEF Memory, RegTypes
    <2>2. InHeap(a)'
      <3>1. /\ Len(obj'[a]) \in Nat /\ Len(obj[a]) \in Nat /\ Len(obj'[a]) <= MaxObjects
            /\ bound'[a] = NoObject \/ bound'[a] <= Len(obj'[a])
            /\ retained'[a] = NoObject \/ retained'[a] = Len(obj'[a])
            /\ Len(obj[a]) <= Len(obj'[a])
        BY <1>1, <1>3
      <3>2. reg'[a].obj <= Len(obj[a]) /\ reg'[a].obj \in Nat
        BY <1>1, <2>1, Constants DEF InHeap, Registration
      <3> QED BY <3>1, <3>2, Constants DEF InHeap
    <2>3. Linked(a)'
      BY <1>1, <2>1 DEF Linked, Holds
    <2>4. SameThread(a)'
      <3>1. bound'[a] # NoObject => /\ disk.bindings[a].thread # 0
                                    /\ obj'[a][bound'[a]].thread = disk.bindings[a].thread
        BY <1>3
      <3>2. retained'[a] # NoObject => /\ disk.kept[a].thread # 0
                                       /\ obj'[a][retained'[a]].thread = disk.kept[a].thread
        BY <1>3
      <3>3. disk.kept[a].thread # 0 => retained'[a] # NoObject
        BY <1>3, Constants
      <3> QED BY <1>1, <2>1, <3>1, <3>2, <3>3 DEF SameThread, GoodEntry
    <2>5. Dark(a)' /\ Mirrored(a)'
      BY <1>3 DEF Dark, Mirrored, BoundOnline
    <2>6. Obeys(a)'
      <3>1. SUFFICES ASSUME a \in Pausable, ~tagLeft
                     PROVE  /\ PausedIn(disk) /\ bound'[a] # NoObject =>
                                  obj'[a][bound'[a]].paused /\ ~obj'[a][bound'[a]].online
                            /\ ~PausedIn(disk) =>
                                  /\ ~disk.kept[a].paused
                                  /\ retained'[a] # NoObject => ~obj'[a][retained'[a]].paused
                                  /\ bound'[a] # NoObject => ~obj'[a][bound'[a]].paused
        BY <1>1 DEF Obeys
      <3>2. PausedIn(disk) => (disk.bindings[a].thread # 0 => disk.bindings[a].paused)
        BY <3>1 DEF Coherent
      <3>3. ~PausedIn(disk) => ~disk.bindings[a].paused /\ ~disk.kept[a].paused
        BY <3>1 DEF PausedIn
      <3> QED BY <1>3, <3>2, <3>3
    <2> QED BY <2>2, <2>3, <2>4, <2>5, <2>6 DEF AgentInv
  <1>7. ImageOf(obj', bound', kept') = disk
    <2>1. ASSUME NEW a \in Agent
          PROVE  (IF bound'[a] = NoObject THEN Nothing ELSE Copy(obj'[a][bound'[a]]))
                   = disk.bindings[a]
      <3>1. CASE disk.bindings[a].thread = 0
        BY <1>2, <1>3, <3>1 DEF GoodEntry
      <3>2. CASE disk.bindings[a].thread # 0
        <4>1. bound'[a] # NoObject
          BY <1>3, <3>2, Constants
        <4>2. Copy(obj'[a][bound'[a]])
                = [thread |-> disk.bindings[a].thread, session |-> disk.bindings[a].session,
                   paused |-> disk.bindings[a].paused]
          BY <1>3, <3>2 DEF Copy
        <4>3. disk.bindings[a] \in Stored
          BY <1>2
        <4>4. PICK b : b = disk.bindings[a]
          OBVIOUS
        <4>5. b = [thread |-> b.thread, session |-> b.session, paused |-> b.paused]
          BY <4>3, <4>4 DEF Stored
        <4> QED BY <4>1, <4>2, <4>4, <4>5
      <3> QED BY <3>1, <3>2
    <2>2. [a \in Agent |-> IF bound'[a] = NoObject THEN Nothing ELSE Copy(obj'[a][bound'[a]])]
            = disk.bindings
      BY <1>2, <2>1
    <2>3. disk = [bindings |-> disk.bindings, kept |-> disk.kept]
      BY DEF Good, Image
    <2> QED BY <1>1, <2>2, <2>3 DEF ImageOf
  <1> QED BY <1>1, <1>5, <1>6, <1>7 DEF AllMoved


-----------------------------------------------------------------------------
(* The steps of the service and its environment.                           *)

LEMMA MovedAll ==
  ASSUME Memory, NEW a \in Agent, Moved(a)
  PROVE  AllMoved
  <1>1. ASSUME NEW c \in Agent, c # a
        PROVE  InHeap(c)' /\ AgentInv(c)'
    <2>1. InHeap(c) /\ AgentInv(c) /\ MemorySame(c) /\ SameReg(c)
          /\ (c \in forwarding => c \in forwarding')
      BY <1>1 DEF Memory, Moved
    <2>2. InHeap(c)'
      BY <2>1 DEF InHeap, MemorySame, SameReg
    <2>3. /\ tagLeft' = tagLeft /\ agentsPaused' = agentsPaused
          /\ started' = started /\ loading' = loading
      BY DEF Moved, FlagsSame
    <2>4. AgentInv(c)'
      BY <2>1, <2>3, Bystander
    <2> QED BY <2>2, <2>4
  <1> QED BY <1>1 DEF AllMoved, Moved

(* What every step does but reading the store, ending a save and a crash.  *)
Proper ==
    /\ AllMoved
    /\ disk' = disk
    /\ tagLeft => tagLeft'
    /\ \A a \in Agent : reg[a].pc \in {"saving", "retaining"} => reg'[a].pc = reg[a].pc
    /\ \A a \in Agent : reg'[a].pc = "failed" => reg[a].pc = "failed"
    /\ \/ saves' = saves /\ (SameImage \/ \E a \in Agent : reg[a].pc = "failed")
       \/ Persist({})
       \/ \E a \in Agent : /\ Persist({a}) /\ reg[a].pc \notin {"saving", "retaining"}
                           /\ reg'[a].pc \in {"saving", "retaining"}

LEMMA GentleProper ==
  ASSUME Memory, Gentle, UNCHANGED <<memoryVars, threads, saves, disk>>,
         tagLeft' = tagLeft, agentsPaused' = agentsPaused,
         started' /\ ~loading' =>
            started /\ ~loading /\ \A a \in Agent : a \in forwarding => a \in forwarding'
  PROVE  Proper
  <1>1. /\ UNCHANGED <<obj, bound, retained, kept>>
        /\ \A a \in Agent : MemorySame(a)
    BY DEF memoryVars, MemorySame
  <1>2. ASSUME NEW a \in Agent
        PROVE  InHeap(a)' /\ AgentInv(a)'
    <2>1. /\ InHeap(a) /\ AgentInv(a) /\ ListTypes /\ RegTypes /\ (SameReg(a) \/ Advances(a))
      BY DEF Memory, Gentle
    <2>2. reg'[a].obj \in {NoObject, reg[a].obj}
      BY <2>1 DEF SameReg, Advances
    <2>3. Len(obj[a]) \in Nat
      BY <2>1, References
    <2>4. InHeap(a)'
      BY <1>1, <2>1, <2>2, <2>3, Constants DEF InHeap
    <2>5. AgentInv(a)'
      BY <1>1, <2>1, Bystander
    <2> QED BY <2>4, <2>5
  <1>3. ListTypes' /\ RegTypes'
    BY <1>1 DEF Memory, ListTypes, Gentle, RegTypes
  <1>4. SameImage
    BY <1>1 DEF SameImage, ImageOf
  <1>5. \A a \in Agent : /\ reg[a].pc \in {"saving", "retaining"} => reg'[a].pc = reg[a].pc
                         /\ reg'[a].pc = "failed" => reg[a].pc = "failed"
    BY DEF Gentle, SameReg, Advances
  <1> QED BY <1>2, <1>3, <1>4, <1>5 DEF Proper, AllMoved

(* The registrations of the others are as they were. *)
LEMMA OneAdvances ==
  ASSUME RegTypes, NEW a \in Agent, NEW r \in Registration,
         reg' = [reg EXCEPT ![a] = r],
         reg[a].pc \in {"idle", "called", "ensuring", "creating"},
         r.obj \in {NoObject, reg[a].obj},
         \/ r.pc \in {"idle", "called", "ensuring"}
         \/ r.pc = "creating" /\ r.session # 0 /\ bound[a] = NoObject /\ retained[a] = NoObject,
         reg[a].pc = "idle" => Open
  PROVE  Gentle
  <1>1. /\ reg' \in [Agent -> Registration] /\ reg'[a] = r
        /\ \A c \in Agent : c # a => reg'[c] = reg[c]
    BY DEF RegTypes
  <1>2. Advances(a)
    BY <1>1 DEF Advances
  <1> QED BY <1>1, <1>2 DEF Gentle, SameReg

LEMMA CancelGentle ==
  ASSUME RegTypes, NEW A, reg' = Cancelled(A)
  PROVE  Gentle
  <1>1. /\ Cancelled(A) \in [Agent -> Registration]
        /\ \A c \in Agent : /\ Cancelled(A)[c].pc = reg[c].pc
                            /\ Cancelled(A)[c].obj = reg[c].obj
                            /\ Cancelled(A)[c].session = reg[c].session
    <2>1. Agent # {}
      BY ConnectionsAssumption
    <2> QED BY <2>1, CancelledReg
  <1> QED BY <1>1 DEF Gentle, SameReg

LEMMA StillGentle ==
  ASSUME RegTypes, reg' = reg
  PROVE  Gentle
  BY DEF Gentle, SameReg, RegTypes

LEMMA RegisteringIsProper ==
  ASSUME Memory, NEW a \in Agent,
         Register(a) \/ RegisterChecks(a) \/ DeadlinePasses(a) \/ RegisterFailsToCreate(a)
  PROVE  Proper
  <1>1. /\ UNCHANGED <<memoryVars, threads, saves, disk, tagLeft, agentsPaused, started, loading,
                       forwarding>>
        /\ RegTypes /\ reg[a] \in Registration
    BY DEF Memory, RegTypes, Register, RegisterChecks, RegisterEnds, DeadlinePasses,
           RegisterFailsToCreate, serviceVars, flagVars, storeVars
  <1>2. Gentle
    <2>1. CASE Register(a)
      <3>1. PICK r : r = [IdleReg EXCEPT !.pc = "called"]
        OBVIOUS
      <3>2. r \in Registration /\ r.pc = "called" /\ r.obj = NoObject
        BY <3>1, Constants DEF IdleReg, Registration
      <3>3. reg' = [reg EXCEPT ![a] = r] /\ reg[a].pc = "idle" /\ Open
        BY <2>1, <3>1 DEF Register
      <3> QED BY <1>1, <3>2, <3>3, OneAdvances
    <2>2. CASE RegisterChecks(a)
      <3>1. reg[a].pc = "called"
        BY <2>2 DEF RegisterChecks
      <3>2. CASE reg' = [reg EXCEPT ![a] = IdleReg]
        <4>1. IdleReg \in Registration /\ IdleReg.pc = "idle" /\ IdleReg.obj = NoObject
          BY Constants
        <4> QED BY <1>1, <3>1, <3>2, <4>1, OneAdvances
      <3>3. CASE reg' = [reg EXCEPT ![a].pc = "ensuring"]
        <4>1. PICK r : r = [reg[a] EXCEPT !.pc = "ensuring"]
          OBVIOUS
        <4>2. r \in Registration /\ r.pc = "ensuring" /\ r.obj = reg[a].obj
          BY <1>1, <4>1 DEF Registration
        <4>3. reg' = [reg EXCEPT ![a] = r]
          BY <3>3, <4>1
        <4> QED BY <1>1, <3>1, <4>2, <4>3, OneAdvances
      <3> QED BY <2>2, <3>2, <3>3 DEF RegisterChecks, RegisterEnds
    <2>3. CASE DeadlinePasses(a)
      BY <1>1, <2>3, CancelGentle DEF DeadlinePasses
    <2>4. CASE RegisterFailsToCreate(a)
      <3>1. reg' = [reg EXCEPT ![a] = IdleReg] /\ reg[a].pc = "creating"
        BY <2>4 DEF RegisterFailsToCreate
      <3>2. IdleReg \in Registration /\ IdleReg.pc = "idle" /\ IdleReg.obj = NoObject
        BY Constants
      <3> QED BY <1>1, <3>1, <3>2, OneAdvances
    <2> QED BY <2>1, <2>2, <2>3, <2>4
  <1> QED BY <1>1, <1>2, GentleProper

LEMMA IdentifyingIsProper ==
  ASSUME Memory, NEW a \in Agent, RegisterIdentifies(a)
  PROVE  Proper
  <1>1. RegTypes /\ reg[a] \in Registration /\ reg[a].pc = "ensuring" /\ ListTypes
        /\ session[a] \in 0..MaxSessions
    BY DEF Memory, RegTypes, RegisterIdentifies, SessionTypes
  <1>2. CASE ~reg[a].cancelled /\ session[a] # 0 /\ Existing(a) # NoObject
    <2>1. /\ Moved(a) /\ reg'[a].pc = "saving" /\ Persist({a})
          /\ disk' = disk /\ tagLeft' = tagLeft
      BY <1>2, IdentifyMoves
    <2>2. \A c \in Agent : c # a => reg'[c].pc = reg[c].pc
      BY <2>1 DEF Moved, SameReg
    <2> QED BY <1>1, <2>1, <2>2, MovedAll DEF Proper
  <1>3. CASE ~(~reg[a].cancelled /\ session[a] # 0 /\ Existing(a) # NoObject)
    <2>1. UNCHANGED <<memoryVars, threads, saves, disk, tagLeft, agentsPaused, started, loading,
                       forwarding>>
      BY <1>3 DEF RegisterIdentifies, RegisterEnds, serviceVars, flagVars, storeVars
    <2>2. Gentle
      <3>1. CASE reg' = [reg EXCEPT ![a] = IdleReg]
        <4>1. IdleReg \in Registration /\ IdleReg.pc = "idle" /\ IdleReg.obj = NoObject
          BY Constants
        <4> QED BY <1>1, <3>1, <4>1, OneAdvances
      <3>2. CASE /\ reg' = [reg EXCEPT ![a].pc = "creating", ![a].session = session[a]]
                 /\ Existing(a) = NoObject /\ session[a] # 0
        <4>1. PICK r : r = [reg[a] EXCEPT !.pc = "creating", !.session = session[a]]
          OBVIOUS
        <4>2. /\ r \in Registration /\ r.pc = "creating" /\ r.obj = reg[a].obj
              /\ r.session = session[a]
          BY <1>1, <4>1 DEF Registration
        <4>3. reg' = [reg EXCEPT ![a] = r]
          BY <1>1, <3>2, <4>1 DEF RegTypes
        <4>4. bound[a] = NoObject /\ retained[a] = NoObject
          BY <3>2 DEF Existing
        <4> QED BY <1>1, <3>2, <4>2, <4>3, <4>4, OneAdvances
      <3> QED BY <1>3, <3>1, <3>2 DEF RegisterIdentifies, RegisterEnds
    <2> QED BY <2>1, <2>2, GentleProper
  <1> QED BY <1>2, <1>3

LEMMA SettlingIsProper ==
  ASSUME Memory, NEW a \in Agent,
         \/ RegisterCreates(a) \/ RegisterSucceeds(a) \/ RegisterPreserves(a)
         \/ RegisterRetains(a) \/ RegisterNotSaved(a)
  PROVE  Proper
  <1>1. CASE RegisterCreates(a)
    <2>1. /\ Moved(a) /\ reg'[a].pc \in {"saving", "retaining"} /\ Persist({a})
          /\ disk' = disk /\ tagLeft' = tagLeft /\ reg[a].pc = "creating"
      BY <1>1, CreateMoves DEF RegisterCreates
    <2>2. \A c \in Agent : c # a => reg'[c].pc = reg[c].pc
      BY <2>1 DEF Moved, SameReg
    <2> QED BY <2>1, <2>2, MovedAll DEF Proper
  <1>2. CASE RegisterSucceeds(a) \/ RegisterPreserves(a)
    <2>1. /\ Moved(a) /\ reg[a].pc \in {"saved", "failed"} /\ reg'[a].pc = "idle" /\ SameImage
          /\ disk' = disk /\ tagLeft' = tagLeft /\ saves' = saves
      BY <1>2, SettleMoves
    <2>2. \A c \in Agent : c # a => reg'[c].pc = reg[c].pc
      BY <2>1 DEF Moved, SameReg
    <2> QED BY <2>1, <2>2, MovedAll DEF Proper
  <1>3. CASE RegisterRetains(a) \/ RegisterNotSaved(a)
    <2>1. /\ Moved(a) /\ disk' = disk /\ tagLeft' = tagLeft
          /\ \/ reg[a].pc = "saved" /\ reg'[a].pc = "retaining" /\ Persist({a})
             \/ reg[a].pc = "failed" /\ reg'[a].pc = "idle" /\ saves' = saves
      BY <1>3, RetainMoves
    <2>2. \A c \in Agent : c # a => reg'[c].pc = reg[c].pc
      BY <2>1 DEF Moved, SameReg
    <2> QED BY <2>1, <2>2, MovedAll DEF Proper
  <1> QED BY <1>1, <1>2, <1>3


LEMMA GoesOfflineIsProper ==
  ASSUME Memory, NEW a \in Agent, GoesOffline(a)
  PROVE  Proper
  <1>1. /\ reg' = Cancelled({a}) /\ UNCHANGED serviceVars /\ disk' = disk /\ RegTypes
        /\ UNCHANGED <<threads, tagLeft, agentsPaused, started, loading>>
    BY DEF GoesOffline, Memory, serviceVars, flagVars
  <1>2. Gentle
    BY <1>1, CancelGentle
  <1>3. CASE UNCHANGED <<memoryVars, saves, forwarding>>
    BY <1>1, <1>2, <1>3, GentleProper
  <1>4. CASE Leave(a)
    <2>1. Moved(a) /\ Persist({})
      BY <1>1, <1>4, LeaveMoves
    <2>2. \A c \in Agent : reg'[c].pc = reg[c].pc
      BY <1>1, CancelledReg
    <2> QED BY <1>1, <2>1, <2>2, MovedAll DEF Proper
  <1> QED BY <1>3, <1>4 DEF GoesOffline

LEMMA LeavingIsProper ==
  ASSUME Memory, NEW a \in Agent, GoOffline(a) \/ GoOfflineEnds(a) \/ SessionExits(a)
  PROVE  Proper
  <1>1. RegTypes
    BY DEF Memory
  <1>2. CASE GoOffline(a)
    BY <1>2, GoesOfflineIsProper DEF GoOffline
  <1>3. CASE GoOfflineEnds(a)
    <2>1. Leave(a) /\ reg' = reg /\ UNCHANGED serviceVars /\ disk' = disk /\ tagLeft' = tagLeft
      BY <1>3 DEF GoOfflineEnds, serviceVars, flagVars
    <2>2. Moved(a) /\ Persist({})
      BY <2>1, LeaveMoves
    <2> QED BY <2>1, <2>2, MovedAll DEF Proper
  <1>4. CASE SessionExits(a)
    <2>1. CASE GoesOffline(a)
      BY <2>1, GoesOfflineIsProper
    <2>2. CASE ~GoesOffline(a)
      <3>1. UNCHANGED <<serviceVars, memoryVars, reg, storeVars, forwarding>>
        BY <1>4, <2>2 DEF SessionExits
      <3>2. UNCHANGED <<memoryVars, threads, saves, disk, tagLeft, agentsPaused, started, loading,
                        forwarding, reg>>
        BY <3>1 DEF serviceVars, flagVars, storeVars
      <3> QED BY <1>1, <3>2, StillGentle, GentleProper
    <2> QED BY <2>1, <2>2
  <1> QED BY <1>2, <1>3, <1>4

LEMMA QuietIsProper ==
  ASSUME Memory,
         \/ \E a \in Agent : \/ ResetBegins(a) \/ SessionOpens(a) \/ SessionReady(a)
                             \/ \E v \in Visit : VisitBegins(v, a)
         \/ \E a \in Orchestrator : RestoreBegins(a)
         \/ Start \/ Stop
  PROVE  Proper
  <1>1. RegTypes
    BY DEF Memory
  <1>2. ASSUME NEW a \in Agent,
               ResetBegins(a) \/ SessionOpens(a) \/ SessionReady(a)
                  \/ \E v \in Visit : VisitBegins(v, a)
        PROVE  Proper
    <2>1. UNCHANGED <<memoryVars, threads, saves, disk, tagLeft, agentsPaused, started, loading,
                      forwarding, reg>>
      BY <1>2 DEF ResetBegins, SessionOpens, SessionReady, VisitBegins, serviceVars, flagVars,
                  storeVars, taskVars
    <2> QED BY <1>1, <2>1, StillGentle, GentleProper
  <1>3. ASSUME NEW a \in Orchestrator, RestoreBegins(a)
        PROVE  Proper
    <2>1. UNCHANGED <<memoryVars, threads, saves, disk, tagLeft, agentsPaused, started, loading,
                      forwarding, reg>>
      BY <1>3 DEF RestoreBegins, serviceVars, flagVars, storeVars
    <2> QED BY <1>1, <2>1, StillGentle, GentleProper
  <1>4. CASE Start
    <2>1. UNCHANGED <<memoryVars, threads, saves, disk, tagLeft, agentsPaused, reg>> /\ loading'
      BY <1>4 DEF Start, taskVars, storeVars
    <2> QED BY <1>1, <2>1, StillGentle, GentleProper
  <1>5. CASE Stop
    <2>1. /\ UNCHANGED <<memoryVars, threads, saves, disk, tagLeft, agentsPaused>> /\ ~started'
          /\ reg' = Cancelled(Agent)
      BY <1>5 DEF Stop, storeVars
    <2>2. Gentle
      BY <1>1, <2>1, CancelGentle
    <2> QED BY <2>1, <2>2, GentleProper
  <1> QED BY <1>2, <1>3, <1>4, <1>5

LEMMA VisitingIsProper ==
  ASSUME Memory, NEW v \in Visit, VisitIdentifies(v) \/ VisitReconnects(v)
  PROVE  Proper
  <1>1. RegTypes /\ visit[v].agent \in Agent
    BY DEF Memory, TaskTypes
  <1>2. CASE VisitIdentifies(v)
    <2>1. CASE GoesOffline(visit[v].agent)
      BY <1>1, <2>1, GoesOfflineIsProper
    <2>2. CASE ~GoesOffline(visit[v].agent)
      <3>1. UNCHANGED <<serviceVars, memoryVars, reg, storeVars, forwarding>>
        BY <1>2, <2>2 DEF VisitIdentifies
      <3>2. UNCHANGED <<memoryVars, threads, saves, disk, tagLeft, agentsPaused, started, loading,
                        forwarding, reg>>
        BY <3>1 DEF serviceVars, flagVars, storeVars
      <3> QED BY <1>1, <3>2, StillGentle, GentleProper
    <2> QED BY <2>1, <2>2
  <1>3. CASE VisitReconnects(v)
    <2>1. /\ \/ \E a \in Agent : Moved(a) /\ Persist({})
             \/ UNCHANGED <<obj, bound, retained, kept, forwarding, saves>>
          /\ UNCHANGED <<reg, threads, disk>> /\ FlagsSame
      BY <1>3, ReconnectMoves
    <2>2. CASE \E a \in Agent : Moved(a) /\ Persist({})
      BY <2>1, <2>2, MovedAll DEF Proper, FlagsSame
    <2>3. CASE UNCHANGED <<obj, bound, retained, kept, forwarding, saves>>
      BY <1>1, <2>1, <2>3, StillGentle, GentleProper DEF memoryVars, FlagsSame
    <2> QED BY <2>1, <2>2, <2>3
  <1> QED BY <1>2, <1>3

LEMMA RestoringIsProper ==
  ASSUME Memory, NEW a \in Orchestrator, RestoreEnds(a)
  PROVE  Proper
  <1>1. RegTypes /\ a \in Agent
    BY Constants DEF Memory
  <1>2. /\ \/ Moved(a) /\ Persist({})
           \/ UNCHANGED <<obj, bound, retained, kept, forwarding, saves>>
        /\ UNCHANGED <<reg, threads, disk>> /\ FlagsSame
    BY RestoreMoves
  <1>3. CASE Moved(a) /\ Persist({})
    BY <1>1, <1>2, <1>3, MovedAll DEF Proper, FlagsSame
  <1>4. CASE UNCHANGED <<obj, bound, retained, kept, forwarding, saves>>
    BY <1>1, <1>2, <1>4, StillGentle, GentleProper DEF memoryVars, FlagsSame
  <1> QED BY <1>2, <1>3, <1>4

LEMMA ResettingIsProper ==
  ASSUME Memory, NEW a \in Agent, ResetEnds(a), resetting[a].session # 0
  PROVE  Proper
  <1>1. Moved(a) /\ Persist({}) /\ UNCHANGED <<reg, disk>> /\ FlagsSame
    BY ResetMoves
  <1> QED BY <1>1, MovedAll DEF Proper, FlagsSame

LEMMA PausingIsProper ==
  ASSUME Memory, Pause \/ Resume
  PROVE  Proper
  <1>1. CASE Pause
    <2>1. AllMoved /\ Persist({}) /\ reg' = Cancelled(Pausable) /\ disk' = disk /\ tagLeft' = tagLeft
      BY <1>1, PauseMoves
    <2>2. \A c \in Agent : reg'[c].pc = reg[c].pc
      BY <2>1, CancelledReg DEF Memory
    <2> QED BY <2>1, <2>2 DEF Proper
  <1>2. CASE Resume
    <2>1. /\ AllMoved /\ reg' = reg /\ disk' = disk /\ (tagLeft => tagLeft')
          /\ (obj' = obj /\ saves' = saves) \/ Persist({})
          /\ bound' = bound /\ kept' = kept
      BY <1>2, ResumeMoves
    <2>2. obj' = obj => SameImage
      BY <2>1 DEF SameImage, ImageOf
    <2> QED BY <2>1, <2>2 DEF Proper
  <1> QED BY <1>1, <1>2

Elsewhere == StartLoads \/ Crash \/ \E n \in DOMAIN saves : SaveEnds(n)

LEMMA StepsAreProper ==
  ASSUME Memory, Next, ~Elsewhere,
         \A a \in Agent : resetting[a] # NoReset => resetting[a].session # 0
  PROVE  Proper
  <1>1. ASSUME NEW a \in Agent, ResetEnds(a)
        PROVE  Proper
    BY <1>1, ResettingIsProper DEF ResetEnds
  <1> QED BY <1>1, RegisteringIsProper, IdentifyingIsProper, SettlingIsProper, LeavingIsProper,
             QuietIsProper, VisitingIsProper, RestoringIsProper, PausingIsProper
          DEF Next, Elsewhere


-----------------------------------------------------------------------------
(* The store and the writes under way.                                     *)

StoreInv ==
    /\ saves \in Seq(Save)
    /\ Good(disk) /\ \A n \in DOMAIN saves : Good(saves[n].image)
    /\ ~tagLeft => Coherent(disk) /\ \A n \in DOMAIN saves : Coherent(saves[n].image)

(* Who waits for a save: registrations that have begun one, each for its own. *)
WaitInv ==
    /\ \A n \in DOMAIN saves : \A a \in saves[n].waiter :
          a \in Agent => reg[a].pc \in {"saving", "retaining"}
    /\ \A m, n \in DOMAIN saves : m # n => saves[m].waiter \cap saves[n].waiter = {}

LEMMA NewImage ==
  ASSUME AllMoved, NEW i, i = ImageOf(obj', bound', kept')
  PROVE  Good(i) /\ (~tagLeft' => Coherent(i))
  <1>1. /\ i.bindings = [a \in Agent |-> IF bound'[a] = NoObject THEN Nothing
                                         ELSE Copy(obj'[a][bound'[a]])]
        /\ i.kept = kept' /\ i = [bindings |-> i.bindings, kept |-> i.kept]
    BY DEF ImageOf
  <1>2. ASSUME NEW a \in Agent
        PROVE  /\ bound'[a] = NoObject => i.bindings[a] = Nothing
               /\ bound'[a] # NoObject =>
                     /\ i.bindings[a] \in Stored
                     /\ i.bindings[a].thread = obj'[a][bound'[a]].thread
                     /\ i.bindings[a].thread # 0 /\ i.bindings[a].session # 0
                     /\ i.bindings[a].paused <=> obj'[a][bound'[a]].paused
    <2>1. obj'[a] \in Seq(Obj) /\ bound'[a] \in Object \cup {NoObject} /\ bound'[a] <= Len(obj'[a])
      BY DEF AllMoved, ListTypes, Heap, InHeap
    <2>2. bound'[a] # NoObject => obj'[a][bound'[a]] \in Obj
      BY <2>1, LenProperties, ElementOfSeq, Constants
    <2>3. i.bindings[a] = IF bound'[a] = NoObject THEN Nothing ELSE Copy(obj'[a][bound'[a]])
      BY <1>1
    <2>4. ASSUME NEW r \in Obj
          PROVE  /\ Copy(r) \in Stored /\ Copy(r).thread = r.thread /\ Copy(r).thread # 0
                 /\ Copy(r).session # 0 /\ Copy(r).paused = r.paused
      BY Constants DEF Copy, Obj, Stored
    <2>5. CASE bound'[a] = NoObject
      BY <2>3, <2>5
    <2>6. CASE bound'[a] # NoObject
      <3>1. PICK r : r = obj'[a][bound'[a]]
        OBVIOUS
      <3>2. r \in Obj /\ i.bindings[a] = Copy(r)
        BY <2>2, <2>3, <2>6, <3>1
      <3>3. /\ Copy(r) \in Stored /\ Copy(r).thread = r.thread /\ Copy(r).thread # 0
            /\ Copy(r).session # 0 /\ Copy(r).paused = r.paused
        BY <2>4, <3>2
      <3> QED BY <2>6, <3>1, <3>2, <3>3
    <2> QED BY <2>5, <2>6
  <1>3. i.bindings \in [Agent -> Stored] /\ i.kept \in [Agent -> Stored]
    <2>1. \A a \in Agent : i.bindings[a] \in Stored
      BY <1>2, Constants
    <2> QED BY <1>1, <2>1 DEF AllMoved, ListTypes
  <1>4. i \in Image
    BY <1>1, <1>3 DEF Image
  <1>5. ASSUME NEW a \in Agent
        PROVE  GoodEntry(i, a)
    <2>1. AgentInv(a)'
      BY DEF AllMoved
    <2>2. SameThread(a)'
      BY <2>1 DEF AgentInv
    <2> QED BY <1>1, <1>2, <2>2, Constants DEF GoodEntry, SameThread
  <1>6. ~tagLeft' => Coherent(i)
    <2>1. SUFFICES ASSUME ~tagLeft', PausedIn(i), NEW a \in Pausable, i.bindings[a].thread # 0
                   PROVE  i.bindings[a].paused
      BY DEF Coherent
    <2>2. \A c \in Pausable : Obeys(c)' /\ c \in Agent
      BY Constants DEF AllMoved, AgentInv
    <2>3. agentsPaused'
      <3>1. PICK c \in Pausable : i.bindings[c].paused \/ i.kept[c].paused
        BY <2>1 DEF PausedIn
      <3>2. c \in Agent /\ Obeys(c)'
        BY <2>2
      <3>3. i.bindings[c].paused => bound'[c] # NoObject /\ obj'[c][bound'[c]].paused
        BY <1>2, <3>2, Constants
      <3> QED BY <1>1, <2>1, <3>1, <3>2, <3>3 DEF Obeys
    <2>4. a \in Agent /\ bound'[a] # NoObject
      BY <1>2, <2>1, <2>2, Constants
    <2> QED BY <1>2, <2>1, <2>2, <2>3, <2>4 DEF Obeys
  <1> QED BY <1>4, <1>5, <1>6 DEF Good

(* A save begins: it is the last. *)
LEMMA Appending ==
  ASSUME NEW s \in Seq(Save), NEW e \in Save, NEW g, g = Append(s, e)
  PROVE  /\ g \in Seq(Save) /\ g # <<>> /\ Len(g) = Len(s) + 1 /\ Len(s) \in Nat
         /\ DOMAIN g = 1..(Len(s) + 1) /\ DOMAIN s = 1..Len(s)
         /\ \A m \in DOMAIN s : g[m] = s[m]
         /\ g[Len(s) + 1] = e
  BY AppendProperties, LenProperties

LEMMA PersistKeeps ==
  ASSUME AllMoved, NEW w \in SUBSET Agent, Persist(w), StoreInv, WaitInv, disk' = disk,
         tagLeft => tagLeft',
         \A a \in Agent : reg[a].pc \in {"saving", "retaining"} => reg'[a].pc = reg[a].pc,
         \A a \in w : reg[a].pc \notin {"saving", "retaining"}
                      /\ reg'[a].pc \in {"saving", "retaining"}
  PROVE  StoreInv' /\ WaitInv' /\ saves' # <<>>
         /\ saves'[Len(saves')].image = ImageOf(obj', bound', kept')
  <1>1. PICK i : i = ImageOf(obj', bound', kept')
    OBVIOUS
  <1>2. Good(i) /\ (~tagLeft' => Coherent(i))
    BY <1>1, NewImage
  <1>3. PICK e : e = [image |-> i, waiter |-> w]
    OBVIOUS
  <1>4. e \in Save /\ e.image = i /\ e.waiter = w
    BY <1>2, <1>3 DEF Save, Good
  <1>5. PICK g : g = saves'
    OBVIOUS
  <1>6. g = Append(saves, e)
    BY <1>1, <1>3, <1>5 DEF Persist
  <1>7. /\ g \in Seq(Save) /\ g # <<>> /\ Len(g) = Len(saves) + 1 /\ Len(saves) \in Nat
        /\ DOMAIN g = 1..(Len(saves) + 1) /\ DOMAIN saves = 1..Len(saves)
        /\ \A m \in DOMAIN saves : g[m] = saves[m]
        /\ g[Len(saves) + 1] = e
    BY <1>4, <1>6, Appending DEF StoreInv
  <1>8. \A m \in DOMAIN g : m \in DOMAIN saves \/ (m = Len(saves) + 1 /\ m \notin DOMAIN saves)
    BY <1>7
  <1>9. \A m \in DOMAIN g : \/ m \in DOMAIN saves /\ g[m] = saves[m]
                            \/ m = Len(saves) + 1 /\ m \notin DOMAIN saves /\ g[m] = e
    BY <1>7, <1>8
  <1>10. \A m \in DOMAIN g : Good(g[m].image) /\ (~tagLeft' => Coherent(g[m].image))
    BY <1>2, <1>4, <1>9 DEF StoreInv
  <1>11. StoreInv'
    BY <1>5, <1>7, <1>10 DEF StoreInv
  <1>12. \A m \in DOMAIN g : \A a \in g[m].waiter :
            a \in Agent => reg'[a].pc \in {"saving", "retaining"}
    BY <1>4, <1>9 DEF WaitInv
  <1>13. \A m \in DOMAIN saves : saves[m].waiter \cap w = {}
    BY DEF WaitInv
  <1>14. \A m, n \in DOMAIN g : m # n => g[m].waiter \cap g[n].waiter = {}
    BY <1>4, <1>9, <1>13 DEF WaitInv
  <1> QED BY <1>1, <1>4, <1>5, <1>7, <1>11, <1>12, <1>14 DEF WaitInv

LEMMA ProperStore ==
  ASSUME StoreInv, WaitInv, Proper
  PROVE  /\ StoreInv' /\ WaitInv'
         /\ \/ saves' = saves
            \/ /\ saves' # <<>>
               /\ saves'[Len(saves')].image = ImageOf(obj', bound', kept')
  <1>1. /\ AllMoved /\ disk' = disk /\ (tagLeft => tagLeft')
        /\ \A a \in Agent : reg[a].pc \in {"saving", "retaining"} => reg'[a].pc = reg[a].pc
    BY DEF Proper
  <1>2. CASE saves' = saves
    BY <1>1, <1>2 DEF StoreInv, WaitInv
  <1>3. CASE Persist({})
    <2>1. {} \in SUBSET Agent /\ \A a \in {} : reg[a].pc \notin {"saving", "retaining"}
                                             /\ reg'[a].pc \in {"saving", "retaining"}
      OBVIOUS
    <2> QED BY <1>1, <1>3, <2>1, PersistKeeps
  <1>4. ASSUME NEW a \in Agent, Persist({a}), reg[a].pc \notin {"saving", "retaining"},
               reg'[a].pc \in {"saving", "retaining"}
        PROVE  /\ StoreInv' /\ WaitInv' /\ saves' # <<>>
               /\ saves'[Len(saves')].image = ImageOf(obj', bound', kept')
    <2>1. {a} \in SUBSET Agent /\ \A c \in {a} : reg[c].pc \notin {"saving", "retaining"}
                                             /\ reg'[c].pc \in {"saving", "retaining"}
      BY <1>4
    <2> QED BY <1>1, <1>4, <2>1, PersistKeeps
  <1> QED BY <1>2, <1>3, <1>4 DEF Proper


-----------------------------------------------------------------------------
(* A save ends, the store is read, the application crashes.                *)

LEMMA Removing ==
  ASSUME NEW s \in Seq(Save), NEW n \in DOMAIN s, NEW g, g = RemoveAt(s, n)
  PROVE  /\ g \in Seq(Save) /\ Len(g) = Len(s) - 1 /\ Len(s) \in Nat /\ DOMAIN s = 1..Len(s)
         /\ DOMAIN g = 1..(Len(s) - 1)
         /\ \A m \in DOMAIN g : g[m] = s[IF m < n THEN m ELSE m + 1]
  <1>1. /\ Len(s) \in Nat /\ DOMAIN s = 1..Len(s) /\ n \in 1..Len(s)
        /\ \A m \in 1..Len(s) : s[m] \in Save
    BY LenProperties, ElementOfSeq
  <1> DEFINE p == SubSeq(s, 1, n - 1)
             q == SubSeq(s, n + 1, Len(s))
  <1>2. /\ p \in Seq(Save) /\ Len(p) = n - 1
        /\ \A m \in 1..(n - 1) : p[m] = s[m]
    <2>1. /\ 1 \in Int /\ n - 1 \in Int
          /\ \A m \in 1..(n - 1) : s[m] \in Save
      BY <1>1
    <2>2. /\ p \in Seq(Save) /\ Len(p) = IF 1 <= n - 1 THEN n - 1 - 1 + 1 ELSE 0
          /\ \A m \in 1..(n - 1 - 1 + 1) : p[m] = s[1 + m - 1]
      BY <2>1, SubSeqProperties
    <2> HIDE DEF p
    <2> QED BY <1>1, <2>2
  <1>3. /\ q \in Seq(Save) /\ Len(q) = Len(s) - n
        /\ \A m \in 1..(Len(s) - n) : q[m] = s[m + n]
    <2>1. /\ n + 1 \in Int /\ Len(s) \in Int
          /\ \A m \in (n + 1)..Len(s) : s[m] \in Save
      BY <1>1
    <2>2. /\ q \in Seq(Save) /\ Len(q) = IF n + 1 <= Len(s) THEN Len(s) - (n + 1) + 1 ELSE 0
          /\ \A m \in 1..(Len(s) - (n + 1) + 1) : q[m] = s[n + 1 + m - 1]
      BY <2>1, SubSeqProperties
    <2> HIDE DEF q
    <2>3. Len(s) \in Nat /\ n \in 1..Len(s)
      BY <1>1
    <2>4. Len(q) = Len(s) - n
      BY <2>2, <2>3
    <2>5. ASSUME NEW m \in 1..(Len(s) - n)
          PROVE  q[m] = s[m + n]
      <3>1. m \in 1..(Len(s) - (n + 1) + 1) /\ n + 1 + m - 1 = m + n
        BY <2>3
      <3> QED BY <2>2, <3>1
    <2> QED BY <2>2, <2>4, <2>5
  <1>4. g = p \o q
    BY DEF RemoveAt
  <1> HIDE DEF p, q
  <1>5. /\ p \o q \in Seq(Save) /\ Len(p \o q) = Len(p) + Len(q)
        /\ \A i \in 1..(Len(p) + Len(q)) :
              (p \o q)[i] = IF i <= Len(p) THEN p[i] ELSE q[i - Len(p)]
    <2>1. p \in Seq(Save) /\ q \in Seq(Save)
      BY <1>2, <1>3
    <2> QED BY <2>1, ConcatProperties
  <1>6. g \in Seq(Save) /\ Len(g) = Len(s) - 1 /\ DOMAIN g = 1..(Len(s) - 1)
    <2>1. g \in Seq(Save) /\ Len(g) = Len(s) - 1
      BY <1>1, <1>2, <1>3, <1>4, <1>5
    <2> QED BY <2>1, LenProperties
  <1>7. ASSUME NEW m \in 1..(Len(s) - 1)
        PROVE  g[m] = s[IF m < n THEN m ELSE m + 1]
    <2>1. g[m] = IF m <= n - 1 THEN p[m] ELSE q[m - (n - 1)]
      <3>1. Len(p) = n - 1 /\ Len(p) + Len(q) = Len(s) - 1
        BY <1>1, <1>2, <1>3
      <3>2. m \in 1..(Len(p) + Len(q))
        BY <3>1
      <3>3. (p \o q)[m] = IF m <= Len(p) THEN p[m] ELSE q[m - Len(p)]
        BY <1>5, <3>2
      <3> QED BY <1>4, <3>1, <3>3
    <2>2. CASE m < n
      <3>1. m <= n - 1 /\ m \in 1..(n - 1)
        BY <1>1, <2>2
      <3> QED BY <1>2, <2>1, <2>2, <3>1
    <2>3. CASE ~(m < n)
      <3>1. ~(m <= n - 1) /\ m - (n - 1) \in 1..(Len(s) - n) /\ (m - (n - 1)) + n = m + 1
        BY <1>1, <2>3
      <3>2. q[m - (n - 1)] = s[(m - (n - 1)) + n]
        BY <1>3, <3>1
      <3> QED BY <2>1, <2>3, <3>1, <3>2
    <2> QED BY <2>2, <2>3
  <1> QED BY <1>1, <1>6, <1>7

LEMMA ResumedReg ==
  ASSUME RegTypes, NEW w, NEW p, p \in {"saved", "failed"}, NEW c \in Agent,
         c \in w => reg[c].pc \in {"saving", "retaining"}
  PROVE  /\ Resumed(w, p)[c] \in Registration
         /\ c \notin w => Resumed(w, p)[c] = reg[c]
         /\ c \in w /\ reg[c].pc = "retaining" => Resumed(w, p)[c] = IdleReg
         /\ c \in w /\ reg[c].pc = "saving" =>
               Resumed(w, p)[c].pc = p /\ Resumed(w, p)[c].obj = reg[c].obj
  <1>1. /\ reg[c] \in Registration
        /\ Resumed(w, p)[c] = IF c \notin w THEN reg[c]
                              ELSE IF reg[c].pc = "retaining" THEN IdleReg
                              ELSE [reg[c] EXCEPT !.pc = p]
    BY DEF RegTypes, Resumed
  <1>2. PICK r : r = [reg[c] EXCEPT !.pc = p]
    OBVIOUS
  <1>3. r \in Registration /\ r.pc = p /\ r.obj = reg[c].obj
    BY <1>1, <1>2 DEF Registration
  <1> QED BY <1>1, <1>2, <1>3, Constants

LEMMA SaveMoves ==
  ASSUME Memory, StoreInv, WaitInv, NEW n \in DOMAIN saves, SaveEnds(n)
  PROVE  /\ AllMoved /\ StoreInv' /\ WaitInv'
         /\ \A c \in Agent : reg'[c].pc = "failed" => reg[c].pc = "failed" \/ failures' # failures
         /\ \/ disk' = saves[n].image
            \/ failures' = failures + 1
  <1>1. /\ UNCHANGED <<obj, bound, retained, kept, threads, started, loading, agentsPaused,
                       tagLeft, forwarding>>
        /\ saves' = RemoveAt(saves, n)
        /\ \/ disk' = saves[n].image \/ disk' = disk
    BY DEF SaveEnds, serviceVars, flagVars, memoryVars
  <1>2. PICK p \in {"saved", "failed"} :
           /\ reg' = Resumed(saves[n].waiter, p)
           /\ p = "failed" => failures' = failures + 1
           /\ p = "saved" => disk' = saves[n].image /\ failures' = failures
    BY DEF SaveEnds
  <1>3. /\ \A c \in saves[n].waiter : c \in Agent => reg[c].pc \in {"saving", "retaining"}
        /\ RegTypes
    BY DEF WaitInv, Memory
  <1>4. ASSUME NEW c \in Agent
        PROVE  /\ reg'[c] \in Registration
               /\ c \notin saves[n].waiter => reg'[c] = reg[c]
               /\ c \in saves[n].waiter /\ reg[c].pc = "retaining" => reg'[c] = IdleReg
               /\ c \in saves[n].waiter /\ reg[c].pc = "saving" =>
                     reg'[c].pc = p /\ reg'[c].obj = reg[c].obj
    BY <1>2, <1>3, ResumedReg
  <1>5. RegTypes'
    <2>1. reg' = [c \in Agent |-> reg'[c]]
      BY <1>2 DEF Resumed
    <2>2. \A c \in Agent : reg'[c] \in Registration
      BY <1>4
    <2> QED BY <2>1, <2>2 DEF RegTypes
  <1>6. ASSUME NEW c \in Agent
        PROVE  /\ InHeap(c)' /\ AgentInv(c)'
               /\ reg'[c].pc = "failed" => reg[c].pc = "failed" \/ p = "failed"
    <2>1. InHeap(c) /\ AgentInv(c) /\ ListTypes /\ Len(obj[c]) \in Nat
      BY References DEF Memory
    <2>2. /\ Holds(c)' <=> Holds(c)
          /\ reg'[c].obj = reg[c].obj \/ (reg'[c].obj = NoObject /\ ~Holds(c))
          /\ reg'[c].pc = "creating" => reg'[c] = reg[c]
          /\ reg'[c].pc = "failed" => reg[c].pc = "failed" \/ p = "failed"
      <3>1. CASE c \notin saves[n].waiter
        BY <1>4, <3>1 DEF Holds
      <3>2. CASE c \in saves[n].waiter /\ reg[c].pc = "retaining"
        BY <1>4, <3>2, Constants DEF Holds
      <3>3. CASE c \in saves[n].waiter /\ reg[c].pc = "saving"
        BY <1>4, <3>3 DEF Holds
      <3> QED BY <1>3, <3>1, <3>2, <3>3
    <2>3. InHeap(c)'
      BY <1>1, <2>1, <2>2, Constants DEF InHeap
    <2>4. Linked(c)'
      BY <1>1, <2>1, <2>2 DEF AgentInv, Linked, Holds
    <2>5. SameThread(c)' /\ Dark(c)' /\ Obeys(c)' /\ Mirrored(c)'
      BY <1>1, <2>1, <2>2 DEF AgentInv, SameThread, Dark, Obeys, Mirrored, BoundOnline
    <2> QED BY <2>2, <2>3, <2>4, <2>5 DEF AgentInv
  <1>7. AllMoved
    BY <1>1, <1>5, <1>6 DEF AllMoved, Memory, ListTypes
  <1>8. PICK g : g = saves'
    OBVIOUS
  <1>9. /\ g \in Seq(Save) /\ Len(g) = Len(saves) - 1 /\ Len(saves) \in Nat
        /\ DOMAIN saves = 1..Len(saves) /\ DOMAIN g = 1..(Len(saves) - 1)
        /\ \A m \in DOMAIN g : g[m] = saves[IF m < n THEN m ELSE m + 1]
    BY <1>1, <1>8, Removing DEF StoreInv
  <1> DEFINE at(m) == IF m < n THEN m ELSE m + 1
  <1>10. ASSUME NEW m \in DOMAIN g
         PROVE  at(m) \in DOMAIN saves /\ at(m) # n /\ g[m] = saves[at(m)]
    BY <1>9
  <1>11. \A l, m \in DOMAIN g : l # m => at(l) # at(m)
    BY <1>9
  <1> HIDE DEF at
  <1>12. StoreInv'
    BY <1>1, <1>8, <1>9, <1>10 DEF StoreInv
  <1>13. WaitInv'
    <2>1. ASSUME NEW m \in DOMAIN g, NEW c \in g[m].waiter, c \in Agent
          PROVE  reg'[c].pc \in {"saving", "retaining"}
      <3>1. /\ at(m) \in DOMAIN saves /\ at(m) # n /\ c \in saves[at(m)].waiter
        BY <1>10, <2>1
      <3>2. c \notin saves[n].waiter
        BY <3>1 DEF WaitInv
      <3> QED BY <1>4, <2>1, <3>1, <3>2 DEF WaitInv
    <2>2. ASSUME NEW l \in DOMAIN g, NEW m \in DOMAIN g, l # m
          PROVE  g[l].waiter \cap g[m].waiter = {}
      BY <1>10, <1>11, <2>2 DEF WaitInv
    <2> QED BY <1>8, <2>1, <2>2 DEF WaitInv
  <1>14. failures \in Nat
    BY Constants DEF Memory, FlagTypes
  <1> QED BY <1>2, <1>6, <1>7, <1>12, <1>13, <1>14

LEMMA CrashMoves ==
  ASSUME Memory, StoreInv, Crash
  PROVE  AllMoved /\ StoreInv' /\ WaitInv'
  <1>1. /\ obj' = [a \in Agent |-> <<>>] /\ bound' = [a \in Agent |-> NoObject]
        /\ retained' = [a \in Agent |-> NoObject] /\ kept' = [a \in Agent |-> Nothing]
        /\ reg' = [a \in Agent |-> IdleReg] /\ saves' = <<>> /\ disk' = disk
        /\ threads' = threads /\ tagLeft' = tagLeft /\ ~agentsPaused' /\ ~started'
    BY DEF Crash
  <1>2. <<>> \in Seq(Obj) /\ Len(<<>>) = 0 /\ <<>> \in Seq(Save) /\ DOMAIN <<>> = {}
    <2>1. <<>> \in Seq(Obj) /\ <<>> \in Seq(Save) /\ Len(<<>>) = 0
      BY EmptySeq
    <2> QED BY <2>1, LenProperties
  <1>3. ListTypes' /\ RegTypes'
    BY <1>1, <1>2, Constants DEF Memory, ListTypes, Heap, RegTypes
  <1>4. ASSUME NEW a \in Agent
        PROVE  InHeap(a)' /\ AgentInv(a)'
    <2>1. /\ obj'[a] = <<>> /\ bound'[a] = NoObject /\ retained'[a] = NoObject
          /\ kept'[a] = Nothing /\ reg'[a] = IdleReg
      BY <1>1
    <2>2. InHeap(a)'
      BY <1>2, <2>1, Constants DEF InHeap
    <2>3. Linked(a)' /\ SameThread(a)' /\ Dark(a)' /\ Obeys(a)' /\ Mirrored(a)'
      BY <1>1, <2>1, Constants DEF Linked, Holds, SameThread, Dark, Obeys, Mirrored
    <2> QED BY <2>2, <2>3 DEF AgentInv
  <1>5. StoreInv' /\ WaitInv'
    BY <1>1, <1>2 DEF StoreInv, WaitInv
  <1> QED BY <1>3, <1>4, <1>5 DEF AllMoved


-----------------------------------------------------------------------------
(* The rest of the types.                                                  *)

LEMMA FlagsKept ==
  ASSUME FlagTypes, ListTypes, Next
  PROVE  FlagTypes' /\ (failures' = failures \/ failures' = failures + 1)
  <1>1. /\ MaxStarts \in Nat /\ MaxPauses \in Nat /\ MaxFailures \in Nat
        /\ starts \in Nat /\ pauses \in Nat /\ failures \in Nat
    BY Constants DEF FlagTypes
  <1>2. ASSUME NEW a \in Agent,
               \/ Register(a) \/ RegisterChecks(a) \/ DeadlinePasses(a)
               \/ RegisterIdentifies(a) \/ RegisterFailsToCreate(a) \/ RegisterCreates(a)
        PROVE  FlagTypes' /\ (failures' = failures \/ failures' = failures + 1)
    <2>1. CASE Register(a) \/ RegisterChecks(a)
      BY <2>1 DEF Register, RegisterChecks, RegisterEnds, serviceVars, flagVars, storeVars, FlagTypes
    <2>2. CASE DeadlinePasses(a) \/ RegisterFailsToCreate(a)
      BY <1>1, <2>2 DEF DeadlinePasses, RegisterFailsToCreate, serviceVars, flagVars, FlagTypes
    <2>3. CASE RegisterIdentifies(a)
      BY <2>3 DEF RegisterIdentifies, RegisterEnds, FinishBegins, serviceVars, flagVars, storeVars,
                  FlagTypes
    <2>4. CASE RegisterCreates(a)
      BY <2>4 DEF RegisterCreates, FinishBegins, flagVars, FlagTypes
    <2> QED BY <1>2, <2>1, <2>2, <2>3, <2>4
  <1>3. ASSUME NEW a \in Agent,
               \/ RegisterSucceeds(a) \/ RegisterPreserves(a) \/ RegisterRetains(a)
               \/ RegisterNotSaved(a)
        PROVE  FlagTypes' /\ (failures' = failures \/ failures' = failures + 1)
    BY <1>3 DEF RegisterSucceeds, RegisterPreserves, RegisterSettles, RegisterRetains,
       RegisterNotSaved, serviceVars, flagVars, storeVars, FlagTypes
  <1>4. ASSUME NEW a \in Agent,
               \/ GoOffline(a) \/ GoOfflineEnds(a) \/ ResetBegins(a) \/ ResetEnds(a)
               \/ SessionOpens(a) \/ SessionReady(a) \/ SessionExits(a)
               \/ \E v \in Visit : VisitBegins(v, a)
        PROVE  FlagTypes' /\ (failures' = failures \/ failures' = failures + 1)
    BY <1>4 DEF GoOffline, GoesOffline, GoOfflineEnds, ResetBegins, ResetEnds, SessionOpens,
       SessionReady, SessionExits, VisitBegins, serviceVars, flagVars, storeVars, FlagTypes
  <1>5. ASSUME NEW v \in Visit, VisitIdentifies(v) \/ VisitReconnects(v)
        PROVE  FlagTypes' /\ (failures' = failures \/ failures' = failures + 1)
    BY <1>5 DEF VisitIdentifies, VisitReconnects, GoesOffline, serviceVars, flagVars, storeVars,
       FlagTypes
  <1>6. ASSUME NEW a \in Orchestrator, RestoreBegins(a) \/ RestoreEnds(a)
        PROVE  FlagTypes' /\ (failures' = failures \/ failures' = failures + 1)
    BY <1>6 DEF RestoreBegins, RestoreEnds, serviceVars, flagVars, storeVars, FlagTypes
  <1>7. CASE Pause
    BY <1>1, <1>7 DEF Pause, FlagTypes
  <1>8. CASE Resume
    <2>1. tagLeft' = (tagLeft \/ Tags') /\ agentsPaused' = FALSE
          /\ UNCHANGED <<started, loading, starts, pauses, failures>>
      BY <1>8 DEF Resume
    <2>2. tagLeft' \in BOOLEAN
      BY <2>1
    <2> QED BY <2>1, <2>2 DEF FlagTypes
  <1>9. CASE Start
    BY <1>1, <1>9 DEF Start, storeVars, FlagTypes
  <1>10. CASE StartLoads
    <2>1. agentsPaused' = PausedIn(disk) /\ loading' = FALSE
          /\ UNCHANGED <<started, starts, pauses, tagLeft, failures>>
      BY <1>10 DEF StartLoads, storeVars
    <2>2. PausedIn(disk) \in BOOLEAN
      BY DEF PausedIn
    <2> QED BY <2>1, <2>2 DEF FlagTypes
  <1>11. CASE Stop
    BY <1>11 DEF Stop, storeVars, FlagTypes
  <1>12. CASE Crash
    BY <1>12 DEF Crash, FlagTypes
  <1>13. ASSUME NEW n \in DOMAIN saves, SaveEnds(n)
         PROVE  FlagTypes' /\ (failures' = failures \/ failures' = failures + 1)
    BY <1>1, <1>13 DEF SaveEnds, serviceVars, flagVars, FlagTypes
  <1> QED BY <1>2, <1>3, <1>4, <1>5, <1>6, <1>7, <1>8, <1>9, <1>10, <1>11, <1>12, <1>13 DEF Next

LEMMA SessionsKept ==
  ASSUME SessionTypes, TaskTypes, Next
  PROVE  SessionTypes'
  <1>0. MaxSessions \in Nat
    BY Constants
  <1>1. \A v \in Visit : visit[v].agent \in Agent
    BY DEF TaskTypes
  <1>2. ASSUME NEW a \in Agent,
               \/ Register(a) \/ RegisterChecks(a) \/ DeadlinePasses(a)
               \/ RegisterIdentifies(a) \/ RegisterFailsToCreate(a) \/ RegisterCreates(a)
        PROVE  SessionTypes'
    BY <1>2 DEF Register, RegisterChecks, RegisterEnds, DeadlinePasses, RegisterIdentifies,
       FinishBegins, RegisterFailsToCreate, RegisterCreates, sessionVars, SessionTypes
  <1>3. ASSUME NEW a \in Agent,
               \/ RegisterSucceeds(a) \/ RegisterPreserves(a) \/ RegisterRetains(a)
               \/ RegisterNotSaved(a)
        PROVE  SessionTypes'
    BY <1>3 DEF RegisterSucceeds, RegisterPreserves, RegisterSettles, RegisterRetains,
       RegisterNotSaved, sessionVars, SessionTypes
  <1>4. ASSUME NEW a \in Agent, GoesOffline(a)
        PROVE  forwarding' \in SUBSET Agent
    BY <1>4 DEF GoesOffline, Leave, SessionTypes
  <1>5. ASSUME NEW a \in Agent, GoOffline(a) \/ GoOfflineEnds(a) \/ ResetEnds(a)
                                  \/ \E v \in Visit : VisitBegins(v, a)
        PROVE  SessionTypes'
    BY <1>4, <1>5 DEF GoOffline, GoOfflineEnds, Leave, ResetEnds, VisitBegins, sessionVars,
       SessionTypes
  <1>6. ASSUME NEW a \in Agent, ResetBegins(a) \/ SessionOpens(a) \/ SessionReady(a)
        PROVE  SessionTypes'
    <2>1. CASE ResetBegins(a) \/ SessionOpens(a)
      <3>1. /\ session[a] < MaxSessions /\ session' = [session EXCEPT ![a] = session[a] + 1]
            /\ ready' = ready \ {a} /\ forwarding' = forwarding
        BY <2>1 DEF ResetBegins, SessionOpens
      <3>2. session[a] + 1 \in 0..MaxSessions
        BY <1>0, <3>1 DEF SessionTypes
      <3> QED BY <3>1, <3>2 DEF SessionTypes
    <2>2. CASE SessionReady(a)
      BY <2>2 DEF SessionReady, SessionTypes
    <2> QED BY <1>6, <2>1, <2>2
  <1>7. ASSUME NEW a \in Agent, SessionExits(a)
        PROVE  SessionTypes'
    <2>1. forwarding' \in SUBSET Agent
      BY <1>4, <1>7 DEF SessionExits, SessionTypes
    <2> QED BY <1>7, <2>1 DEF SessionExits, SessionTypes
  <1>8. ASSUME NEW v \in Visit, VisitIdentifies(v)
        PROVE  SessionTypes'
    <2>1. forwarding' \in SUBSET Agent
      BY <1>1, <1>4, <1>8 DEF VisitIdentifies, SessionTypes
    <2>2. session' = session /\ ready' = ready
      BY <1>8 DEF VisitIdentifies, sessionVars
    <2> QED BY <2>1, <2>2 DEF SessionTypes
  <1>9. ASSUME NEW v \in Visit, VisitReconnects(v)
        PROVE  SessionTypes'
    BY <1>1, <1>9 DEF VisitReconnects, sessionVars, SessionTypes
  <1>10. ASSUME NEW a \in Orchestrator, RestoreBegins(a) \/ RestoreEnds(a)
         PROVE  SessionTypes'
    BY <1>10, Constants DEF RestoreBegins, RestoreEnds, sessionVars, SessionTypes
  <1>11. CASE Pause \/ Resume \/ Start \/ StartLoads \/ Stop
    BY <1>11 DEF Pause, Resume, Start, StartLoads, Stop, sessionVars, SessionTypes
  <1>12. CASE Crash
    BY <1>12 DEF Crash, SessionTypes
  <1>13. ASSUME NEW n \in DOMAIN saves, SaveEnds(n)
         PROVE  SessionTypes'
    BY <1>13 DEF SaveEnds, sessionVars, SessionTypes
  <1> QED BY <1>2, <1>3, <1>5, <1>6, <1>7, <1>8, <1>9, <1>10, <1>11, <1>12, <1>13 DEF Next


(* A reset adopts a session that exists. *)
ResetInv == \A a \in Agent : resetting[a] # NoReset => resetting[a].session # 0

VisitTypes ==
    visit \in [Visit -> [pc : {"idle", "identifying", "probing"},
                         agent : Agent, obj : Object \cup {NoObject},
                         session : 0..MaxSessions, ready : BOOLEAN]]
RestoreTypes ==
    restoring \in [Orchestrator -> [pc : {"unloaded", "due", "asking", "done"},
                                     obj : Object \cup {NoObject}]]
LeavingTypes == leaving \in [Agent -> 0..MaxLeaving]
ResetTypes ==
    resetting \in [Agent -> [obj : Object \cup {NoObject}, session : 0..MaxSessions]]

LEMMA ResetsKept ==
  ASSUME ResetTypes, ResetInv, SessionTypes, ListTypes, Next
  PROVE  ResetTypes' /\ ResetInv'
  <1>1. CASE resetting' = resetting
    BY <1>1 DEF ResetTypes, ResetInv
  <1>2. ASSUME NEW a \in Agent, NEW r, r \in [obj : Object \cup {NoObject}, session : 0..MaxSessions],
               r # NoReset => r.session # 0, resetting' = [resetting EXCEPT ![a] = r]
        PROVE  ResetTypes' /\ ResetInv'
    BY <1>2 DEF ResetTypes, ResetInv
  <1>3. NoReset \in [obj : Object \cup {NoObject}, session : 0..MaxSessions]
    BY Constants DEF NoReset
  <1>4. ASSUME NEW a \in Agent, ResetBegins(a)
        PROVE  ResetTypes' /\ ResetInv'
    <2>1. PICK s : s = session[a] + 1
      OBVIOUS
    <2>2. s \in 1..MaxSessions /\ session'[a] = s
      BY <1>4, <2>1, Constants DEF ResetBegins, SessionTypes
    <2>3. PICK r : r = [obj |-> bound[a], session |-> s]
      OBVIOUS
    <2>4. r \in [obj : Object \cup {NoObject}, session : 0..MaxSessions] /\ r.session # 0
      BY <2>2, <2>3, Constants DEF ListTypes
    <2>5. resetting' = [resetting EXCEPT ![a] = r]
      BY <1>4, <2>2, <2>3 DEF ResetBegins
    <2> QED BY <1>2, <2>4, <2>5
  <1>5. ASSUME NEW a \in Agent, ResetEnds(a)
        PROVE  ResetTypes' /\ ResetInv'
    BY <1>2, <1>3, <1>5 DEF ResetEnds
  <1>6. CASE Crash
    BY <1>3, <1>6 DEF Crash, ResetTypes, ResetInv
  <1>7. ASSUME NEW a \in Agent,
               \/ Register(a) \/ RegisterChecks(a) \/ DeadlinePasses(a)
               \/ RegisterIdentifies(a) \/ RegisterFailsToCreate(a) \/ RegisterCreates(a)
               \/ RegisterSucceeds(a) \/ RegisterPreserves(a) \/ RegisterRetains(a)
               \/ RegisterNotSaved(a)
        PROVE  resetting' = resetting
    <2>1. CASE Register(a) \/ RegisterChecks(a) \/ DeadlinePasses(a) \/ RegisterFailsToCreate(a)
      BY <2>1 DEF Register, RegisterChecks, RegisterEnds, DeadlinePasses, RegisterFailsToCreate,
                  adoptVars
    <2>2. CASE RegisterIdentifies(a) \/ RegisterCreates(a)
      BY <2>2 DEF RegisterIdentifies, RegisterEnds, RegisterCreates, FinishBegins, adoptVars
    <2>3. CASE RegisterSucceeds(a) \/ RegisterPreserves(a) \/ RegisterRetains(a) \/ RegisterNotSaved(a)
      BY <2>3 DEF RegisterSucceeds, RegisterPreserves, RegisterSettles, RegisterRetains,
                  RegisterNotSaved, adoptVars
    <2> QED BY <1>7, <2>1, <2>2, <2>3
  <1>8. ASSUME NEW a \in Agent, \/ GoOffline(a) \/ GoOfflineEnds(a)
               \/ SessionOpens(a) \/ SessionReady(a) \/ SessionExits(a)
               \/ \E v \in Visit : VisitBegins(v, a)
        PROVE  resetting' = resetting
    BY <1>8 DEF GoOffline, GoesOffline, GoOfflineEnds, SessionOpens, SessionReady, SessionExits,
                VisitBegins, adoptVars, taskVars
  <1>9. ASSUME NEW v \in Visit, VisitIdentifies(v) \/ VisitReconnects(v)
        PROVE  resetting' = resetting
    BY <1>9 DEF VisitIdentifies, GoesOffline, VisitReconnects, adoptVars
  <1>10. ASSUME \/ \E a \in Orchestrator : RestoreBegins(a) \/ RestoreEnds(a)
                \/ Pause \/ Resume \/ Start \/ StartLoads \/ Stop
                \/ \E n \in DOMAIN saves : SaveEnds(n)
         PROVE  resetting' = resetting
    BY <1>10 DEF RestoreBegins, RestoreEnds, Pause, Resume, Start, StartLoads, Stop, SaveEnds,
                 adoptVars, taskVars
  <1> QED BY <1>1, <1>4, <1>5, <1>6, <1>7, <1>8, <1>9, <1>10 DEF Next

LEMMA LeavingKept ==
  ASSUME LeavingTypes, VisitTypes, Next
  PROVE  LeavingTypes'
  <1>0. MaxLeaving \in Nat
    BY Constants
  <1>1. CASE leaving' = leaving
    BY <1>1 DEF LeavingTypes
  <1>2. ASSUME NEW a \in Agent, GoesOffline(a)
        PROVE  LeavingTypes'
    <2>1. CASE leaving[a] < MaxLeaving /\ leaving' = [leaving EXCEPT ![a] = leaving[a] + 1]
      <3>1. leaving[a] + 1 \in 0..MaxLeaving
        BY <1>0, <2>1 DEF LeavingTypes
      <3> QED BY <2>1, <3>1 DEF LeavingTypes
    <2> QED BY <1>1, <1>2, <2>1 DEF GoesOffline
  <1>3. ASSUME NEW a \in Agent, GoOfflineEnds(a)
        PROVE  LeavingTypes'
    <2>1. leaving[a] > 0 /\ leaving' = [leaving EXCEPT ![a] = leaving[a] - 1]
      BY <1>3 DEF GoOfflineEnds
    <2>2. leaving[a] - 1 \in 0..MaxLeaving
      BY <1>0, <2>1 DEF LeavingTypes
    <2> QED BY <2>1, <2>2 DEF LeavingTypes
  <1>4. CASE Crash
    BY <1>0, <1>4 DEF Crash, LeavingTypes
  <1>5. ASSUME NEW a \in Agent,
               \/ Register(a) \/ RegisterChecks(a) \/ DeadlinePasses(a)
               \/ RegisterIdentifies(a) \/ RegisterFailsToCreate(a) \/ RegisterCreates(a)
               \/ RegisterSucceeds(a) \/ RegisterPreserves(a) \/ RegisterRetains(a)
               \/ RegisterNotSaved(a)
        PROVE  leaving' = leaving
    <2>1. CASE Register(a) \/ RegisterChecks(a) \/ DeadlinePasses(a) \/ RegisterFailsToCreate(a)
      BY <2>1 DEF Register, RegisterChecks, RegisterEnds, DeadlinePasses, RegisterFailsToCreate
    <2>2. CASE RegisterIdentifies(a) \/ RegisterCreates(a)
      BY <2>2 DEF RegisterIdentifies, RegisterEnds, RegisterCreates, FinishBegins
    <2>3. CASE RegisterSucceeds(a) \/ RegisterPreserves(a) \/ RegisterRetains(a) \/ RegisterNotSaved(a)
      BY <2>3 DEF RegisterSucceeds, RegisterPreserves, RegisterSettles, RegisterRetains,
                  RegisterNotSaved
    <2> QED BY <1>5, <2>1, <2>2, <2>3
  <1>6. ASSUME NEW a \in Agent, \/ SessionOpens(a) \/ SessionReady(a) \/ ResetBegins(a) \/ ResetEnds(a)
               \/ \E v \in Visit : VisitBegins(v, a)
        PROVE  leaving' = leaving
    BY <1>6 DEF SessionOpens, SessionReady, ResetBegins, ResetEnds, VisitBegins, taskVars
  <1>7. ASSUME NEW a \in Agent, GoOffline(a) \/ SessionExits(a)
        PROVE  LeavingTypes'
    BY <1>1, <1>2, <1>7 DEF GoOffline, SessionExits
  <1>8. ASSUME NEW v \in Visit, VisitIdentifies(v) \/ VisitReconnects(v)
        PROVE  LeavingTypes'
    <2>1. visit[v].agent \in Agent
      BY DEF VisitTypes
    <2> QED BY <1>1, <1>2, <1>8, <2>1 DEF VisitIdentifies, VisitReconnects
  <1>9. ASSUME \/ \E a \in Orchestrator : RestoreBegins(a) \/ RestoreEnds(a)
               \/ Pause \/ Resume \/ Start \/ StartLoads \/ Stop
               \/ \E n \in DOMAIN saves : SaveEnds(n)
        PROVE  leaving' = leaving
    BY <1>9 DEF RestoreBegins, RestoreEnds, Pause, Resume, Start, StartLoads, Stop, SaveEnds,
                taskVars
  <1>10. ASSUME NEW a \in Agent,
               \/ Register(a) \/ RegisterChecks(a) \/ DeadlinePasses(a)
               \/ RegisterIdentifies(a) \/ RegisterFailsToCreate(a) \/ RegisterCreates(a)
               \/ RegisterSucceeds(a) \/ RegisterPreserves(a) \/ RegisterRetains(a)
               \/ RegisterNotSaved(a)
               \/ GoOffline(a) \/ GoOfflineEnds(a) \/ ResetBegins(a) \/ ResetEnds(a)
               \/ SessionOpens(a) \/ SessionReady(a) \/ SessionExits(a)
               \/ \E v \in Visit : VisitBegins(v, a)
         PROVE  LeavingTypes'
    BY <1>1, <1>3, <1>5, <1>6, <1>7, <1>10
  <1> QED BY <1>1, <1>4, <1>8, <1>9, <1>10 DEF Next


VisitType == [pc : {"idle", "identifying", "probing"},
              agent : Agent, obj : Object \cup {NoObject},
              session : 0..MaxSessions, ready : BOOLEAN]

LEMMA VisitsKept ==
  ASSUME VisitTypes, SessionTypes, ListTypes, Next
  PROVE  VisitTypes'
  <1>1. IdleVisit \in VisitType /\ IdleVisit.pc = "idle" /\ IdleVisit.ready = FALSE
    <2>1. (CHOOSE a \in Agent : TRUE) \in Agent
      BY ConnectionsAssumption
    <2> QED BY <2>1, Constants DEF IdleVisit, VisitType
  <1>2. CASE visit' = visit
    BY <1>2 DEF VisitTypes
  <1>3. ASSUME NEW v \in Visit, NEW r \in VisitType, visit' = [visit EXCEPT ![v] = r]
        PROVE  VisitTypes'
    BY <1>3 DEF VisitTypes, VisitType
  <1>4. ASSUME NEW a \in Agent, NEW v \in Visit, VisitBegins(v, a)
        PROVE  VisitTypes'
    <2>1. PICK r : r = [IdleVisit EXCEPT !.pc = "identifying", !.agent = a, !.obj = bound[a],
                                         !.session = session[a]]
      OBVIOUS
    <2>2. bound[a] \in Object \cup {NoObject} /\ session[a] \in 0..MaxSessions
      BY DEF ListTypes, SessionTypes
    <2>3. r \in VisitType
      BY <1>1, <2>1, <2>2 DEF IdleVisit, VisitType
    <2>4. visit' = [visit EXCEPT ![v] = r]
      BY <1>4, <2>1 DEF VisitBegins
    <2> QED BY <1>3, <2>3, <2>4
  <1>5. ASSUME NEW v \in Visit, VisitIdentifies(v)
        PROVE  VisitTypes'
    <2>1. CASE VisitEnds(v)
      BY <1>1, <1>3, <2>1 DEF VisitEnds
    <2>2. CASE visit' = [visit EXCEPT ![v].pc = "probing", ![v].ready = visit[v].agent \in ready]
      <3>1. (visit[v].agent \in ready) \in BOOLEAN
        OBVIOUS
      <3>2. PICK r : r = [visit[v] EXCEPT !.pc = "probing", !.ready = visit[v].agent \in ready]
        OBVIOUS
      <3>3. visit[v] \in VisitType
        BY DEF VisitTypes, VisitType
      <3>4. r \in VisitType
        BY <3>1, <3>2, <3>3 DEF VisitType
      <3>5. visit' = [visit EXCEPT ![v] = r]
        BY <2>2, <3>2 DEF VisitTypes
      <3> QED BY <1>3, <3>4, <3>5
    <2> QED BY <1>5, <2>1, <2>2 DEF VisitIdentifies
  <1>6. ASSUME NEW v \in Visit, VisitReconnects(v)
        PROVE  VisitTypes'
    BY <1>1, <1>3, <1>6 DEF VisitReconnects, VisitEnds
  <1>7. CASE Crash
    <2>1. visit' = [v \in Visit |-> IdleVisit]
      BY <1>7 DEF Crash
    <2> QED BY <1>1, <2>1 DEF VisitTypes, VisitType
  <1>8. ASSUME NEW a \in Agent,
               \/ Register(a) \/ RegisterChecks(a) \/ DeadlinePasses(a)
               \/ RegisterIdentifies(a) \/ RegisterFailsToCreate(a) \/ RegisterCreates(a)
               \/ RegisterSucceeds(a) \/ RegisterPreserves(a) \/ RegisterRetains(a)
               \/ RegisterNotSaved(a)
        PROVE  visit' = visit
    <2>1. CASE Register(a) \/ RegisterChecks(a) \/ DeadlinePasses(a) \/ RegisterFailsToCreate(a)
      BY <2>1 DEF Register, RegisterChecks, RegisterEnds, DeadlinePasses, RegisterFailsToCreate
    <2>2. CASE RegisterIdentifies(a) \/ RegisterCreates(a)
      BY <2>2 DEF RegisterIdentifies, RegisterEnds, RegisterCreates, FinishBegins
    <2>3. CASE RegisterSucceeds(a) \/ RegisterPreserves(a) \/ RegisterRetains(a) \/ RegisterNotSaved(a)
      BY <2>3 DEF RegisterSucceeds, RegisterPreserves, RegisterSettles, RegisterRetains,
                  RegisterNotSaved
    <2> QED BY <1>8, <2>1, <2>2, <2>3
  <1>9. ASSUME NEW a \in Agent,
               \/ GoOffline(a) \/ GoOfflineEnds(a) \/ ResetBegins(a) \/ ResetEnds(a)
               \/ SessionOpens(a) \/ SessionReady(a) \/ SessionExits(a)
        PROVE  visit' = visit
    BY <1>9 DEF GoOffline, GoOfflineEnds, SessionOpens, SessionReady, SessionExits, ResetBegins,
                ResetEnds, taskVars
  <1>10. ASSUME \/ \E a \in Orchestrator : RestoreBegins(a) \/ RestoreEnds(a)
                \/ Pause \/ Resume \/ Start \/ StartLoads \/ Stop
                \/ \E n \in DOMAIN saves : SaveEnds(n)
         PROVE  visit' = visit
    BY <1>10 DEF RestoreBegins, RestoreEnds, Pause, Resume, Start, StartLoads, Stop, SaveEnds,
                 taskVars
  <1>11. ASSUME NEW a \in Agent,
               \/ Register(a) \/ RegisterChecks(a) \/ DeadlinePasses(a)
               \/ RegisterIdentifies(a) \/ RegisterFailsToCreate(a) \/ RegisterCreates(a)
               \/ RegisterSucceeds(a) \/ RegisterPreserves(a) \/ RegisterRetains(a)
               \/ RegisterNotSaved(a)
               \/ GoOffline(a) \/ GoOfflineEnds(a) \/ ResetBegins(a) \/ ResetEnds(a)
               \/ SessionOpens(a) \/ SessionReady(a) \/ SessionExits(a)
               \/ \E v \in Visit : VisitBegins(v, a)
         PROVE  VisitTypes'
    BY <1>2, <1>4, <1>8, <1>9, <1>11
  <1> QED BY <1>2, <1>5, <1>6, <1>7, <1>10, <1>11 DEF Next

LEMMA RestoresKept ==
  ASSUME RestoreTypes, ListTypes, Next
  PROVE  RestoreTypes'
  <1> DEFINE R == [pc : {"unloaded", "due", "asking", "done"}, obj : Object \cup {NoObject}]
  <1>1. NotRestored \in R
    BY Constants DEF NotRestored
  <1>2. CASE restoring' = restoring
    BY <1>2 DEF RestoreTypes
  <1>3. ASSUME NEW a \in Orchestrator, RestoreBegins(a) \/ RestoreEnds(a)
        PROVE  RestoreTypes'
    <2>1. a \in Agent /\ bound[a] \in Object \cup {NoObject} /\ NoObject \in Object \cup {NoObject}
      BY Constants DEF ListTypes
    <2>2. PICK r \in R : restoring' = [restoring EXCEPT ![a] = r]
      <3>1. /\ [pc |-> "done", obj |-> NoObject] \in R
            /\ [pc |-> "asking", obj |-> bound[a]] \in R
        BY <2>1
      <3>2. CASE RestoreEnds(a)
        BY <3>1, <3>2 DEF RestoreEnds
      <3>3. CASE RestoreBegins(a) /\ (bound[a] = NoObject \/ BoundOnline(a))
        BY <3>1, <3>3 DEF RestoreBegins
      <3>4. CASE RestoreBegins(a) /\ ~(bound[a] = NoObject \/ BoundOnline(a))
        BY <3>1, <3>4 DEF RestoreBegins
      <3> QED BY <1>3, <3>2, <3>3, <3>4
    <2> QED BY <2>2 DEF RestoreTypes
  <1>4. CASE StartLoads
    <2>1. ASSUME NEW a \in Orchestrator
          PROVE  (IF restoring[a].pc # "unloaded" THEN restoring[a]
                  ELSE [NotRestored EXCEPT !.pc = IF bound'[a] = NoObject THEN "done" ELSE "due"])
                 \in R
      BY <1>1 DEF RestoreTypes, NotRestored
    <2> QED BY <1>4, <2>1 DEF StartLoads, RestoreTypes
  <1>5. CASE Crash
    BY <1>1, <1>5 DEF Crash, RestoreTypes
  <1>6. ASSUME NEW a \in Agent,
               \/ Register(a) \/ RegisterChecks(a) \/ DeadlinePasses(a)
               \/ RegisterIdentifies(a) \/ RegisterFailsToCreate(a) \/ RegisterCreates(a)
               \/ RegisterSucceeds(a) \/ RegisterPreserves(a) \/ RegisterRetains(a)
               \/ RegisterNotSaved(a)
        PROVE  restoring' = restoring
    <2>1. CASE Register(a) \/ RegisterChecks(a) \/ DeadlinePasses(a) \/ RegisterFailsToCreate(a)
      BY <2>1 DEF Register, RegisterChecks, RegisterEnds, DeadlinePasses, RegisterFailsToCreate,
                  adoptVars
    <2>2. CASE RegisterIdentifies(a) \/ RegisterCreates(a)
      BY <2>2 DEF RegisterIdentifies, RegisterEnds, RegisterCreates, FinishBegins, adoptVars
    <2>3. CASE RegisterSucceeds(a) \/ RegisterPreserves(a) \/ RegisterRetains(a) \/ RegisterNotSaved(a)
      BY <2>3 DEF RegisterSucceeds, RegisterPreserves, RegisterSettles, RegisterRetains,
                  RegisterNotSaved, adoptVars
    <2> QED BY <1>6, <2>1, <2>2, <2>3
  <1>7. ASSUME NEW a \in Agent,
               \/ GoOffline(a) \/ GoOfflineEnds(a) \/ ResetBegins(a) \/ ResetEnds(a)
               \/ SessionOpens(a) \/ SessionReady(a) \/ SessionExits(a)
               \/ \E v \in Visit : VisitBegins(v, a)
        PROVE  restoring' = restoring
    BY <1>7 DEF GoOffline, GoesOffline, GoOfflineEnds, SessionOpens, SessionReady, SessionExits,
                ResetBegins, ResetEnds, VisitBegins, adoptVars, taskVars
  <1>8. ASSUME NEW v \in Visit, VisitIdentifies(v) \/ VisitReconnects(v)
        PROVE  restoring' = restoring
    BY <1>8 DEF VisitIdentifies, GoesOffline, VisitReconnects, adoptVars
  <1>9. ASSUME Pause \/ Resume \/ Start \/ Stop \/ \E n \in DOMAIN saves : SaveEnds(n)
         PROVE  restoring' = restoring
    BY <1>9 DEF Pause, Resume, Start, Stop, SaveEnds, adoptVars, taskVars
  <1>10. ASSUME NEW a \in Agent,
               \/ Register(a) \/ RegisterChecks(a) \/ DeadlinePasses(a)
               \/ RegisterIdentifies(a) \/ RegisterFailsToCreate(a) \/ RegisterCreates(a)
               \/ RegisterSucceeds(a) \/ RegisterPreserves(a) \/ RegisterRetains(a)
               \/ RegisterNotSaved(a)
               \/ GoOffline(a) \/ GoOfflineEnds(a) \/ ResetBegins(a) \/ ResetEnds(a)
               \/ SessionOpens(a) \/ SessionReady(a) \/ SessionExits(a)
               \/ \E v \in Visit : VisitBegins(v, a)
         PROVE  RestoreTypes'
    BY <1>2, <1>6, <1>7, <1>10
  <1> QED BY <1>2, <1>3, <1>4, <1>5, <1>8, <1>9, <1>10 DEF Next


-----------------------------------------------------------------------------
(* While the service reads the store nothing else is under way.            *)

CalmInv ==
    loading => /\ saves = <<>>
               /\ \A a \in Agent : reg[a].pc = "idle" /\ leaving[a] = 0 /\ resetting[a] = NoReset
               /\ \A v \in Visit : visit[v].pc = "idle"
               /\ \A a \in Orchestrator : restoring[a].pc # "asking"

(* What may happen while it does, but the end of it and a crash. *)
Idles ==
    \/ Stop
    \/ \E a \in Agent : \/ SessionOpens(a) \/ SessionReady(a)
                        \/ SessionExits(a) /\ UNCHANGED <<taskVars, saves, memoryVars>>

LEMMA LoadingIsCalm ==
  ASSUME CalmStart, CalmInv, loading, RegTypes, TaskTypes, Next, ~StartLoads, ~Crash
  PROVE  Idles
  <1>1. /\ saves = <<>> /\ ~Open
        /\ \A a \in Agent : reg[a].pc = "idle" /\ leaving[a] = 0 /\ resetting[a] = NoReset
        /\ \A v \in Visit : visit[v].pc = "idle"
        /\ \A a \in Orchestrator : restoring[a].pc # "asking"
    BY DEF CalmInv, Open
  <1>2. ASSUME NEW a \in Agent,
               \/ Register(a) \/ RegisterChecks(a) \/ DeadlinePasses(a)
               \/ RegisterIdentifies(a) \/ RegisterFailsToCreate(a) \/ RegisterCreates(a)
               \/ RegisterSucceeds(a) \/ RegisterPreserves(a) \/ RegisterRetains(a)
               \/ RegisterNotSaved(a)
        PROVE  FALSE
    BY <1>1, <1>2 DEF Register, RegisterChecks, DeadlinePasses, RegisterIdentifies,
       RegisterFailsToCreate, RegisterCreates, RegisterSucceeds, RegisterPreserves,
       RegisterRetains, RegisterNotSaved
  <1>3. ASSUME NEW a \in Agent,
               \/ GoOffline(a) \/ GoOfflineEnds(a) \/ ResetBegins(a) \/ ResetEnds(a)
               \/ \E v \in Visit : VisitBegins(v, a)
        PROVE  FALSE
    BY <1>1, <1>3 DEF GoOffline, GoOfflineEnds, ResetBegins, ResetEnds, VisitBegins
  <1>4. ASSUME \/ \E v \in Visit : VisitIdentifies(v) \/ VisitReconnects(v)
               \/ \E a \in Orchestrator : RestoreBegins(a) \/ RestoreEnds(a)
               \/ Pause \/ Resume \/ Start
        PROVE  FALSE
    BY <1>1, <1>4 DEF VisitIdentifies, VisitReconnects, RestoreBegins, RestoreEnds, Pause, Resume,
                      Start
  <1>5. DOMAIN saves = {}
    BY <1>1
  <1>6. ASSUME NEW a \in Agent, SessionExits(a)
        PROVE  UNCHANGED <<taskVars, saves, memoryVars>>
    BY <1>6 DEF SessionExits, taskVars, storeVars
  <1> QED BY <1>2, <1>3, <1>4, <1>5, <1>6 DEF Next, Idles

LEMMA CalmKept ==
  ASSUME CalmStart, CalmInv, RegTypes, TaskTypes, Next
  PROVE  CalmInv'
  <1>1. CASE ~loading'
    BY <1>1 DEF CalmInv
  <1>2. CASE loading' /\ ~loading
    <2>1. Start
      <3>1. ASSUME NEW a \in Agent,
               \/ Register(a) \/ RegisterChecks(a) \/ DeadlinePasses(a)
               \/ RegisterIdentifies(a) \/ RegisterFailsToCreate(a) \/ RegisterCreates(a)
               \/ RegisterSucceeds(a) \/ RegisterPreserves(a) \/ RegisterRetains(a)
               \/ RegisterNotSaved(a)
            PROVE  loading' = loading
        <4>1. CASE Register(a) \/ RegisterChecks(a) \/ DeadlinePasses(a) \/ RegisterFailsToCreate(a)
          BY <4>1 DEF Register, RegisterChecks, RegisterEnds, DeadlinePasses, RegisterFailsToCreate,
                      serviceVars, flagVars
        <4>2. CASE RegisterIdentifies(a) \/ RegisterCreates(a)
          BY <4>2 DEF RegisterIdentifies, RegisterEnds, RegisterCreates, FinishBegins, serviceVars,
                      flagVars
        <4>3. CASE RegisterSucceeds(a) \/ RegisterPreserves(a) \/ RegisterRetains(a)
                   \/ RegisterNotSaved(a)
          BY <4>3 DEF RegisterSucceeds, RegisterPreserves, RegisterSettles, RegisterRetains,
                      RegisterNotSaved, serviceVars, flagVars
        <4> QED BY <3>1, <4>1, <4>2, <4>3
      <3>2. ASSUME NEW a \in Agent,
               \/ GoOffline(a) \/ GoOfflineEnds(a) \/ ResetBegins(a) \/ ResetEnds(a)
               \/ SessionOpens(a) \/ SessionReady(a) \/ SessionExits(a)
               \/ \E v \in Visit : VisitBegins(v, a)
            PROVE  loading' = loading
        BY <3>2 DEF GoOffline, GoesOffline, GoOfflineEnds, SessionOpens, SessionReady,
                    SessionExits, ResetBegins, ResetEnds, VisitBegins, serviceVars, flagVars
      <3>3. ASSUME NEW v \in Visit, VisitIdentifies(v) \/ VisitReconnects(v)
            PROVE  loading' = loading
        BY <3>3 DEF VisitIdentifies, GoesOffline, VisitReconnects, serviceVars, flagVars
      <3>4. ASSUME \/ \E a \in Orchestrator : RestoreBegins(a) \/ RestoreEnds(a)
                   \/ Pause \/ Resume \/ Stop \/ \E n \in DOMAIN saves : SaveEnds(n)
            PROVE  loading' = loading
        BY <3>4 DEF RestoreBegins, RestoreEnds, Pause, Resume, Stop, SaveEnds, serviceVars,
                    flagVars
      <3>5. StartLoads \/ Crash => ~loading'
        BY DEF StartLoads, Crash
      <3> QED BY <1>2, <3>1, <3>2, <3>3, <3>4, <3>5 DEF Next
    <2>2. Quiet /\ UNCHANGED <<saves, reg, leaving, visit, restoring, resetting>>
      BY <2>1 DEF Start, taskVars, adoptVars, storeVars
    <2> QED BY <2>2 DEF Quiet, CalmInv
  <1>3. CASE loading' /\ loading
    <2>1. ~StartLoads /\ ~Crash
      BY <1>3 DEF StartLoads, Crash
    <2>2. Idles
      BY <1>3, <2>1, LoadingIsCalm
    <2>3. /\ UNCHANGED <<saves, leaving, visit, restoring, resetting>>
          /\ reg' = reg \/ reg' = Cancelled(Agent)
      BY <2>2 DEF Idles, Stop, SessionOpens, SessionReady, taskVars, adoptVars, storeVars
    <2>4. \A a \in Agent : reg'[a].pc = reg[a].pc
      BY <2>3, CancelledReg
    <2> QED BY <1>3, <2>3, <2>4 DEF CalmInv
  <1> QED BY <1>1, <1>2, <1>3


-----------------------------------------------------------------------------
(* The newest image of the store is what the service holds.                *)

(* The service has not read the store yet. *)
Blank ==
    /\ started => loading
    /\ saves = <<>>
    /\ \A a \in Agent : /\ bound[a] = NoObject /\ obj[a] = <<>> /\ reg[a].pc = "idle"
                        /\ leaving[a] = 0 /\ resetting[a] = NoReset
    /\ \A v \in Visit : visit[v].pc = "idle"
    /\ \A a \in Orchestrator : restoring[a].pc = "unloaded"
Newest == IF saves = <<>> THEN disk ELSE saves[Len(saves)].image
CurrentInv ==
    /\ failures = 0 => \A a \in Agent : reg[a].pc # "failed"
    /\ failures = 0 /\ OrderedWrites => Blank \/ Newest = ImageOf(obj, bound, kept)

LEMMA BlankKept ==
  ASSUME CalmStart, CalmInv, Blank, RegTypes, TaskTypes, Next, ~Elsewhere
  PROVE  Blank'
  <1>1. CASE loading
    <2>1. Idles
      BY <1>1, LoadingIsCalm DEF Elsewhere
    <2>2. /\ UNCHANGED <<saves, leaving, visit, restoring, resetting, obj, bound>>
          /\ reg' = reg \/ reg' = Cancelled(Agent)
          /\ (started' = started /\ loading' = loading) \/ ~started'
      <3>1. CASE Stop
        BY <3>1 DEF Stop, adoptVars, memoryVars, storeVars
      <3>2. CASE \E a \in Agent : SessionOpens(a) \/ SessionReady(a)
        BY <3>2 DEF SessionOpens, SessionReady, taskVars, adoptVars, memoryVars, storeVars,
                    serviceVars, flagVars
      <3>3. CASE \E a \in Agent : SessionExits(a) /\ UNCHANGED <<taskVars, saves, memoryVars>>
        BY <3>3 DEF SessionExits, GoesOffline, taskVars, adoptVars, memoryVars, serviceVars,
                    flagVars
      <3> QED BY <2>1, <3>1, <3>2, <3>3 DEF Idles
    <2>3. \A a \in Agent : reg'[a].pc = reg[a].pc
      BY <2>2, CancelledReg
    <2> QED BY <2>2, <2>3 DEF Blank
  <1>2. CASE ~loading
    <2>1. /\ ~started /\ saves = <<>>
          /\ \A a \in Agent : /\ bound[a] = NoObject /\ reg[a].pc = "idle"
                              /\ leaving[a] = 0 /\ resetting[a] = NoReset
          /\ \A v \in Visit : visit[v].pc = "idle"
          /\ \A a \in Orchestrator : restoring[a].pc = "unloaded"
      BY <1>2 DEF Blank
    <2>2. ASSUME NEW a \in Agent,
               \/ Register(a) \/ RegisterChecks(a) \/ DeadlinePasses(a)
               \/ RegisterIdentifies(a) \/ RegisterFailsToCreate(a) \/ RegisterCreates(a)
               \/ RegisterSucceeds(a) \/ RegisterPreserves(a) \/ RegisterRetains(a)
               \/ RegisterNotSaved(a)
          PROVE  FALSE
      BY <2>1, <2>2 DEF Register, RegisterChecks, DeadlinePasses, RegisterIdentifies,
         RegisterFailsToCreate, RegisterCreates, RegisterSucceeds, RegisterPreserves,
         RegisterRetains, RegisterNotSaved
    <2>3. ASSUME NEW a \in Agent,
               \/ GoOfflineEnds(a) \/ ResetBegins(a) \/ ResetEnds(a)
               \/ \E v \in Visit : VisitBegins(v, a)
          PROVE  FALSE
      BY <2>1, <2>3 DEF GoOfflineEnds, ResetBegins, ResetEnds, VisitBegins
    <2>4. ASSUME \/ \E v \in Visit : VisitIdentifies(v) \/ VisitReconnects(v)
                 \/ \E a \in Orchestrator : RestoreBegins(a) \/ RestoreEnds(a)
                 \/ Pause \/ Resume \/ Stop
          PROVE  FALSE
      BY <2>1, <2>4 DEF VisitIdentifies, VisitReconnects, RestoreBegins, RestoreEnds, Pause,
                        Resume, Stop
    <2>5. ASSUME NEW a \in Agent, GoOffline(a)
          PROVE  Blank'
      <3>1. /\ UNCHANGED <<saves, leaving, visit, restoring, resetting, obj, bound, started,
                           loading>>
            /\ reg' = Cancelled({a})
        BY <2>1, <2>5 DEF GoOffline, GoesOffline, memoryVars, adoptVars, serviceVars, flagVars
      <3>2. \A c \in Agent : reg'[c].pc = reg[c].pc
        BY <3>1, CancelledReg
      <3> QED BY <3>1, <3>2 DEF Blank
    <2>6. ASSUME NEW a \in Agent, SessionOpens(a) \/ SessionReady(a) \/ SessionExits(a)
          PROVE  Blank'
      <3>1. UNCHANGED <<saves, leaving, visit, restoring, resetting, obj, bound, started,
                        loading, reg>>
        BY <2>1, <2>6 DEF SessionOpens, SessionReady, SessionExits, taskVars, memoryVars,
                          adoptVars, serviceVars, flagVars, storeVars
      <3> QED BY <3>1 DEF Blank
    <2>7. CASE Start
      <3>1. /\ UNCHANGED <<saves, leaving, visit, restoring, resetting, obj, bound, reg>>
            /\ loading'
        BY <2>7 DEF Start, taskVars, memoryVars, adoptVars, storeVars
      <3> QED BY <3>1 DEF Blank
    <2> QED BY <2>2, <2>3, <2>4, <2>5, <2>6, <2>7 DEF Next, Elsewhere
  <1> QED BY <1>1, <1>2

LEMMA NewestStays ==
  ASSUME StoreInv, NEW n \in DOMAIN saves, n = 1, saves' = RemoveAt(saves, n),
         disk' = saves[n].image
  PROVE  Newest' = Newest
  <1>1. PICK g : g = saves'
    OBVIOUS
  <1>2. /\ g \in Seq(Save) /\ Len(g) = Len(saves) - 1 /\ Len(saves) \in Nat
        /\ DOMAIN saves = 1..Len(saves) /\ DOMAIN g = 1..(Len(saves) - 1)
        /\ \A m \in DOMAIN g : g[m] = saves[IF m < n THEN m ELSE m + 1]
    BY <1>1, Removing DEF StoreInv
  <1>3. saves # <<>>
    OBVIOUS
  <1>4. CASE Len(saves) = 1
    <2>1. g = <<>>
      BY <1>2, <1>4, EmptySeq
    <2> QED BY <1>1, <1>3, <1>4, <2>1 DEF Newest
  <1>5. CASE Len(saves) # 1
    <2>1. Len(g) \in DOMAIN g /\ g # <<>>
      BY <1>2, <1>5
    <2>2. g[Len(g)] = saves[Len(saves)]
      BY <1>2, <2>1
    <2> QED BY <1>1, <1>3, <2>1, <2>2 DEF Newest
  <1> QED BY <1>4, <1>5

LEMMA CurrentKept ==
  ASSUME Memory, StoreInv, WaitInv, CalmStart, CalmInv, ResetInv, CurrentInv, Next
  PROVE  CurrentInv'
  <1>1. /\ failures' = failures \/ failures' = failures + 1
        /\ failures \in Nat /\ RegTypes /\ TaskTypes
    BY FlagsKept, Constants DEF Memory, FlagTypes
  <1>2. SUFFICES ASSUME failures' = 0
                 PROVE  /\ \A a \in Agent : reg'[a].pc # "failed"
                        /\ OrderedWrites =>
                              Blank' \/ Newest' = ImageOf(obj', bound', kept')
    BY DEF CurrentInv
  <1>3. /\ failures = 0 /\ failures' = failures
        /\ \A a \in Agent : reg[a].pc # "failed"
        /\ OrderedWrites => Blank \/ Newest = ImageOf(obj, bound, kept)
    BY <1>1, <1>2 DEF CurrentInv
  <1>4. CASE ~Elsewhere
    <2>1. Proper
      BY <1>4, StepsAreProper DEF ResetInv
    <2>2. \A a \in Agent : reg'[a].pc # "failed"
      BY <1>3, <2>1 DEF Proper
    <2>3. CASE saves' # saves
      <3>1. saves' # <<>> /\ saves'[Len(saves')].image = ImageOf(obj', bound', kept')
        BY <2>1, <2>3, ProperStore
      <3> QED BY <2>2, <3>1 DEF Newest
    <2>4. CASE saves' = saves
      <3>1. Blank => Blank'
        BY <1>1, <1>4, BlankKept
      <3>2. saves = <<>> \/ saves # <<>>
        OBVIOUS
      <3>3. ~Blank /\ OrderedWrites => Newest' = ImageOf(obj', bound', kept')
        <4>1. \/ SameImage
              \/ \E w \in SUBSET Agent : Persist(w)
          BY <1>3, <2>1 DEF Proper
        <4>2. CASE SameImage
          BY <1>3, <2>1, <2>4, <4>2 DEF SameImage, Newest, Proper
        <4>3. ASSUME NEW w \in SUBSET Agent, Persist(w)
              PROVE  FALSE
          <5>1. PICK e : e = [image |-> ImageOf(obj', bound', kept'), waiter |-> w]
            OBVIOUS
          <5>2. PICK g : g = Append(saves, e) /\ g = saves
            BY <2>4, <4>3, <5>1 DEF Persist
          <5>3. AllMoved
            BY <2>1 DEF Proper
          <5>4. e \in Save
            BY <5>1, <5>3, NewImage DEF Save, Good
          <5>5. Len(g) = Len(saves) + 1 /\ Len(saves) \in Nat
            BY <5>2, <5>4, Appending DEF StoreInv
          <5> QED BY <5>2, <5>5
        <4> QED BY <4>1, <4>2, <4>3
      <3> QED BY <2>2, <3>1, <3>3
    <2> QED BY <2>3, <2>4
  <1>5. CASE StartLoads
    <2>1. /\ \A a \in Agent : reg[a].pc = "idle"
          /\ saves = <<>> /\ saves' = saves /\ disk' = disk
      BY <1>5 DEF StartLoads, CalmInv, storeVars
    <2>2. ImageOf(obj', bound', kept') = disk /\ reg' = reg
      BY <1>5, <2>1, LoadMoves DEF StoreInv
    <2> QED BY <1>3, <2>1, <2>2 DEF Newest
  <1>6. CASE Crash
    <2>1. /\ ~started' /\ saves' = <<>>
          /\ bound' = [a \in Agent |-> NoObject] /\ obj' = [a \in Agent |-> <<>>]
          /\ reg' = [a \in Agent |-> IdleReg] /\ leaving' = [a \in Agent |-> 0]
          /\ visit' = [v \in Visit |-> IdleVisit]
          /\ restoring' = [a \in Orchestrator |-> NotRestored]
          /\ resetting' = [a \in Agent |-> NoReset]
      BY <1>6 DEF Crash
    <2>2. IdleReg.pc = "idle" /\ IdleVisit.pc = "idle" /\ NotRestored.pc = "unloaded"
      BY Constants DEF IdleVisit, NotRestored
    <2>3. Blank'
      BY <2>1, <2>2 DEF Blank
    <2> QED BY <2>1, <2>2, <2>3
  <1>7. ASSUME NEW n \in DOMAIN saves, SaveEnds(n)
        PROVE  /\ \A a \in Agent : reg'[a].pc # "failed"
               /\ OrderedWrites => Newest' = ImageOf(obj', bound', kept')
    <2>1. /\ \A c \in Agent : reg'[c].pc = "failed" => reg[c].pc = "failed" \/ failures' # failures
          /\ disk' = saves[n].image \/ failures' = failures + 1
      BY <1>7, SaveMoves
    <2>2. /\ disk' = saves[n].image /\ \A a \in Agent : reg'[a].pc # "failed"
      BY <1>1, <1>3, <2>1
    <2>3. /\ saves' = RemoveAt(saves, n) /\ (OrderedWrites => n = 1)
          /\ UNCHANGED <<obj, bound, kept>>
      BY <1>7 DEF SaveEnds, memoryVars
    <2>4. ~Blank
      BY DEF Blank
    <2>5. OrderedWrites => Newest' = Newest
      BY <2>2, <2>3, NewestStays
    <2>6. ImageOf(obj', bound', kept') = ImageOf(obj, bound, kept)
      BY <2>3
    <2> QED BY <1>3, <2>2, <2>4, <2>5, <2>6
  <1> QED BY <1>4, <1>5, <1>6, <1>7 DEF Elsewhere


-----------------------------------------------------------------------------
(* The invariant.                                                          *)

IInv == Memory /\ StoreInv /\ WaitInv /\ CalmInv /\ ResetInv /\ CurrentInv

LEMMA Initially == ASSUME Init PROVE IInv
  <1>1. /\ started = FALSE /\ loading = FALSE /\ starts = 0 /\ agentsPaused = FALSE /\ pauses = 0
        /\ tagLeft = FALSE /\ failures = 0 /\ forwarding = {} /\ ready = {} /\ saves = <<>>
        /\ obj = [a \in Agent |-> <<>>] /\ threads = [a \in Agent |-> 0]
        /\ bound = [a \in Agent |-> NoObject] /\ retained = [a \in Agent |-> NoObject]
        /\ kept = [a \in Agent |-> Nothing] /\ reg = [a \in Agent |-> IdleReg]
        /\ leaving = [a \in Agent |-> 0] /\ visit = [v \in Visit |-> IdleVisit]
        /\ restoring = [a \in Orchestrator |-> NotRestored]
        /\ resetting = [a \in Agent |-> NoReset] /\ session = [a \in Agent |-> 0]
        /\ disk = [bindings |-> [a \in Agent |-> Nothing], kept |-> [a \in Agent |-> Nothing]]
    BY DEF Init
  <1>2. <<>> \in Seq(Obj) /\ Len(<<>>) = 0 /\ <<>> \in Seq(Save) /\ DOMAIN <<>> = {}
    <2>1. <<>> \in Seq(Obj) /\ <<>> \in Seq(Save) /\ Len(<<>>) = 0
      BY EmptySeq
    <2> QED BY <2>1, LenProperties
  <1>3. FlagTypes /\ SessionTypes /\ RegTypes
    <2>1. RegTypes
      BY <1>1, Constants DEF RegTypes
    <2>2. FlagTypes
      <3>1. 0 \in 0..MaxStarts /\ 0 \in 0..MaxPauses /\ 0 \in 0..MaxFailures
        BY Constants
      <3>2. FALSE \in BOOLEAN
        OBVIOUS
      <3> QED BY <1>1, <3>1, <3>2 DEF FlagTypes
    <2>3. SessionTypes
      BY <1>1, Constants DEF SessionTypes
    <2> QED BY <2>1, <2>2, <2>3
  <1>4. ListTypes
    BY <1>1, <1>2, Constants DEF ListTypes, Heap
  <1>5. IdleVisit \in [pc : {"idle", "identifying", "probing"},
                       agent : Agent, obj : Object \cup {NoObject},
                       session : 0..MaxSessions, ready : BOOLEAN] /\ IdleVisit.pc = "idle"
    <2>1. (CHOOSE a \in Agent : TRUE) \in Agent
      BY ConnectionsAssumption
    <2> QED BY <2>1, Constants DEF IdleVisit
  <1>6. TaskTypes
    BY <1>1, <1>5, Constants DEF TaskTypes, NotRestored, NoReset
  <1>7. ASSUME NEW a \in Agent
        PROVE  InHeap(a) /\ AgentInv(a)
    <2>1. /\ obj[a] = <<>> /\ bound[a] = NoObject /\ retained[a] = NoObject
          /\ kept[a] = Nothing /\ reg[a] = IdleReg
      BY <1>1
    <2>2. InHeap(a)
      BY <1>2, <2>1, Constants DEF InHeap
    <2>3. Linked(a) /\ SameThread(a) /\ Dark(a) /\ Obeys(a) /\ Mirrored(a)
      BY <1>1, <2>1, Constants DEF Linked, Holds, SameThread, Dark, Obeys, Mirrored
    <2> QED BY <2>2, <2>3 DEF AgentInv
  <1>8. StoreInv /\ WaitInv
    <2>1. disk \in Image /\ \A a \in Agent : GoodEntry(disk, a)
      BY <1>1, Constants DEF Image, GoodEntry
    <2>2. Coherent(disk)
      BY <1>1, Constants DEF Coherent
    <2> QED BY <1>1, <1>2, <2>1, <2>2 DEF StoreInv, WaitInv, Good
  <1>9. CalmInv /\ ResetInv
    BY <1>1 DEF CalmInv, ResetInv
  <1>10. CurrentInv
    <2>1. Blank
      BY <1>1, <1>5, Constants DEF Blank, NotRestored
    <2> QED BY <1>1, <2>1, Constants DEF CurrentInv
  <1> QED BY <1>3, <1>4, <1>6, <1>7, <1>8, <1>9, <1>10 DEF IInv, Memory

LEMMA Inductive ==
  ASSUME CalmStart, IInv, [Next]_vars
  PROVE  IInv'
  <1>1. CASE UNCHANGED vars
    <2>1. /\ UNCHANGED <<started, loading, starts, agentsPaused, pauses, tagLeft, failures>>
          /\ UNCHANGED <<obj, threads, bound, retained, kept, reg, leaving, visit, restoring>>
          /\ UNCHANGED <<resetting, saves, disk, forwarding, session, ready>>
      BY <1>1 DEF vars, serviceVars, flagVars, memoryVars, taskVars, adoptVars, storeVars,
                  sessionVars
    <2>2. FlagTypes' /\ RegTypes' /\ ListTypes' /\ SessionTypes' /\ TaskTypes'
      BY <2>1 DEF IInv, Memory, FlagTypes, RegTypes, ListTypes, SessionTypes, TaskTypes
    <2>3. \A a \in Agent : InHeap(a)' /\ AgentInv(a)'
      BY <2>1 DEF IInv, Memory, InHeap, AgentInv, Linked, SameThread, Dark, Obeys, Mirrored, Holds,
                  BoundOnline
    <2>4. StoreInv' /\ WaitInv' /\ CalmInv' /\ ResetInv'
      BY <2>1 DEF IInv, StoreInv, WaitInv, CalmInv, ResetInv
    <2>5. CurrentInv'
      BY <2>1 DEF IInv, CurrentInv, Blank, Newest
    <2> QED BY <2>2, <2>3, <2>4, <2>5 DEF IInv, Memory
  <1>2. CASE Next
    <2>1. /\ Memory /\ StoreInv /\ WaitInv /\ CalmInv /\ ResetInv /\ CurrentInv
          /\ FlagTypes /\ ListTypes /\ RegTypes /\ SessionTypes /\ TaskTypes
      BY DEF IInv, Memory
    <2>2. FlagTypes' /\ SessionTypes'
      BY <1>2, <2>1, FlagsKept, SessionsKept
    <2>3. VisitTypes /\ RestoreTypes /\ LeavingTypes /\ ResetTypes
      BY <2>1 DEF TaskTypes, VisitTypes, RestoreTypes, LeavingTypes, ResetTypes
    <2>4. VisitTypes' /\ RestoreTypes' /\ LeavingTypes' /\ ResetTypes' /\ ResetInv'
      BY <1>2, <2>1, <2>3, VisitsKept, RestoresKept, LeavingKept, ResetsKept
    <2>5. TaskTypes'
      BY <2>4 DEF TaskTypes, VisitTypes, RestoreTypes, LeavingTypes, ResetTypes
    <2>6. CalmInv'
      BY <1>2, <2>1, CalmKept
    <2>7. CurrentInv'
      BY <1>2, <2>1, CurrentKept
    <2>8. AllMoved /\ StoreInv' /\ WaitInv'
      <3>1. CASE ~Elsewhere
        <4>1. Proper
          BY <1>2, <2>1, <3>1, StepsAreProper DEF ResetInv
        <4> QED BY <2>1, <4>1, ProperStore DEF Proper
      <3>2. CASE StartLoads
        <4>1. /\ \A a \in Agent : reg[a].pc = "idle"
              /\ saves = <<>> /\ saves' = saves /\ disk' = disk
          BY <2>1, <3>2 DEF StartLoads, CalmInv, storeVars
        <4>2. AllMoved /\ reg' = reg /\ tagLeft' = tagLeft
          BY <2>1, <3>2, <4>1, LoadMoves DEF StoreInv
        <4> QED BY <2>1, <4>1, <4>2 DEF StoreInv, WaitInv
      <3>3. CASE Crash
        BY <2>1, <3>3, CrashMoves
      <3>4. CASE \E n \in DOMAIN saves : SaveEnds(n)
        BY <2>1, <3>4, SaveMoves
      <3> QED BY <3>1, <3>2, <3>3, <3>4 DEF Elsewhere
    <2> QED BY <2>2, <2>4, <2>5, <2>6, <2>7, <2>8 DEF IInv, Memory, AllMoved
  <1> QED BY <1>1, <1>2

(* The inductive invariant: the images in memory and on disk, and what     *)
(* each task under way may rely on.  Of the start-up it is assumed that    *)
(* nothing else happens while the store is loaded (CalmStart).             *)
THEOREM Invariance == ASSUME CalmStart PROVE Spec => []IInv
  <1>1. Init => IInv
    BY Initially
  <1>2. IInv /\ [Next]_vars => IInv'
    BY Inductive
  <1> QED BY <1>1, <1>2, PTL DEF Spec

LEMMA DarkWhilePaused == ASSUME IInv PROVE PausedStaysDark
  <1>1. SUFFICES ASSUME agentsPaused, ~tagLeft, NEW a \in Pausable, bound[a] # NoObject
                 PROVE  ~obj[a][bound[a]].online
    BY DEF PausedStaysDark, BoundOnline
  <1>2. Obeys(a)
    BY Constants DEF IInv, Memory, AgentInv
  <1> QED BY <1>1, <1>2 DEF Obeys

LEMMA ThreadsAgree == ASSUME IInv PROVE OneThread
  <1>1. \A a \in Agent : SameThread(a)
    BY DEF IInv, Memory, AgentInv
  <1> QED BY <1>1 DEF OneThread, SameThread

LEMMA MirrorsAgree == ASSUME IInv, OrderedWrites PROVE ConnectionsAreMirrored
  <1>1. TypeOK
    <2>1. Types
      BY DEF IInv, Memory, Types, StoreTypes, StoreInv, Good
    <2> QED BY <2>1, TypesAreOK
  <1>2. OnlineIsMirrored
    <2>1. \A a \in Pausable : Mirrored(a)
      BY Constants DEF IInv, Memory, AgentInv
    <2> QED BY <2>1 DEF OnlineIsMirrored, Mirrored
  <1>3. StoreIsCurrent
    BY DEF IInv, CurrentInv, Blank, Newest, StoreIsCurrent
  <1> QED BY <1>1, <1>2, <1>3 DEF ConnectionsAreMirrored

(* Pausing the office is final until it is resumed: no registration, no    *)
(* reconcile pass and no restart of the service brings an office agent     *)
(* back online while its connections are paused, unless an earlier resume  *)
(* left the tag of a pause on a thread (register's pauseEpoch, reconcile's *)
(* re-checks, the tags that start() reads back).                           *)
THEOREM PausedAgentsStayDark ==
  ASSUME CalmStart PROVE Spec => []PausedStaysDark
  <1>1. IInv => PausedStaysDark
    BY DarkWhilePaused
  <1> QED BY <1>1, Invariance, PTL

(* Whatever is cancelled, fails to be saved or is cut off by a crash, the  *)
(* binding in an agent's list and the thread an unfinished registration    *)
(* retained are of one thread (finishRegistration, retainRegistrationThread). *)
THEOREM AgentsHaveOneThread ==
  ASSUME CalmStart PROVE Spec => []OneThread
  <1>1. IInv => OneThread
    BY ThreadsAgree
  <1> QED BY <1>1, Invariance, PTL

(* An online office agent is mirrored by the terminal server, and with no  *)
(* write under way and none failed the store holds the bindings, retained  *)
(* threads and pause tags of the service (setForwarding, persist).         *)
THEOREM MirrorAndStoreAgree ==
  ASSUME CalmStart, OrderedWrites PROVE Spec => []ConnectionsAreMirrored
  <1>1. IInv => ConnectionsAreMirrored
    BY MirrorsAgree
  <1> QED BY <1>1, Invariance, PTL

=============================================================================
