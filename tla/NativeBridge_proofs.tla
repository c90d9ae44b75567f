------------------------ MODULE NativeBridge_proofs -------------------------
(***************************************************************************)
(* Safety of NativeBridge for any number of instances, sockets, commands,  *)
(* failures and events: the types and limits, the three invariants that    *)
(* relate the commands, the registration and the wrapper's view of the     *)
(* session, and then what the sockets carry.                               *)
(*                                                                         *)
(* None of the three is inductive alone.  A new registration must not      *)
(* already be marked ready, which holds because a register frame is always *)
(* the first frame of a socket that never registered (LinkInv); and the    *)
(* wrapper must be strictly behind a registration that is not ready yet,   *)
(* or it would ignore its `ready' (GenerationInv).                         *)
(***************************************************************************)
EXTENDS NativeBridge, TLAPS, SequenceTheorems

(* A socket nobody opened is idle. *)
Unopened(c) ==
    owner[c] = 0 => brokerEnd[c] = "none" /\ extEnd[c] = "none" /\ generation[c] = 0

(* Register frames come first, on sockets that are not registered. *)
RegisterFirst(c) ==
    \A n \in DOMAIN toBroker[c] :
        toBroker[c][n].type = "register" => n = 1 /\ generation[c] = 0

(* An instance's socket is its own, and makes it attached. *)
OwnSocket(i) ==
    socket[i] # NoConn => phase[i] = "attached" /\ owner[socket[i]] = i

LinkInv ==
    /\ \A c \in Conn : Unopened(c) /\ RegisterFirst(c)
    /\ \A i \in Instance : OwnSocket(i)
    /\ \A c \in ready : generation[c] # 0
    /\ registration # NoConn => generation[registration] # 0

GenerationInv ==
    /\ \A c \in Conn : generation[c] < nextGeneration
    /\ procGeneration < nextGeneration
    /\ registration # NoConn /\ registration \notin ready
          => generation[registration] > procGeneration
    /\ credential = "revoked" => procClosed \/ closed

IInv ==
    /\ TypeOK
    /\ LinkInv
    /\ GenerationInv
    /\ PendingOnLiveRegistration
    /\ WaitersAwaitReadiness
    /\ SessionAgreement

(* A step that leaves the registration, the commands and the wrapper alone. *)
Quiet ==
    /\ UNCHANGED <<closed, credential, registration, generation, nextGeneration, ready,
                   waiting, procClosed, procSession, procGeneration, command, commandConn>>
    /\ \A c \in Conn : owner[c] # 0 => owner'[c] = owner[c]

(* A sequence mapped element by element. *)
LEMMA Mapped ==
  ASSUME NEW S, NEW T, NEW s \in Seq(S), NEW F, F \in [1..Len(s) -> T]
  PROVE  F \in Seq(T)
  BY IsASeq

(* The frames the two ends write are frames, and an event or a request read back
   carries an event number or a command. *)
LEMMA Frames ==
    /\ \A t \in {"register", "ready", "registered", "replaced", "registration-error"} :
          Signal(t) \in Seq(Frame)
    /\ \A r \in Cmd : Request(r) \in Frame
    /\ \A n \in 1..MaxEvents : EventFrame(n) \in Frame
    /\ \A r \in Cmd, ok \in BOOLEAN : [type |-> "response", id |-> r, ok |-> ok] \in Frame
    /\ \A f \in Frame : f.type = "event" => f.number \in 1..MaxEvents
    /\ \A f \in Frame : f.type = "request" => f.id \in Cmd
  BY DEF Frame, Signal, Request, EventFrame

(* Writing to a socket, live or not, leaves a sequence of frames in transit. *)
LEMMA Written ==
  ASSUME LinkTypeOK, NEW c \in Conn, NEW s \in Seq(Frame)
  PROVE  WrittenToExt(c, s) \in Seq(Frame) /\ WrittenToBroker(c, s) \in Seq(Frame)
  BY DEF LinkTypeOK, WrittenToExt, WrittenToBroker

(* The backlog keeps its bound when an event is added. *)
LEMMA RetainedBound ==
  ASSUME NEW S, NEW s \in Seq(S), NEW e \in S,
         Len(s) <= MaxBacklog, MaxBacklog \in Nat \ {0}
  PROVE  /\ Retained(Append(s, e)) \in Seq(S)
         /\ Len(Retained(Append(s, e))) <= MaxBacklog
  BY DEF Retained

(* scheduleReconnect keeps the extension's types and its limits. *)
LEMMA Rescheduled ==
  ASSUME ExtensionTypeOK, BoundsOK, NEW i \in Instance, ScheduleReconnect(i),
         phase[i] # "gone"
  PROVE  /\ phase' \in [Instance -> {"unborn", "joining", "dialing", "attached", "gone"}]
         /\ failedAttempts' \in [Instance -> Nat]
         /\ backlog' \in [Instance -> Seq(1..MaxEvents)]
         /\ everRegistered' = everRegistered
         /\ emitted' = emitted
         /\ BoundsOK'
  <1>1. CASE GivesUp(i)
    BY <1>1, BridgeAssumption DEF ExtensionTypeOK, BoundsOK, ScheduleReconnect
  <1>2. CASE ~GivesUp(i)
    <2>1. backlog' = backlog
      BY <1>2 DEF ExtensionTypeOK, ScheduleReconnect
    <2>2. failedAttempts' \in [Instance -> Nat]
      BY DEF ExtensionTypeOK, ScheduleReconnect
    <2>3. failedAttempts'[i] < MaxAttempts
      BY <1>2, BridgeAssumption DEF GivesUp, ExtensionTypeOK, BoundsOK, ScheduleReconnect
    <2> QED
      BY <1>2, <2>1, <2>2, <2>3 DEF ExtensionTypeOK, BoundsOK, ScheduleReconnect
  <1> QED BY <1>1, <1>2

(* The announcement is well-formed and registers nothing. *)
LEMMA AnnouncementType ==
  ASSUME ExtensionTypeOK, NEW i \in Instance
  PROVE  /\ Announcement(i) \in Seq(Frame)
         /\ \A n \in DOMAIN Announcement(i) : Announcement(i)[n].type # "register"
  <1>1. backlog[i] \in Seq(1..MaxEvents) /\ DOMAIN backlog[i] = 1..Len(backlog[i])
    BY DEF ExtensionTypeOK
  <1>2. \A n \in 1..Len(backlog[i]) : backlog[i][n] \in 1..MaxEvents
    BY <1>1, ElementOfSeq
  <1>3. \A n \in 1..Len(backlog[i]) : EventFrame(backlog[i][n]) \in Frame
    BY <1>2, Frames
  <1>4. BacklogFrames(i) \in [1..Len(backlog[i]) -> Frame]
    BY <1>1, <1>3 DEF BacklogFrames
  <1>5. BacklogFrames(i) \in Seq(Frame)
    BY <1>1, <1>4, Mapped
  <1>6. \A n \in DOMAIN BacklogFrames(i) : BacklogFrames(i)[n].type # "register"
    BY DEF BacklogFrames, EventFrame
  <1>7. Signal("ready") \in Seq(Frame) /\ Len(Signal("ready")) = 1
           /\ Signal("ready")[1].type # "register"
    BY Frames DEF Signal
  <1> QED
    BY <1>5, <1>6, <1>7 DEF Announcement

(* Every step of the broker, the extension and the wrapper keeps the types and
   the two limits. *)
LEMMA TypeStep ==
  ASSUME TypeOK, LinkInv, Next
  PROVE  TypeOK'
  <1> USE DEF TypeOK, brokerVars, linkVars, extVars, socketState, streamVars,
              procVars, commandVars
  <1>1. ASSUME NEW i \in Instance, Fork(i) PROVE TypeOK'
    <2>1. BrokerTypeOK' /\ LinkTypeOK' /\ WrapperTypeOK'
      BY <1>1 DEF Fork, BrokerTypeOK, LinkTypeOK, WrapperTypeOK
    <2>2. ExtensionTypeOK'
      BY <1>1 DEF Fork, ExtensionTypeOK
    <2>3. BoundsOK'
      BY <1>1 DEF Fork, ExtensionTypeOK, BoundsOK
    <2> QED BY <2>1, <2>2, <2>3
  <1>2. ASSUME NEW i \in Instance, Join(i) PROVE TypeOK'
    <2>1. BrokerTypeOK' /\ LinkTypeOK' /\ WrapperTypeOK'
      BY <1>2 DEF Join, BrokerTypeOK, LinkTypeOK, WrapperTypeOK
    <2>2. ExtensionTypeOK'
      BY <1>2 DEF Join, ExtensionTypeOK
    <2>3. BoundsOK'
      BY <1>2 DEF Join, ExtensionTypeOK, BoundsOK
    <2> QED BY <2>1, <2>2, <2>3
  <1>3. ASSUME NEW i \in Instance, ConnectRefused(i) PROVE TypeOK'
    <2>1. BrokerTypeOK' /\ LinkTypeOK' /\ WrapperTypeOK'
      BY <1>3 DEF ConnectRefused, BrokerTypeOK, LinkTypeOK, WrapperTypeOK
    <2>2. ExtensionTypeOK'
      BY <1>3, Rescheduled DEF ConnectRefused, LinkInv, OwnSocket, ExtensionTypeOK
    <2>3. BoundsOK'
      BY <1>3, Rescheduled DEF ConnectRefused, LinkInv, OwnSocket, ExtensionTypeOK
    <2> QED BY <2>1, <2>2, <2>3
  <1>4. ASSUME NEW i \in Instance, StandDown(i) PROVE TypeOK'
    <2>1. BrokerTypeOK'
      BY <1>4 DEF StandDown, Shutdown, BrokerTypeOK
    <2>2. LinkTypeOK'
      BY <1>4 DEF StandDown, Shutdown, LinkTypeOK
    <2>3. ExtensionTypeOK'
      BY <1>4 DEF StandDown, Shutdown, ExtensionTypeOK
    <2>4. BoundsOK'
      BY <1>4, BridgeAssumption DEF StandDown, Shutdown, ExtensionTypeOK, BoundsOK
    <2>5. WrapperTypeOK'
      BY <1>4 DEF StandDown, Shutdown, WrapperTypeOK
    <2> QED BY <2>1, <2>2, <2>3, <2>4, <2>5
  <1>5. ASSUME NEW i \in Instance, InstanceDies(i) PROVE TypeOK'
    <2>1. BrokerTypeOK'
      BY <1>5 DEF InstanceDies, Shutdown, BrokerTypeOK
    <2>2. LinkTypeOK'
      BY <1>5 DEF InstanceDies, Shutdown, LinkTypeOK
    <2>3. ExtensionTypeOK'
      BY <1>5 DEF InstanceDies, Shutdown, ExtensionTypeOK
    <2>4. BoundsOK'
      BY <1>5, BridgeAssumption DEF InstanceDies, Shutdown, ExtensionTypeOK, BoundsOK
    <2>5. WrapperTypeOK'
      BY <1>5 DEF InstanceDies, Shutdown, WrapperTypeOK
    <2> QED BY <2>1, <2>2, <2>3, <2>4, <2>5
  <1>6. ASSUME NEW i \in Instance, ExtRegistered(i) PROVE TypeOK'
    <2>1. BrokerTypeOK' /\ WrapperTypeOK'
      BY <1>6 DEF ExtRegistered, BrokerTypeOK, WrapperTypeOK
    <2>2. LinkTypeOK'
      <3>1. Announcement(i) \in Seq(Frame)
        BY AnnouncementType
      <3> QED
        BY <1>6, <3>1, Written DEF ExtRegistered, Receives, LinkTypeOK, ExtensionTypeOK
    <2>3. ExtensionTypeOK'
      BY <1>6 DEF ExtRegistered, LeftAfterFlush, ExtensionTypeOK
    <2>4. BoundsOK'
      BY <1>6, BridgeAssumption DEF ExtRegistered, LeftAfterFlush, ExtensionTypeOK, BoundsOK
    <2> QED BY <2>1, <2>2, <2>3, <2>4
  <1>7. ASSUME NEW i \in Instance, ExtSeesClose(i) PROVE TypeOK'
    <2>1. BrokerTypeOK' /\ WrapperTypeOK'
      BY <1>7 DEF ExtSeesClose, BrokerTypeOK, WrapperTypeOK
    <2>2. LinkTypeOK'
      BY <1>7 DEF ExtSeesClose, LinkTypeOK, ExtensionTypeOK
    <2>3. ExtensionTypeOK'
      BY <1>7, Rescheduled DEF ExtSeesClose, LinkInv, OwnSocket, ExtensionTypeOK
    <2>4. BoundsOK'
      BY <1>7, Rescheduled DEF ExtSeesClose, LinkInv, OwnSocket, ExtensionTypeOK
    <2> QED BY <2>1, <2>2, <2>3, <2>4
  <1>8. ASSUME NEW i \in Instance, EmitEvent(i) PROVE TypeOK'
    <2>1. BrokerTypeOK' /\ WrapperTypeOK'
      BY <1>8 DEF EmitEvent, BrokerTypeOK, WrapperTypeOK
    <2>2. LinkTypeOK'
      <3>1. <<EventFrame(emitted[i] + 1)>> \in Seq(Frame)
        BY <1>8, Frames DEF EmitEvent, ExtensionTypeOK
      <3>2. socket[i] \in Conn \cup {NoConn}
        BY DEF ExtensionTypeOK
      <3>3. socket[i] \in Conn =>
               WrittenToBroker(socket[i], <<EventFrame(emitted[i] + 1)>>) \in Seq(Frame)
        BY <3>1, Written
      <3> QED
        BY <1>8, <3>2, <3>3 DEF EmitEvent, LinkTypeOK, Conn, NoConn
    <2>3. ExtensionTypeOK'
      <3>1. emitted[i] + 1 \in 1..MaxEvents /\ backlog[i] \in Seq(1..MaxEvents)
        BY <1>8 DEF EmitEvent, ExtensionTypeOK
      <3>2. Retained(Append(backlog[i], emitted[i] + 1)) \in Seq(1..MaxEvents)
        BY <3>1, RetainedBound, BridgeAssumption DEF BoundsOK
      <3>3. backlog' \in [Instance -> Seq(1..MaxEvents)]
        BY <1>8, <3>2 DEF EmitEvent, ExtensionTypeOK
      <3>4. emitted' \in [Instance -> 0..MaxEvents]
        BY <1>8, <3>1 DEF EmitEvent, ExtensionTypeOK
      <3> QED
        BY <1>8, <3>3, <3>4 DEF EmitEvent, ExtensionTypeOK
    <2>4. BoundsOK'
      <3>1. emitted[i] + 1 \in 1..MaxEvents /\ backlog[i] \in Seq(1..MaxEvents)
        BY <1>8 DEF EmitEvent, ExtensionTypeOK
      <3>2. Len(Retained(Append(backlog[i], emitted[i] + 1))) <= MaxBacklog
        BY <3>1, RetainedBound, BridgeAssumption DEF BoundsOK
      <3> QED
        BY <1>8, <3>2 DEF EmitEvent, BoundsOK, ExtensionTypeOK
    <2> QED BY <2>1, <2>2, <2>3, <2>4
  <1>9. ASSUME NEW i \in Instance, ExtRequest(i) PROVE TypeOK'
    <2>1. BrokerTypeOK' /\ ExtensionTypeOK' /\ BoundsOK'
      BY <1>9 DEF ExtRequest, BrokerTypeOK, ExtensionTypeOK, BoundsOK
    <2>2. LinkTypeOK'
      BY <1>9 DEF ExtRequest, Receives, LinkTypeOK, ExtensionTypeOK
    <2>3. WrapperTypeOK'
      <3>1. socket[i] \in Conn /\ Head(toExt[socket[i]]) \in Frame
        BY <1>9 DEF ExtRequest, Receives, LinkTypeOK, ExtensionTypeOK
      <3>2. Head(toExt[socket[i]]).id \in Cmd
        BY <1>9, <3>1, Frames DEF ExtRequest, Receives
      <3> QED
        BY <1>9, <3>1, <3>2 DEF ExtRequest, WrapperTypeOK
    <2> QED BY <2>1, <2>2, <2>3
  <1>10. ASSUME NEW i \in Instance, NEW c \in Conn, Connect(i, c) PROVE TypeOK'
    <2>1. BrokerTypeOK' /\ WrapperTypeOK'
      BY <1>10 DEF Connect, BrokerTypeOK, WrapperTypeOK
    <2>2. LinkTypeOK'
      BY <1>10, Frames DEF Connect, LinkTypeOK
    <2>3. ExtensionTypeOK'
      BY <1>10 DEF Connect, ExtensionTypeOK
    <2>4. BoundsOK'
      BY <1>10 DEF Connect, ExtensionTypeOK, BoundsOK
    <2> QED BY <2>1, <2>2, <2>3, <2>4
  <1>11. ASSUME NEW c \in Conn, RegisterRefused(c) PROVE TypeOK'
    <2>1. BrokerTypeOK' /\ ExtensionTypeOK' /\ BoundsOK' /\ WrapperTypeOK'
      BY <1>11 DEF RegisterRefused, BrokerTypeOK, ExtensionTypeOK, BoundsOK, WrapperTypeOK
    <2>2. LinkTypeOK'
      BY <1>11, Frames, Written DEF RegisterRefused, Takes, Taken, LinkTypeOK
    <2> QED BY <2>1, <2>2
  <1>12. ASSUME NEW c \in Conn, Register(c) PROVE TypeOK'
    <2>1. ExtensionTypeOK' /\ BoundsOK'
      BY <1>12 DEF Register, ExtensionTypeOK, BoundsOK
    <2>2. BrokerTypeOK'
      BY <1>12 DEF Register, BrokerTypeOK
    <2>3. LinkTypeOK'
      BY <1>12, Frames, Written DEF Register, RegisterReplies, Takes, Taken, LinkTypeOK
    <2>4. WrapperTypeOK'
      BY <1>12 DEF Register, Failed, WrapperTypeOK
    <2> QED BY <2>1, <2>2, <2>3, <2>4
  <1>13. ASSUME NEW c \in Conn, MarkReady(c) PROVE TypeOK'
    <2>1. ExtensionTypeOK' /\ BoundsOK'
      BY <1>13 DEF MarkReady, ExtensionTypeOK, BoundsOK
    <2>2. BrokerTypeOK'
      BY <1>13 DEF MarkReady, BrokerTypeOK
    <2>3. LinkTypeOK'
      <3>1. [n \in DOMAIN waiting |-> Request(waiting[n])] \in [1..Len(waiting) -> Frame]
        BY Frames DEF BrokerTypeOK
      <3>2. [n \in DOMAIN waiting |-> Request(waiting[n])] \in Seq(Frame)
        BY <3>1, Mapped DEF BrokerTypeOK
      <3> QED
        BY <1>13, <3>2, Written DEF MarkReady, Takes, Taken, LinkTypeOK
    <2>4. WrapperTypeOK'
      BY <1>13 DEF MarkReady, Takes, Reads, LinkInv, Unopened, LinkTypeOK, BrokerTypeOK, WrapperTypeOK
    <2> QED BY <2>1, <2>2, <2>3, <2>4
  <1>14. ASSUME NEW c \in Conn, BrokerEvent(c) PROVE TypeOK'
    <2>1. BrokerTypeOK' /\ ExtensionTypeOK' /\ BoundsOK'
      BY <1>14 DEF BrokerEvent, BrokerTypeOK, ExtensionTypeOK, BoundsOK
    <2>2. LinkTypeOK'
      BY <1>14 DEF BrokerEvent, Takes, Taken, LinkTypeOK
    <2>3. WrapperTypeOK'
      <3>1. owner[c] \in Instance
        BY <1>14 DEF BrokerEvent, Takes, Reads, LinkInv, Unopened, LinkTypeOK
      <3>2. Head(toBroker[c]).number \in 1..MaxEvents
        BY <1>14, Frames DEF BrokerEvent, Takes, LinkTypeOK
      <3> QED
        BY <1>14, <3>1, <3>2 DEF BrokerEvent, WrapperTypeOK
    <2> QED BY <2>1, <2>2, <2>3
  <1>15. ASSUME NEW c \in Conn, BrokerResponse(c) PROVE TypeOK'
    <2>1. BrokerTypeOK' /\ ExtensionTypeOK' /\ BoundsOK'
      BY <1>15 DEF BrokerResponse, BrokerTypeOK, ExtensionTypeOK, BoundsOK
    <2>2. LinkTypeOK'
      BY <1>15 DEF BrokerResponse, Takes, Taken, LinkTypeOK
    <2>3. WrapperTypeOK'
      BY <1>15 DEF BrokerResponse, WrapperTypeOK
    <2> QED BY <2>1, <2>2, <2>3
  <1>16. ASSUME NEW c \in Conn, BrokerRejectsFrame(c) PROVE TypeOK'
    <2>1. BrokerTypeOK' /\ ExtensionTypeOK' /\ BoundsOK' /\ WrapperTypeOK'
      BY <1>16 DEF BrokerRejectsFrame, BrokerTypeOK, ExtensionTypeOK, BoundsOK, WrapperTypeOK
    <2>2. LinkTypeOK'
      BY <1>16 DEF BrokerRejectsFrame, LinkTypeOK
    <2> QED BY <2>1, <2>2
  <1>17. ASSUME NEW c \in Conn, SupersededTimeout(c) PROVE TypeOK'
    <2>1. BrokerTypeOK' /\ ExtensionTypeOK' /\ BoundsOK' /\ WrapperTypeOK'
      BY <1>17 DEF SupersededTimeout, BrokerTypeOK, ExtensionTypeOK, BoundsOK, WrapperTypeOK
    <2>2. LinkTypeOK'
      BY <1>17 DEF SupersededTimeout, LinkTypeOK
    <2> QED BY <2>1, <2>2
  <1>18. ASSUME NEW c \in Conn, BrokerSeesClose(c) PROVE TypeOK'
    <2>1. ExtensionTypeOK' /\ BoundsOK'
      BY <1>18 DEF BrokerSeesClose, ExtensionTypeOK, BoundsOK
    <2>2. BrokerTypeOK'
      BY <1>18 DEF BrokerSeesClose, BrokerTypeOK
    <2>3. LinkTypeOK'
      BY <1>18 DEF BrokerSeesClose, LinkTypeOK
    <2>4. WrapperTypeOK'
      BY <1>18 DEF BrokerSeesClose, Failed, WrapperTypeOK
    <2> QED BY <2>1, <2>2, <2>3, <2>4
  <1>19. ASSUME NEW c \in Conn, LinkFails(c) PROVE TypeOK'
    <2>1. BrokerTypeOK' /\ ExtensionTypeOK' /\ BoundsOK' /\ WrapperTypeOK'
      BY <1>19 DEF LinkFails, BrokerTypeOK, ExtensionTypeOK, BoundsOK, WrapperTypeOK
    <2>2. LinkTypeOK'
      BY <1>19 DEF LinkFails, LinkTypeOK
    <2> QED BY <2>1, <2>2
  <1>20. ASSUME NEW c \in Conn, NEW r \in Cmd, NEW ok \in BOOLEAN, ExtResponds(r, c, ok) PROVE TypeOK'
    <2>1. BrokerTypeOK' /\ ExtensionTypeOK' /\ BoundsOK'
      BY <1>20 DEF ExtResponds, BrokerTypeOK, ExtensionTypeOK, BoundsOK
    <2>2. LinkTypeOK'
      <3>1. <<[type |-> "response", id |-> r, ok |-> ok]>> \in Seq(Frame)
        BY Frames
      <3> QED
        BY <1>20, <3>1, Written DEF ExtResponds, LinkTypeOK
    <2>3. WrapperTypeOK'
      BY <1>20 DEF ExtResponds, WrapperTypeOK
    <2> QED BY <2>1, <2>2, <2>3
  <1>21. ASSUME NEW r \in Cmd, Issue(r) PROVE TypeOK'
    <2>1. ExtensionTypeOK' /\ BoundsOK'
      BY <1>21 DEF Issue, ExtensionTypeOK, BoundsOK
    <2>2. BrokerTypeOK'
      <3>1. waiting' = waiting \/ waiting' = Append(waiting, r)
        BY <1>21 DEF Issue
      <3>2. Append(waiting, r) \in Seq(Cmd)
        BY DEF BrokerTypeOK
      <3>3. waiting' \in Seq(Cmd)
        BY <3>1, <3>2 DEF BrokerTypeOK
      <3> QED
        BY <1>21, <3>3 DEF Issue, BrokerTypeOK
    <2>3. LinkTypeOK'
      <3>1. <<Request(r)>> \in Seq(Frame)
        BY Frames
      <3>2. registration \in ready => WrittenToExt(registration, <<Request(r)>>) \in Seq(Frame)
        BY <3>1, Written DEF BrokerTypeOK
      <3> QED
        BY <1>21, <3>2 DEF Issue, LinkTypeOK
    <2>4. WrapperTypeOK'
      BY <1>21 DEF Issue, BrokerTypeOK, WrapperTypeOK
    <2> QED BY <2>1, <2>2, <2>3, <2>4
  <1>22. ASSUME NEW r \in Cmd, ConnectTimeout(r) PROVE TypeOK'
    <2>1. LinkTypeOK' /\ ExtensionTypeOK' /\ BoundsOK'
      BY <1>22 DEF ConnectTimeout, LinkTypeOK, ExtensionTypeOK, BoundsOK
    <2>2. BrokerTypeOK'
      BY <1>22 DEF ConnectTimeout, BrokerTypeOK
    <2>3. WrapperTypeOK'
      BY <1>22 DEF ConnectTimeout, WrapperTypeOK
    <2> QED BY <2>1, <2>2, <2>3
  <1>23. ASSUME NEW r \in Cmd, RequestTimeout(r) PROVE TypeOK'
    <2>1. BrokerTypeOK' /\ LinkTypeOK' /\ ExtensionTypeOK' /\ BoundsOK'
      BY <1>23 DEF RequestTimeout, BrokerTypeOK, LinkTypeOK, ExtensionTypeOK, BoundsOK
    <2>2. WrapperTypeOK'
      BY <1>23 DEF RequestTimeout, WrapperTypeOK
    <2> QED BY <2>1, <2>2
  <1>24. ASSUME Subscribe PROVE TypeOK'
    <2>1. LinkTypeOK' /\ ExtensionTypeOK' /\ BoundsOK' /\ WrapperTypeOK'
      BY <1>24 DEF Subscribe, LinkTypeOK, ExtensionTypeOK, BoundsOK, WrapperTypeOK
    <2>2. BrokerTypeOK'
      BY <1>24 DEF Subscribe, BrokerTypeOK
    <2> QED BY <2>1, <2>2
  <1>25. ASSUME Release PROVE TypeOK'
    <2>1. ExtensionTypeOK' /\ BoundsOK'
      BY <1>25 DEF Release, Revoked, ExtensionTypeOK, BoundsOK
    <2>2. BrokerTypeOK'
      <3>1. waiting' \in Seq(Cmd) /\ registration' \in Conn \cup {NoConn}
        BY <1>25, <1>25 DEF Release, Revoked
      <3> QED
        BY <1>25, <1>25, <3>1 DEF Release, Revoked, BrokerTypeOK
    <2>3. LinkTypeOK'
      BY <1>25 DEF Release, Revoked, LinkTypeOK
    <2>4. WrapperTypeOK'
      BY <1>25 DEF Release, Revoked, Failed, WrapperTypeOK
    <2> QED BY <2>1, <2>2, <2>3, <2>4
  <1>26. ASSUME CloseBroker PROVE TypeOK'
    <2>1. ExtensionTypeOK' /\ BoundsOK'
      BY <1>26 DEF CloseBroker, Revoked, ExtensionTypeOK, BoundsOK
    <2>2. BrokerTypeOK'
      <3>1. waiting' \in Seq(Cmd) /\ registration' \in Conn \cup {NoConn}
        BY <1>26, <1>26 DEF CloseBroker, Revoked
      <3> QED
        BY <1>26, <1>26, <3>1 DEF CloseBroker, Revoked, BrokerTypeOK
    <2>3. LinkTypeOK'
      BY <1>26 DEF CloseBroker, Revoked, LinkTypeOK
    <2>4. WrapperTypeOK'
      BY <1>26 DEF CloseBroker, Revoked, Failed, WrapperTypeOK
    <2> QED BY <2>1, <2>2, <2>3, <2>4
  <1> QED
    BY <1>1, <1>2, <1>3, <1>4, <1>5, <1>6, <1>7, <1>8, <1>9, <1>10, <1>11, <1>12, <1>13, <1>14,
       <1>15, <1>16, <1>17, <1>18, <1>19, <1>20, <1>21, <1>22, <1>23, <1>24, <1>25, <1>26 DEF Next

(* No step touches a socket nobody dialed (native-bridge-broker.ts only serves
   sockets its server accepted). *)
LEMMA UnopenedStep ==
  ASSUME TypeOK, LinkInv, Next, NEW d \in Conn
  PROVE  Unopened(d)'
  <1> USE DEF brokerVars, linkVars, extVars, socketState, streamVars, procVars,
              commandVars, TypeOK, LinkTypeOK, BrokerTypeOK, ExtensionTypeOK,
              LinkInv, Unopened
  <1>1. ASSUME NEW i \in Instance, Shutdown(i)
        PROVE  Unopened(d)'
    <2>1. extEnd'[d] = IF d = socket[i] THEN "closed" ELSE extEnd[d]
      BY <1>1 DEF Shutdown
    <2>2. owner' = owner /\ brokerEnd' = brokerEnd /\ generation' = generation
      BY <1>1 DEF Shutdown
    <2>3. d = socket[i] => owner[d] = i /\ i # 0
      BY DEF OwnSocket, Instance, Conn, NoConn
    <2> QED
      BY <2>1, <2>2, <2>3
  <1>2. ASSUME NEW i \in Instance, ExtSeesClose(i)
        PROVE  Unopened(d)'
    BY <1>2 DEF ExtSeesClose, OwnSocket, Instance, Conn, NoConn
  <1>3. ASSUME NEW i \in Instance,
               Fork(i) \/ Join(i) \/ ConnectRefused(i) \/ ExtRegistered(i)
                 \/ EmitEvent(i) \/ ExtRequest(i)
        PROVE  Unopened(d)'
    BY <1>3 DEF Fork, Join, ConnectRefused, ExtRegistered, EmitEvent, ExtRequest
  <1>4. ASSUME NEW i \in Instance, NEW c \in Conn, Connect(i, c)
        PROVE  Unopened(d)'
    BY <1>4 DEF Connect, Instance
  <1>5. ASSUME NEW c \in Conn,
               RegisterRefused(c) \/ Register(c) \/ MarkReady(c) \/ BrokerEvent(c)
                 \/ BrokerResponse(c) \/ BrokerRejectsFrame(c)
        PROVE  Unopened(d)'
    BY <1>5 DEF RegisterRefused, Register, MarkReady, BrokerEvent, BrokerResponse,
                BrokerRejectsFrame, Takes, Reads
  <1>6. ASSUME NEW c \in Conn,
               SupersededTimeout(c) \/ BrokerSeesClose(c) \/ LinkFails(c)
        PROVE  Unopened(d)'
    BY <1>6 DEF SupersededTimeout, BrokerSeesClose, LinkFails, Reads
  <1>7. ASSUME NEW c \in Conn, NEW r \in Cmd, NEW ok \in BOOLEAN, ExtResponds(r, c, ok)
        PROVE  Unopened(d)'
    BY <1>7 DEF ExtResponds
  <1>8. ASSUME NEW r \in Cmd, Issue(r) \/ ConnectTimeout(r) \/ RequestTimeout(r)
        PROVE  Unopened(d)'
    BY <1>8 DEF Issue, ConnectTimeout, RequestTimeout
  <1>9. ASSUME NEW cs, Revoked(cs), \A c \in cs : owner[c] # 0
        PROVE  Unopened(d)'
    <2>1. brokerEnd'[d] = IF d \in cs THEN "destroyed" ELSE brokerEnd[d]
      BY <1>9 DEF Revoked
    <2>2. owner' = owner /\ extEnd' = extEnd /\ generation' = generation
      BY <1>9 DEF Revoked
    <2> QED
      BY <2>1, <2>2, <1>9
  <1>10. ASSUME Subscribe \/ Release \/ CloseBroker
         PROVE  Unopened(d)'
    BY <1>9, <1>10 DEF Subscribe, Release, CloseBroker, Reads
  <1> QED
    BY <1>1, <1>2, <1>3, <1>4, <1>5, <1>6, <1>7, <1>8, <1>10
    DEF Next, StandDown, InstanceDies

(* An instance drops or replaces its socket only together with its phase
   (native-bridge-extension.ts, connectOnce and scheduleReconnect). *)
LEMMA OwnSocketStep ==
  ASSUME TypeOK, LinkInv, Next, NEW j \in Instance
  PROVE  OwnSocket(j)'
  <1> USE DEF brokerVars, linkVars, extVars, socketState, streamVars, procVars,
              commandVars, TypeOK, LinkTypeOK, ExtensionTypeOK, LinkInv, OwnSocket
  <1>1. ASSUME NEW i \in Instance, Shutdown(i)
        PROVE  OwnSocket(j)'
    <2>1. socket' = [socket EXCEPT ![i] = NoConn] /\ owner' = owner
            /\ phase' = [phase EXCEPT ![i] = "gone"]
      BY <1>1 DEF Shutdown
    <2> QED
      BY <2>1
  <1>2. ASSUME NEW i \in Instance, ExtSeesClose(i)
        PROVE  OwnSocket(j)'
    BY <1>2 DEF ExtSeesClose, ScheduleReconnect
  <1>3. ASSUME NEW i \in Instance, ConnectRefused(i)
        PROVE  OwnSocket(j)'
    BY <1>3 DEF ConnectRefused, ScheduleReconnect
  <1>4. ASSUME NEW i \in Instance,
               Fork(i) \/ Join(i) \/ ExtRegistered(i) \/ EmitEvent(i) \/ ExtRequest(i)
        PROVE  OwnSocket(j)'
    BY <1>4 DEF Fork, Join, ExtRegistered, EmitEvent, ExtRequest
  <1>5. ASSUME NEW i \in Instance, NEW c \in Conn, Connect(i, c)
        PROVE  OwnSocket(j)'
    BY <1>5 DEF Connect, Instance
  <1>6. ASSUME NEW c \in Conn,
               RegisterRefused(c) \/ Register(c) \/ MarkReady(c) \/ BrokerEvent(c)
                 \/ BrokerResponse(c) \/ BrokerRejectsFrame(c)
                 \/ SupersededTimeout(c) \/ BrokerSeesClose(c) \/ LinkFails(c)
        PROVE  OwnSocket(j)'
    BY <1>6 DEF RegisterRefused, Register, MarkReady, BrokerEvent, BrokerResponse,
                BrokerRejectsFrame, SupersededTimeout, BrokerSeesClose, LinkFails
  <1>7. ASSUME NEW c \in Conn, NEW r \in Cmd, NEW ok \in BOOLEAN, ExtResponds(r, c, ok)
        PROVE  OwnSocket(j)'
    BY <1>7 DEF ExtResponds
  <1>8. ASSUME NEW r \in Cmd, Issue(r) \/ ConnectTimeout(r) \/ RequestTimeout(r)
        PROVE  OwnSocket(j)'
    BY <1>8 DEF Issue, ConnectTimeout, RequestTimeout
  <1>9. ASSUME Subscribe \/ Release \/ CloseBroker
        PROVE  OwnSocket(j)'
    BY <1>9 DEF Subscribe, Release, CloseBroker, Revoked
  <1> QED
    BY <1>1, <1>2, <1>3, <1>4, <1>5, <1>6, <1>7, <1>8, <1>9
    DEF Next, StandDown, InstanceDies

(* Writing frames other than register adds no register frame. *)
LEMMA WrittenNoRegister ==
  ASSUME LinkTypeOK, NEW c \in Conn, NEW s \in Seq(Frame),
         \A n \in DOMAIN s : s[n].type # "register",
         NEW n \in DOMAIN WrittenToBroker(c, s),
         WrittenToBroker(c, s)[n].type = "register"
  PROVE  n \in DOMAIN toBroker[c] /\ toBroker[c][n].type = "register"
  BY DEF LinkTypeOK, WrittenToBroker

(* Reading the first frame leaves no register frame behind it. *)
LEMMA TakenNoRegister ==
  ASSUME LinkTypeOK, NEW c \in Conn, RegisterFirst(c), toBroker[c] # <<>>
  PROVE  \A n \in DOMAIN Tail(toBroker[c]) : Tail(toBroker[c])[n].type # "register"
  <1> SUFFICES ASSUME NEW n \in DOMAIN Tail(toBroker[c])
               PROVE  Tail(toBroker[c])[n].type # "register"
    OBVIOUS
  <1>1. toBroker[c] \in Seq(Frame)
    BY DEF LinkTypeOK
  <1>2. n + 1 \in DOMAIN toBroker[c] /\ n + 1 # 1 /\ Tail(toBroker[c])[n] = toBroker[c][n + 1]
    BY <1>1
  <1> QED
    BY <1>2 DEF RegisterFirst

(* The extension writes register as the first frame of a socket and never again
   on that socket (native-bridge-extension.ts, connectOnce). *)
LEMMA RegisterFirstStep ==
  ASSUME TypeOK, LinkInv, Next, NEW d \in Conn
  PROVE  RegisterFirst(d)'
  <1> USE DEF brokerVars, linkVars, extVars, socketState, streamVars, procVars,
              commandVars, TypeOK, LinkTypeOK, BrokerTypeOK
  <1>0. RegisterFirst(d) /\ Unopened(d)
    BY DEF LinkInv
  <1>1. ASSUME toBroker'[d] = toBroker[d], generation'[d] = generation[d]
        PROVE  RegisterFirst(d)'
    BY <1>0, <1>1 DEF RegisterFirst
  <1>2. ASSUME toBroker'[d] = <<>>
        PROVE  RegisterFirst(d)'
    BY <1>2 DEF RegisterFirst
  <1>3. ASSUME toBroker[d] # <<>>, toBroker'[d] = Tail(toBroker[d])
        PROVE  RegisterFirst(d)'
    BY <1>0, <1>3, TakenNoRegister DEF RegisterFirst
  <1>4. ASSUME NEW s \in Seq(Frame), \A n \in DOMAIN s : s[n].type # "register",
               toBroker'[d] = WrittenToBroker(d, s), generation'[d] = generation[d]
        PROVE  RegisterFirst(d)'
    BY <1>0, <1>4, WrittenNoRegister DEF RegisterFirst
  <1>5. ASSUME NEW i \in Instance, ExtRegistered(i)
        PROVE  RegisterFirst(d)'
    <2>1. generation'[d] = generation[d]
      BY <1>5 DEF ExtRegistered
    <2>2. CASE d # socket[i]
      BY <1>1, <1>5, <2>1, <2>2 DEF ExtRegistered
    <2>3. CASE d = socket[i]
      <3>1. Announcement(i) \in Seq(Frame)
            /\ \A n \in DOMAIN Announcement(i) : Announcement(i)[n].type # "register"
        BY AnnouncementType
      <3>2. toBroker'[d] = WrittenToBroker(d, Announcement(i))
        BY <1>5, <2>3 DEF ExtRegistered
      <3> QED
        BY <1>4, <2>1, <3>1, <3>2
    <2> QED
      BY <2>2, <2>3
  <1>6. ASSUME NEW i \in Instance, EmitEvent(i)
        PROVE  RegisterFirst(d)'
    <2>1. generation'[d] = generation[d]
      BY <1>6 DEF EmitEvent
    <2>2. CASE toBroker'[d] = toBroker[d]
      BY <1>1, <2>1, <2>2
    <2>3. CASE toBroker'[d] # toBroker[d]
      <3>1. toBroker'[d] = WrittenToBroker(d, <<EventFrame(emitted[i] + 1)>>)
        BY <1>6, <2>3 DEF EmitEvent
      <3>2. <<EventFrame(emitted[i] + 1)>> \in Seq(Frame)
        BY <1>6, Frames DEF EmitEvent, ExtensionTypeOK
      <3>3. \A n \in DOMAIN <<EventFrame(emitted[i] + 1)>> :
               <<EventFrame(emitted[i] + 1)>>[n].type # "register"
        BY DEF EventFrame
      <3> QED
        BY <1>4, <2>1, <3>1, <3>2, <3>3
    <2> QED
      BY <2>2, <2>3
  <1>7. ASSUME NEW c \in Conn, NEW r \in Cmd, NEW ok \in BOOLEAN, ExtResponds(r, c, ok)
        PROVE  RegisterFirst(d)'
    <2>1. generation'[d] = generation[d]
      BY <1>7 DEF ExtResponds
    <2>2. CASE d # c
      BY <1>1, <1>7, <2>1, <2>2 DEF ExtResponds
    <2>3. CASE d = c
      <3> DEFINE s == <<[type |-> "response", id |-> r, ok |-> ok]>>
      <3>1. s \in Seq(Frame)
        BY Frames
      <3>2. \A n \in DOMAIN s : s[n].type # "register"
        OBVIOUS
      <3>3. toBroker'[d] = WrittenToBroker(d, s)
        BY <1>7, <2>3 DEF ExtResponds
      <3> HIDE DEF s
      <3> QED
        BY <1>4, <2>1, <3>1, <3>2, <3>3
    <2> QED
      BY <2>2, <2>3
  <1>8. ASSUME NEW i \in Instance, NEW c \in Conn, Connect(i, c)
        PROVE  RegisterFirst(d)'
    <2>1. CASE d # c
      BY <1>1, <1>8, <2>1 DEF Connect
    <2>2. CASE d = c
      BY <1>0, <1>8, <2>2 DEF Connect, Signal, RegisterFirst, Unopened
    <2> QED
      BY <2>1, <2>2
  <1>9. ASSUME NEW i \in Instance,
               Fork(i) \/ Join(i) \/ ConnectRefused(i) \/ Shutdown(i) \/ ExtSeesClose(i)
                 \/ ExtRequest(i)
        PROVE  RegisterFirst(d)'
    BY <1>1, <1>9 DEF Fork, Join, ConnectRefused, Shutdown, ExtSeesClose, ExtRequest
  <1>10. ASSUME NEW c \in Conn,
                RegisterRefused(c) \/ Register(c) \/ MarkReady(c) \/ BrokerEvent(c)
                  \/ BrokerResponse(c)
         PROVE  RegisterFirst(d)'
    <2>1. toBroker[c] # <<>> /\ toBroker' = Taken(c)
      BY <1>10 DEF RegisterRefused, Register, MarkReady, BrokerEvent, BrokerResponse, Takes
    <2>2. CASE d = c
      BY <1>3, <2>1, <2>2 DEF Taken
    <2>3. CASE d # c
      <3>1. toBroker'[d] = toBroker[d]
        BY <2>1, <2>3 DEF Taken
      <3>2. generation'[d] = generation[d]
        BY <1>10, <2>3 DEF RegisterRefused, Register, MarkReady, BrokerEvent, BrokerResponse
      <3> QED
        BY <1>1, <3>1, <3>2
    <2> QED
      BY <2>2, <2>3
  <1>11. ASSUME NEW c \in Conn,
                BrokerRejectsFrame(c) \/ SupersededTimeout(c) \/ BrokerSeesClose(c)
                  \/ LinkFails(c)
         PROVE  RegisterFirst(d)'
    BY <1>1, <1>2, <1>11
    DEF BrokerRejectsFrame, SupersededTimeout, BrokerSeesClose, LinkFails
  <1>12. ASSUME NEW r \in Cmd, Issue(r) \/ ConnectTimeout(r) \/ RequestTimeout(r)
         PROVE  RegisterFirst(d)'
    BY <1>1, <1>12 DEF Issue, ConnectTimeout, RequestTimeout
  <1>13. ASSUME Subscribe \/ Release \/ CloseBroker
         PROVE  RegisterFirst(d)'
    BY <1>1, <1>2, <1>13 DEF Subscribe, Release, CloseBroker, Revoked
  <1> QED
    BY <1>5, <1>6, <1>7, <1>8, <1>9, <1>10, <1>11, <1>12, <1>13
    DEF Next, StandDown, InstanceDies

(* Only a registered socket is current or ready (native-bridge-broker.ts,
   handleRegister and markReady). *)
LEMMA RegisteredStep ==
  ASSUME TypeOK, LinkInv, Next
  PROVE  /\ \A c \in ready' : generation'[c] # 0
         /\ registration' # NoConn => generation'[registration'] # 0
  <1> USE DEF brokerVars, linkVars, extVars, socketState, streamVars, procVars,
              commandVars
  <1> DEFINE Registered ==
        /\ \A c \in ready : generation[c] # 0
        /\ registration # NoConn => generation[registration] # 0
  <1>0. Registered
    BY DEF LinkInv
  <1>1. ASSUME UNCHANGED <<ready, generation>>, registration' \in {registration, NoConn}
        PROVE  Registered'
    BY <1>0, <1>1
  <1>2. ASSUME NEW i \in Instance
        PROVE  (\/ Fork(i) \/ Join(i) \/ ConnectRefused(i) \/ Shutdown(i) \/ ExtRegistered(i)
                \/ ExtSeesClose(i) \/ EmitEvent(i) \/ ExtRequest(i)
                \/ \E c \in Conn : Connect(i, c)) => Registered'
    BY <1>1 DEF Fork, Join, ConnectRefused, Shutdown, ExtRegistered, ExtSeesClose,
                EmitEvent, ExtRequest, Connect
  <1>3. ASSUME NEW c \in Conn
        PROVE  (\/ RegisterRefused(c) \/ BrokerEvent(c) \/ BrokerResponse(c)
                \/ BrokerRejectsFrame(c) \/ SupersededTimeout(c) \/ BrokerSeesClose(c)
                \/ LinkFails(c) \/ \E r \in Cmd, ok \in BOOLEAN : ExtResponds(r, c, ok))
               => Registered'
    BY <1>1 DEF RegisterRefused, BrokerEvent, BrokerResponse, BrokerRejectsFrame,
                SupersededTimeout, BrokerSeesClose, LinkFails, ExtResponds
  <1>4. ASSUME NEW c \in Conn, Register(c) PROVE Registered'
    BY <1>0, <1>4 DEF Register, TypeOK, BrokerTypeOK
  <1>5. ASSUME NEW c \in Conn, MarkReady(c) PROVE Registered'
    BY <1>0, <1>5 DEF MarkReady, Conn, NoConn
  <1>6. ASSUME NEW r \in Cmd
        PROVE  Issue(r) \/ ConnectTimeout(r) \/ RequestTimeout(r) => Registered'
    BY <1>1 DEF Issue, ConnectTimeout, RequestTimeout
  <1>7. Subscribe \/ Release \/ CloseBroker => Registered'
    BY <1>1 DEF Subscribe, Release, CloseBroker, Revoked
  <1>8. Registered'
    BY <1>2, <1>3, <1>4, <1>5, <1>6, <1>7 DEF Next, StandDown, InstanceDies
  <1> QED
    BY <1>8

(* The steps of the extension, and the broker steps other than those this lemma
   names, leave the registration, the commands and the wrapper alone. *)
LEMMA QuietStep ==
  ASSUME TypeOK, LinkInv
  PROVE  /\ \A i \in Instance :
               (\/ Fork(i) \/ Join(i) \/ ConnectRefused(i) \/ Shutdown(i) \/ ExtRegistered(i)
                \/ ExtSeesClose(i) \/ EmitEvent(i) \/ ExtRequest(i)
                \/ \E c \in Conn : Connect(i, c)) => Quiet
         /\ \A c \in Conn :
               (\/ RegisterRefused(c) \/ BrokerEvent(c) \/ BrokerRejectsFrame(c)
                \/ SupersededTimeout(c) \/ LinkFails(c)
                \/ \E r \in Cmd, ok \in BOOLEAN : ExtResponds(r, c, ok)) => Quiet
         /\ Subscribe => Quiet
  <1> USE DEF Quiet, brokerVars, linkVars, extVars, socketState, streamVars, procVars,
              commandVars
  <1>1. ASSUME NEW i \in Instance, NEW c \in Conn, Connect(i, c) PROVE Quiet
    BY <1>1 DEF Connect, TypeOK, LinkTypeOK
  <1>2. ASSUME NEW i \in Instance
        PROVE  (\/ Fork(i) \/ Join(i) \/ ConnectRefused(i) \/ Shutdown(i)
                \/ ExtRegistered(i) \/ ExtSeesClose(i) \/ EmitEvent(i) \/ ExtRequest(i))
               => Quiet
    BY DEF Fork, Join, ConnectRefused, Shutdown, ExtRegistered, ExtSeesClose,
           EmitEvent, ExtRequest
  <1>3. ASSUME NEW c \in Conn
        PROVE  (\/ RegisterRefused(c) \/ BrokerEvent(c) \/ BrokerRejectsFrame(c)
                \/ SupersededTimeout(c) \/ LinkFails(c)
                \/ \E r \in Cmd, ok \in BOOLEAN : ExtResponds(r, c, ok)) => Quiet
    BY DEF RegisterRefused, BrokerEvent, BrokerRejectsFrame, SupersededTimeout,
           LinkFails, ExtResponds
  <1>4. Subscribe => Quiet
    BY DEF Subscribe
  <1> QED
    BY <1>1, <1>2, <1>3, <1>4

(* Such a step keeps the four invariants on the session and its commands. *)
LEMMA QuietKeeps ==
  ASSUME IInv, Quiet
  PROVE  GenerationInv' /\ PendingOnLiveRegistration' /\ WaitersAwaitReadiness'
           /\ SessionAgreement'
  <1> USE DEF IInv, Quiet
  <1>1. GenerationInv'
    BY DEF GenerationInv
  <1>2. PendingOnLiveRegistration'
    BY DEF PendingOnLiveRegistration
  <1>3. WaitersAwaitReadiness'
    BY DEF WaitersAwaitReadiness, Connecting
  <1>4. SessionAgreement'
    <2> SUFFICES ASSUME registration \in ready
                 PROVE  owner'[registration] = owner[registration]
      BY DEF SessionAgreement
    <2> QED
      BY DEF LinkInv, Unopened, TypeOK, BrokerTypeOK
  <1> QED
    BY <1>1, <1>2, <1>3, <1>4

(* handleRegister fails the requests of the registration it replaces, so none is
   left pending on it. *)
LEMMA RegisterKeeps ==
  ASSUME IInv, NEW c \in Conn, Register(c)
  PROVE  GenerationInv' /\ PendingOnLiveRegistration' /\ WaitersAwaitReadiness'
           /\ SessionAgreement'
  <1> USE DEF IInv, TypeOK, BrokerTypeOK, procVars
  <1>0. c \notin ready
    <2>1. toBroker[c] \in Seq(Frame) /\ toBroker[c] # <<>>
      BY DEF Register, Takes, LinkTypeOK
    <2>2. 1 \in DOMAIN toBroker[c] /\ toBroker[c][1].type = "register"
      BY <2>1 DEF Register, Takes
    <2> QED
      BY <2>2 DEF LinkInv, RegisterFirst
  <1>1. GenerationInv'
    BY DEF Register, GenerationInv, WrapperTypeOK
  <1>2. PendingOnLiveRegistration'
    BY DEF Register, Failed, Pending, PendingOnLiveRegistration
  <1>3. WaitersAwaitReadiness'
    <2>1. Connecting' = Connecting
      BY DEF Register, Failed, Pending, Connecting
    <2> QED
      BY <1>0, <2>1 DEF Register, WaitersAwaitReadiness
  <1>4. SessionAgreement'
    BY <1>0 DEF Register, SessionAgreement
  <1> QED
    BY <1>1, <1>2, <1>3, <1>4

(* markReady releases every waiter, and tells the wrapper of the registration it
   made ready. *)
LEMMA MarkReadyKeeps ==
  ASSUME IInv, NEW c \in Conn, MarkReady(c)
  PROVE  GenerationInv' /\ PendingOnLiveRegistration' /\ WaitersAwaitReadiness'
           /\ SessionAgreement'
  <1> USE DEF IInv, TypeOK, BrokerTypeOK, brokerVars, linkVars, extVars, procVars
  <1>1. GenerationInv'
    BY DEF MarkReady, Observes, GenerationInv
  <1>2. PendingOnLiveRegistration'
    BY DEF MarkReady, PendingOnLiveRegistration, Connecting
  <1>3. WaitersAwaitReadiness'
    <2>1. waiting' = <<>> /\ Connecting' = {}
      BY DEF MarkReady, Connecting
    <2> QED
      BY <2>1 DEF WaitersAwaitReadiness
  <1>4. SessionAgreement'
    BY DEF MarkReady, Observes, SessionAgreement, GenerationInv, WrapperTypeOK, Conn, NoConn
  <1> QED
    BY <1>1, <1>2, <1>3, <1>4

(* The close of the current socket fails its requests; any other close changes
   nothing that the invariants read. *)
LEMMA CloseKeeps ==
  ASSUME IInv, NEW c \in Conn, BrokerSeesClose(c)
  PROVE  GenerationInv' /\ PendingOnLiveRegistration' /\ WaitersAwaitReadiness'
           /\ SessionAgreement'
  <1> USE DEF IInv, TypeOK, BrokerTypeOK, procVars
  <1>0. registration' \in {registration, NoConn} /\ NoConn \notin ready
    BY DEF BrokerSeesClose, Conn, NoConn
  <1>1. GenerationInv'
    BY <1>0 DEF BrokerSeesClose, GenerationInv
  <1>2. PendingOnLiveRegistration'
    BY DEF BrokerSeesClose, Forgets, Failed, Pending, PendingOnLiveRegistration
  <1>3. WaitersAwaitReadiness'
    <2>1. Connecting' = Connecting
      BY DEF BrokerSeesClose, Failed, Pending, Connecting
    <2> QED
      BY <1>0, <2>1 DEF BrokerSeesClose, WaitersAwaitReadiness
  <1>4. SessionAgreement'
    BY <1>0 DEF BrokerSeesClose, SessionAgreement
  <1> QED
    BY <1>1, <1>2, <1>3, <1>4

(* A response or a request timeout only settles its own command. *)
LEMMA SettleKeeps ==
  ASSUME IInv,
         (\E c \in Conn : BrokerResponse(c)) \/ (\E r \in Cmd : RequestTimeout(r))
  PROVE  GenerationInv' /\ PendingOnLiveRegistration' /\ WaitersAwaitReadiness'
           /\ SessionAgreement'
  <1> USE DEF IInv, brokerVars, linkVars, extVars, procVars
  <1>1. UNCHANGED <<closed, credential, registration, generation, nextGeneration, ready,
                    waiting, owner, procClosed, procSession, procGeneration, commandConn>>
    BY DEF BrokerResponse, RequestTimeout
  <1>2. \A r \in Cmd : command'[r] # command[r] =>
                          command[r] = "sent" /\ command'[r] \in {"ok", "failed"}
    BY DEF BrokerResponse, RequestTimeout, Settles, Pending, TypeOK, WrapperTypeOK
  <1>3. Connecting' = Connecting
    BY <1>2 DEF Connecting
  <1> QED
    BY <1>1, <1>2, <1>3 DEF GenerationInv, PendingOnLiveRegistration,
                            WaitersAwaitReadiness, SessionAgreement

(* sendRequest queues a waiter exactly when the registration is not ready. *)
LEMMA IssueKeeps ==
  ASSUME IInv, NEW r \in Cmd, Issue(r)
  PROVE  GenerationInv' /\ PendingOnLiveRegistration' /\ WaitersAwaitReadiness'
           /\ SessionAgreement'
  <1> USE DEF IInv, TypeOK, BrokerTypeOK, WrapperTypeOK, procVars
  <1>1. UNCHANGED <<closed, credential, registration, generation, nextGeneration, ready,
                    owner, procClosed, procSession, procGeneration>>
    BY DEF Issue
  <1>2. GenerationInv' /\ SessionAgreement'
    BY <1>1 DEF GenerationInv, SessionAgreement
  <1>3. PendingOnLiveRegistration'
    BY <1>1 DEF Issue, PendingOnLiveRegistration
  <1>4. WaitersAwaitReadiness'
    <2>1. CASE UNCHANGED waiting
      <3>1. Connecting' = Connecting
        BY <2>1 DEF Issue, Connecting
      <3> QED
        BY <1>1, <2>1, <3>1 DEF WaitersAwaitReadiness
    <2>2. CASE ~UNCHANGED waiting
      <3>1. /\ command' = [command EXCEPT ![r] = "connecting"]
            /\ waiting' = Append(waiting, r)
            /\ ~procClosed /\ ~closed /\ registration \notin ready
        BY <2>2 DEF Issue
      <3>2. Connecting' = Connecting \cup {r} /\ r \notin Connecting
        BY <3>1 DEF Issue, Connecting
      <3>8. /\ DOMAIN waiting = 1..Len(waiting) /\ Len(waiting) \in Nat
            /\ DOMAIN waiting' = 1..(Len(waiting) + 1)
            /\ \A n \in 1..Len(waiting) : waiting'[n] = waiting[n]
            /\ waiting'[Len(waiting) + 1] = r
        BY <3>1
      <3>9. 1..(Len(waiting) + 1) = 1..Len(waiting) \cup {Len(waiting) + 1}
        BY <3>8
      <3>3. {waiting'[n] : n \in DOMAIN waiting'} = {waiting[n] : n \in DOMAIN waiting} \cup {r}
        <4>1. ASSUME NEW n \in DOMAIN waiting'
              PROVE  waiting'[n] \in {waiting[m] : m \in DOMAIN waiting} \cup {r}
          <5>1. n \in DOMAIN waiting \/ n = Len(waiting) + 1
            BY <3>8, <3>9
          <5> QED
            BY <3>8, <5>1
        <4>2. ASSUME NEW n \in DOMAIN waiting
              PROVE  n \in DOMAIN waiting' /\ waiting'[n] = waiting[n]
          BY <3>8, <3>9
        <4>3. Len(waiting) + 1 \in DOMAIN waiting'
          BY <3>8
        <4> HIDE DEF IInv, TypeOK, BrokerTypeOK, WrapperTypeOK
        <4>4. ASSUME NEW x \in {waiting[n] : n \in DOMAIN waiting} \cup {r}
              PROVE  x \in {waiting'[n] : n \in DOMAIN waiting'}
          <5>1. CASE x = r
            BY <3>8, <4>3, <5>1
          <5>2. CASE x # r
            <6>1. PICK n \in DOMAIN waiting : x = waiting[n]
              BY <4>4, <5>2
            <6> QED
              BY <4>2, <6>1
          <5> QED
            BY <5>1, <5>2
        <4> QED
          BY <4>1, <4>4
      <3>4. \A n \in DOMAIN waiting : waiting[n] # r
        BY <3>2 DEF WaitersAwaitReadiness
      <3>5. \A m, n \in DOMAIN waiting' : waiting'[m] = waiting'[n] => m = n
        BY <3>1, <3>4 DEF WaitersAwaitReadiness
      <3>6. credential = "live"
        BY <3>1 DEF GenerationInv
      <3> QED
        BY <1>1, <3>1, <3>2, <3>3, <3>5, <3>6 DEF WaitersAwaitReadiness
    <2> QED
      BY <2>1, <2>2
  <1> QED
    BY <1>2, <1>3, <1>4

(* The timeout of a waiter removes that waiter and no other from the queue. *)
LEMMA ConnectTimeoutKeeps ==
  ASSUME IInv, NEW r \in Cmd, ConnectTimeout(r)
  PROVE  GenerationInv' /\ PendingOnLiveRegistration' /\ WaitersAwaitReadiness'
           /\ SessionAgreement'
  <1> USE DEF IInv, TypeOK, BrokerTypeOK, WrapperTypeOK, linkVars, procVars
  <1>1. UNCHANGED <<closed, credential, registration, generation, nextGeneration, ready,
                    owner, procClosed, procSession, procGeneration, commandConn>>
    BY DEF ConnectTimeout
  <1>2. GenerationInv' /\ SessionAgreement' /\ PendingOnLiveRegistration'
    BY <1>1 DEF ConnectTimeout, GenerationInv, SessionAgreement, PendingOnLiveRegistration
  <1>3. PICK k \in DOMAIN waiting :
            /\ waiting[k] = r
            /\ waiting' = [m \in 1..(Len(waiting) - 1) |-> waiting[IF m < k THEN m ELSE m + 1]]
    BY DEF ConnectTimeout
  <1>4. Connecting' = Connecting \ {r}
    BY DEF ConnectTimeout, Connecting
  <1>5. DOMAIN waiting = 1..Len(waiting) /\ Len(waiting) \in Nat
    OBVIOUS
  <1>6. DOMAIN waiting' = 1..(Len(waiting) - 1)
    BY <1>3
  <1>7. \A m \in DOMAIN waiting' :
           LET p == IF m < k THEN m ELSE m + 1 IN
           p \in DOMAIN waiting /\ p # k /\ waiting'[m] = waiting[p]
    BY <1>3, <1>5, <1>6
  <1>8. \A p \in DOMAIN waiting : p # k => \E m \in DOMAIN waiting' : waiting'[m] = waiting[p]
    <2> SUFFICES ASSUME NEW p \in DOMAIN waiting, p # k
                 PROVE  \E m \in DOMAIN waiting' : waiting'[m] = waiting[p]
      OBVIOUS
    <2>1. CASE p < k
      BY <1>3, <1>5, <1>6, <2>1
    <2>2. CASE p > k
      <3>1. p - 1 \in DOMAIN waiting' /\ ~(p - 1 < k) /\ (p - 1) + 1 = p
        BY <1>5, <1>6, <2>2
      <3>2. waiting'[p - 1] = waiting[p]
        BY <1>3, <1>6, <3>1
      <3> QED
        BY <3>1, <3>2
    <2> QED
      BY <1>5, <2>1, <2>2
  <1>9. {waiting'[m] : m \in DOMAIN waiting'} = {waiting[n] : n \in DOMAIN waiting} \ {r}
    <2>1. \A p \in DOMAIN waiting : waiting[p] = r => p = k
      BY <1>3 DEF WaitersAwaitReadiness
    <2>2. ASSUME NEW m \in DOMAIN waiting'
          PROVE  waiting'[m] \in {waiting[n] : n \in DOMAIN waiting} \ {r}
      BY <1>7, <2>1
    <2>3. ASSUME NEW x \in {waiting[n] : n \in DOMAIN waiting} \ {r}
          PROVE  x \in {waiting'[m] : m \in DOMAIN waiting'}
      <3>1. PICK p \in DOMAIN waiting : x = waiting[p] /\ x # r
        BY <2>3
      <3>2. p # k
        BY <1>3, <3>1
      <3>3. PICK m \in DOMAIN waiting' : waiting'[m] = waiting[p]
        BY <1>8, <3>2
      <3> QED
        BY <3>1, <3>3
    <2> QED
      BY <2>2, <2>3
  <1>10. ASSUME NEW m \in DOMAIN waiting', NEW n \in DOMAIN waiting', waiting'[m] = waiting'[n]
         PROVE  m = n
    <2> DEFINE at(x) == IF x < k THEN x ELSE x + 1
    <2>1. at(m) \in DOMAIN waiting /\ at(n) \in DOMAIN waiting
             /\ waiting[at(m)] = waiting[at(n)]
      BY <1>7, <1>10
    <2>2. at(m) = at(n)
      BY <2>1 DEF WaitersAwaitReadiness
    <2> QED
      BY <1>5, <1>6, <2>2
  <1>11. waiting # <<>>
    BY <1>3
  <1> QED
    BY <1>1, <1>2, <1>4, <1>9, <1>10, <1>11 DEF WaitersAwaitReadiness

(* Release and close fail everything outstanding and forget the registration. *)
LEMMA RevocationKeeps ==
  ASSUME IInv, Release \/ CloseBroker
  PROVE  GenerationInv' /\ PendingOnLiveRegistration' /\ WaitersAwaitReadiness'
           /\ SessionAgreement'
  <1> USE DEF IInv, TypeOK, BrokerTypeOK
  <1>0. PICK cs : Revoked(cs)
    BY DEF Release, CloseBroker
  <1>1. /\ registration' = NoConn /\ waiting' = <<>> /\ ready' = ready
        /\ UNCHANGED <<generation, nextGeneration, procGeneration>>
        /\ command' = Failed(Outstanding)
        /\ NoConn \notin ready'
    BY <1>0 DEF Revoked, Conn, NoConn
  <1>2. procClosed' \/ closed'
    BY DEF Release, CloseBroker
  <1>3. \A r \in Cmd : command'[r] \notin {"sent", "connecting"}
    BY <1>1 DEF Failed, Outstanding, Pending, Connecting, PendingOnLiveRegistration
  <1>4. Connecting' = {}
    BY <1>3 DEF Connecting
  <1> QED
    BY <1>1, <1>2, <1>3, <1>4 DEF GenerationInv, PendingOnLiveRegistration,
                                  WaitersAwaitReadiness, SessionAgreement

(* IInv is inductive. *)
LEMMA Invariance == IInv /\ [Next]_vars => IInv'
  <1> SUFFICES ASSUME IInv, [Next]_vars PROVE IInv'
    OBVIOUS
  <1>1. CASE Next
    <2>1. TypeOK'
      BY <1>1, TypeStep DEF IInv
    <2>2. LinkInv'
      BY <1>1, UnopenedStep, RegisterFirstStep, OwnSocketStep, RegisteredStep DEF IInv, LinkInv
    <2>3. GenerationInv' /\ PendingOnLiveRegistration' /\ WaitersAwaitReadiness'
             /\ SessionAgreement'
      BY <1>1, QuietStep, QuietKeeps, RegisterKeeps, MarkReadyKeeps, CloseKeeps,
         SettleKeeps, IssueKeeps, ConnectTimeoutKeeps, RevocationKeeps
      DEF IInv, Next, StandDown, InstanceDies
    <2> QED
      BY <2>1, <2>2, <2>3 DEF IInv
  <1>2. CASE UNCHANGED vars
    <2>1. TypeOK'
      BY <1>2 DEF IInv, TypeOK, BrokerTypeOK, LinkTypeOK, ExtensionTypeOK, BoundsOK,
                  WrapperTypeOK, vars, brokerVars, linkVars, extVars, socketState,
                  streamVars, procVars, commandVars
    <2>2. LinkInv'
      BY <1>2 DEF IInv, LinkInv, Unopened, RegisterFirst, OwnSocket, vars, brokerVars,
                  linkVars, extVars, socketState
    <2>3. Quiet
      BY <1>2 DEF Quiet, vars, brokerVars, linkVars, procVars, commandVars
    <2> QED
      BY <2>1, <2>2, <2>3, QuietKeeps DEF IInv
  <1> QED
    BY <1>1, <1>2

(* A new broker and wrapper satisfy IInv. *)
LEMMA InitialInvariant == Init => IInv
  <1> SUFFICES ASSUME Init PROVE IInv
    OBVIOUS
  <1> USE BridgeAssumption DEF Init, Conn, NoConn, Instance
  <1>1. TypeOK
    <2> DEFINE empty == <<>>
    <2>5. empty \in Seq(Cmd) /\ empty \in Seq(Frame) /\ empty \in Seq(1..MaxEvents)
      OBVIOUS
    <2>6. 1 \in Instance /\ 0 \in Nat /\ 1 \in Nat \ {0}
      OBVIOUS
    <2> HIDE DEF empty
    <2>7. BrokerTypeOK
      <3>1. waiting = empty
        BY DEF empty
      <3> QED
        BY <2>5, <2>6, <3>1 DEF BrokerTypeOK
    <2>8. LinkTypeOK
      <3>1. toBroker = [c \in Conn |-> empty] /\ toExt = [c \in Conn |-> empty]
        BY DEF empty
      <3> QED
        BY <2>5, <2>6, <3>1 DEF LinkTypeOK
    <2>1. BrokerTypeOK /\ LinkTypeOK
      BY <2>7, <2>8
    <2>2. ExtensionTypeOK
      BY DEF ExtensionTypeOK
    <2>3. BoundsOK
      BY DEF BoundsOK
    <2>4. WrapperTypeOK
      <3>1. delivered = [i \in Instance |-> empty]
        BY DEF empty
      <3> QED
        BY <2>5, <2>6, <3>1 DEF WrapperTypeOK
    <2> QED
      BY <2>1, <2>2, <2>3, <2>4 DEF TypeOK
  <1>2. LinkInv /\ GenerationInv
    BY DEF LinkInv, Unopened, RegisterFirst, OwnSocket, GenerationInv
  <1>3. PendingOnLiveRegistration /\ WaitersAwaitReadiness /\ SessionAgreement
    BY DEF PendingOnLiveRegistration, WaitersAwaitReadiness, SessionAgreement, Connecting
  <1> QED
    BY <1>1, <1>2, <1>3 DEF IInv

(* The invariant of the specification. *)
LEMMA InvariantHolds == Spec => []IInv
  BY InitialInvariant, Invariance, PTL DEF Spec

(* Every variable keeps its type, the backlog of an instance never exceeds  *)
(* MAX_EVENT_BACKLOG and an instance that never registered stops dialing at *)
(* MAX_UNREGISTERED_CONNECT_ATTEMPTS, for any values of these limits.       *)
THEOREM TypeCorrect == Spec => []TypeOK
  BY InvariantHolds, PTL DEF IInv

(* However registrations replace one another, links fail and the wrapper is *)
(* released, no request is left pending on a registration that is gone: it  *)
(* was failed when handleRegister, handleSocketClose or close dropped it.   *)
THEOREM NoOrphanedRequest == Spec => []PendingOnLiveRegistration
  BY InvariantHolds, PTL DEF IInv

(* waitUntilReady queues a caller only while the registration is not ready, *)
(* and every way out of that state resolves, rejects or times out the       *)
(* callers it queued, each once.                                            *)
THEOREM WaitersServed == Spec => []WaitersAwaitReadiness
  BY InvariantHolds, PTL DEF IInv

(* A caller of the bridge waits only for what may still come: an answer of *)
(* the registration its request went to, or a registration.                *)
THEOREM NobodyStranded == Spec => []NobodyIsStranded
  BY NoOrphanedRequest, WaitersServed, PTL DEF NobodyIsStranded

(* Whatever the order of registrations, ready frames, stale ready frames    *)
(* and subscriptions, the session NativeBridgeProcess shows is that of the  *)
(* registration requests go to, as soon as that registration is ready.      *)
THEOREM SessionIsCurrent == Spec => []SessionAgreement
  BY InvariantHolds, PTL DEF IInv

-----------------------------------------------------------------------------
(***************************************************************************)
(* What the sockets carry.                                                 *)
(*                                                                         *)
(* First, NativeBridge implements CommandChannel: what a caller is told is *)
(* settled once, its command is started at most once, and it succeeds only *)
(* if it was started.  The invariant follows a request from the frame that *)
(* carries it to the response: while it is in flight it has not been       *)
(* started, it is in one place only, on the socket its command was written *)
(* to; an execution and a response belong to a command that was started    *)
(* once.                                                                   *)
(*                                                                         *)
(* Then the order of the frames.  That a replaced registration belongs to  *)
(* another instance holds because an instance holds one open socket at a   *)
(* time, and a register frame that is still read was written on it         *)
(* (RetireInv).  That `ready' comes first holds because an instance sends  *)
(* nothing on a socket before the broker's `registered', and then `ready'  *)
(* before its backlog (OrderInv).  The events of an instance lie in three  *)
(* places, and each is ahead of the next: delivered, in transit on the     *)
(* current socket, in the backlog (EventInv).                              *)
(***************************************************************************)
-----------------------------------------------------------------------------
(* Requests and responses.                                                 *)

(* A request in flight is that of a command that was sent on this socket   *)
(* and not started; its caller may have given up meanwhile.                *)
Handed(c) ==
    \A n \in DOMAIN toExt[c] : toExt[c][n].type = "request" =>
        LET r == toExt[c][n].id IN
        /\ executions[r] = 0
        /\ command[r] \in {"sent", "failed"}
        /\ commandConn[r] = c
        /\ c \in ready

(* No socket carries a request twice. *)
HandedOnce(c) ==
    \A m, n \in DOMAIN toExt[c] :
        toExt[c][m].type = "request" /\ toExt[c][n] = toExt[c][m] => m = n

(* A response is that of a command that was started. *)
Answered(c) ==
    \A n \in DOMAIN toBroker[c] :
        toBroker[c][n].type = "response" => executions[toBroker[c][n].id] = 1

(* A command is started once, and not before it was sent. *)
StartedOnce(r) ==
    /\ executions[r] \in {0, 1}
    /\ command[r] \in {"idle", "connecting"} => executions[r] = 0

Executed(e) == executions[e[1]] = 1 /\ e[2] \in ready

CommandInv ==
    /\ \A c \in Conn : Handed(c) /\ HandedOnce(c) /\ Answered(c)
    /\ \A r \in Cmd : StartedOnce(r)
    /\ \A e \in executing : Executed(e)

-----------------------------------------------------------------------------
(* What a step may do to the frames of a socket without touching a command.*)

(* The requests in flight are those from before, none or the first gone. *)
RequestsKept(c) ==
    \E k \in {0, 1} : \A n \in DOMAIN toExt'[c] : toExt'[c][n].type = "request" =>
        n + k \in DOMAIN toExt[c] /\ toExt'[c][n] = toExt[c][n + k]

(* The responses in flight were there before. *)
ResponsesKept(c) ==
    \A n \in DOMAIN toBroker'[c] : toBroker'[c][n].type = "response" =>
        \E m \in DOMAIN toBroker[c] : toBroker'[c][n] = toBroker[c][m]

(* No command is started, sent or answered; some may fail. *)
CommandsKept ==
    /\ UNCHANGED <<executions, commandConn>>
    /\ ready \subseteq ready' /\ executing' \subseteq executing
    /\ \A r \in Cmd : /\ command[r] \in {"sent", "failed"} => command'[r] \in {"sent", "failed"}
                      /\ command'[r] \in {"idle", "connecting"} => command'[r] = command[r]

(* A sequence with one element more. *)
LEMMA OneMore ==
  ASSUME NEW S, NEW s \in Seq(S), NEW e \in S, NEW t, t = s \o <<e>>
  PROVE  /\ DOMAIN t = DOMAIN s \cup {Len(s) + 1}
         /\ \A k \in DOMAIN s : t[k] = s[k]
         /\ t[Len(s) + 1] = e
  <1>1. t = Append(s, e)
    OBVIOUS
  <1>2. Len(s) \in Nat /\ DOMAIN s = 1..Len(s)
    OBVIOUS
  <1> QED BY <1>1, <1>2

(* What is in transit are frames, and a request or a response names a command. *)
LEMMA FramesInTransit ==
  ASSUME LinkTypeOK, NEW c \in Conn
  PROVE  /\ \A n \in DOMAIN toExt[c] : /\ toExt[c][n] \in Frame
                                       /\ toExt[c][n].type = "request" => toExt[c][n].id \in Cmd
         /\ \A n \in DOMAIN toBroker[c] : /\ toBroker[c][n] \in Frame
                                          /\ toBroker[c][n].type = "response" => toBroker[c][n].id \in Cmd
  <1>1. toExt[c] \in Seq(Frame) /\ toBroker[c] \in Seq(Frame)
    BY DEF LinkTypeOK
  <1>2. \A f \in Frame : f.type \in {"request", "response"} => f.id \in Cmd
    BY DEF Frame
  <1> QED BY <1>1, <1>2, ElementOfSeq

(* Frames left alone, dropped, read, or followed by others that are no requests. *)
LEMMA RequestFrames ==
  ASSUME LinkTypeOK, NEW c \in Conn,
         \/ toExt'[c] \in {toExt[c], <<>>}
         \/ toExt[c] # <<>> /\ toExt'[c] = Tail(toExt[c])
         \/ \E s \in Seq(Frame) : /\ \A n \in DOMAIN s : s[n].type # "request"
                                  /\ toExt'[c] = WrittenToExt(c, s)
  PROVE  RequestsKept(c)
  <1> USE DEF RequestsKept
  <1>0. toExt[c] \in Seq(Frame)
    BY DEF LinkTypeOK
  <1>1. CASE toExt'[c] \in {toExt[c], <<>>}
    <2> SUFFICES \A n \in DOMAIN toExt'[c] : n + 0 \in DOMAIN toExt[c] /\ toExt'[c][n] = toExt[c][n + 0]
      OBVIOUS
    <2> QED BY <1>0, <1>1
  <1>2. CASE toExt[c] # <<>> /\ toExt'[c] = Tail(toExt[c])
    <2> SUFFICES \A n \in DOMAIN toExt'[c] : n + 1 \in DOMAIN toExt[c] /\ toExt'[c][n] = toExt[c][n + 1]
      OBVIOUS
    <2> QED BY <1>0, <1>2
  <1>3. ASSUME NEW s \in Seq(Frame), \A n \in DOMAIN s : s[n].type # "request",
               toExt'[c] = toExt[c] \o s
        PROVE  RequestsKept(c)
    <2> SUFFICES ASSUME NEW n \in DOMAIN toExt'[c], toExt'[c][n].type = "request"
                 PROVE  n + 0 \in DOMAIN toExt[c] /\ toExt'[c][n] = toExt[c][n + 0]
      OBVIOUS
    <2> QED BY <1>0, <1>3
  <1> QED BY <1>1, <1>2, <1>3 DEF WrittenToExt

LEMMA ResponseFrames ==
  ASSUME LinkTypeOK, NEW c \in Conn,
         \/ toBroker'[c] \in {toBroker[c], <<>>, Signal("register")}
         \/ toBroker[c] # <<>> /\ toBroker'[c] = Tail(toBroker[c])
         \/ \E s \in Seq(Frame) : /\ \A n \in DOMAIN s : s[n].type # "response"
                                  /\ toBroker'[c] = WrittenToBroker(c, s)
  PROVE  ResponsesKept(c)
  <1> USE DEF ResponsesKept
  <1>0. toBroker[c] \in Seq(Frame)
    BY DEF LinkTypeOK
  <1>1. CASE toBroker'[c] \in {toBroker[c], <<>>, Signal("register")}
    BY <1>1 DEF Signal
  <1>2. CASE toBroker[c] # <<>> /\ toBroker'[c] = Tail(toBroker[c])
    <2> SUFFICES \A n \in DOMAIN toBroker'[c] : n + 1 \in DOMAIN toBroker[c] /\ toBroker'[c][n] = toBroker[c][n + 1]
      OBVIOUS
    <2> QED BY <1>0, <1>2
  <1>3. ASSUME NEW s \in Seq(Frame), \A n \in DOMAIN s : s[n].type # "response",
               toBroker'[c] = toBroker[c] \o s
        PROVE  ResponsesKept(c)
    <2> SUFFICES ASSUME NEW n \in DOMAIN toBroker'[c], toBroker'[c][n].type = "response"
                 PROVE  n \in DOMAIN toBroker[c] /\ toBroker'[c][n] = toBroker[c][n]
      OBVIOUS
    <2> QED BY <1>0, <1>3
  <1> QED BY <1>1, <1>2, <1>3 DEF WrittenToBroker

(* An announcement carries no response. *)
LEMMA AnnouncementFrames ==
  ASSUME ExtensionTypeOK, NEW i \in Instance
  PROVE  /\ Announcement(i) \in Seq(Frame)
         /\ \A n \in DOMAIN Announcement(i) : Announcement(i)[n].type # "response"
  <1>1. BacklogFrames(i) = [n \in 1..Len(backlog[i]) |-> EventFrame(backlog[i][n])]
        /\ Len(backlog[i]) \in Nat
    BY DEF ExtensionTypeOK, BacklogFrames
  <1>2. BacklogFrames(i) \in Seq({f \in Frame : f.type = "event"})
    <2> DEFINE Events == {f \in Frame : f.type = "event"}
    <2>1. \A n \in 1..Len(backlog[i]) : backlog[i][n] \in 1..MaxEvents
      BY ElementOfSeq DEF ExtensionTypeOK
    <2>2. \A n \in 1..Len(backlog[i]) : EventFrame(backlog[i][n]) \in Events
      BY <2>1, Frames DEF EventFrame
    <2>3. BacklogFrames(i) \in [DOMAIN backlog[i] -> Events]
      BY <1>1, <2>2 DEF BacklogFrames, ExtensionTypeOK
    <2>4. backlog[i] \in Seq(1..MaxEvents)
      BY DEF ExtensionTypeOK
    <2> HIDE DEF Events
    <2>5. DOMAIN backlog[i] = 1..Len(backlog[i])
      BY <2>4
    <2>6. BacklogFrames(i) \in Seq(Events)
      BY <2>3, <2>4, <2>5, Mapped
    <2> QED BY <2>6 DEF Events
  <1>3. Signal("ready") \in Seq(Frame) /\ Len(Signal("ready")) = 1 /\ Signal("ready")[1].type # "response"
    BY Frames DEF Signal
  <1> QED
    BY AnnouncementType, <1>2, <1>3 DEF Announcement

(* A step of that kind keeps the invariant. *)
LEMMA KeptKeeps ==
  ASSUME TypeOK, CommandInv, CommandsKept, LinkTypeOK',
         \A c \in Conn : RequestsKept(c) /\ ResponsesKept(c)
  PROVE  CommandInv'
  <1> USE DEF CommandInv, CommandsKept, TypeOK, WrapperTypeOK
  <1>1. ASSUME NEW c \in Conn PROVE Handed(c)' /\ HandedOnce(c)'
    <2>1. PICK k \in {0, 1} : \A n \in DOMAIN toExt'[c] : toExt'[c][n].type = "request" =>
              n + k \in DOMAIN toExt[c] /\ toExt'[c][n] = toExt[c][n + k]
      BY DEF RequestsKept
    <2>2. DOMAIN toExt'[c] \subseteq Nat
      BY DEF LinkTypeOK
    <2>3. \A f \in Frame : f.type = "request" => f.id \in Cmd
      BY Frames
    <2>4. \A n \in DOMAIN toExt'[c] : toExt'[c][n] \in Frame
      BY DEF LinkTypeOK
    <2>5. Handed(c)'
      <3> SUFFICES ASSUME NEW n \in DOMAIN toExt'[c], toExt'[c][n].type = "request",
                          NEW r \in Cmd, r = toExt'[c][n].id
                   PROVE  /\ executions'[r] = 0 /\ command'[r] \in {"sent", "failed"}
                          /\ commandConn'[r] = c /\ c \in ready'
        BY <2>3, <2>4 DEF Handed
      <3>1. n + k \in DOMAIN toExt[c] /\ toExt'[c][n] = toExt[c][n + k]
        BY <2>1
      <3>2. /\ executions[r] = 0 /\ command[r] \in {"sent", "failed"}
            /\ commandConn[r] = c /\ c \in ready
        BY <3>1 DEF Handed
      <3> QED BY <3>2
    <2>6. HandedOnce(c)'
      <3> SUFFICES ASSUME NEW m \in DOMAIN toExt'[c], NEW n \in DOMAIN toExt'[c],
                          toExt'[c][m].type = "request", toExt'[c][n] = toExt'[c][m]
                   PROVE  m = n
        BY DEF HandedOnce
      <3>1. m + k = n + k
        BY <2>1 DEF HandedOnce
      <3> QED BY <2>2, <3>1
    <2> QED BY <2>5, <2>6
  <1>2. ASSUME NEW c \in Conn PROVE Answered(c)'
    <2> SUFFICES ASSUME NEW n \in DOMAIN toBroker'[c], toBroker'[c][n].type = "response"
                 PROVE  executions'[toBroker'[c][n].id] = 1
      BY DEF Answered
    <2>1. PICK m \in DOMAIN toBroker[c] : toBroker'[c][n] = toBroker[c][m]
      BY DEF ResponsesKept
    <2> QED BY <2>1 DEF Answered
  <1>3. ASSUME NEW r \in Cmd PROVE StartedOnce(r)'
    BY DEF StartedOnce
  <1>4. ASSUME NEW e \in executing' PROVE Executed(e)'
    BY DEF Executed
  <1> QED BY <1>1, <1>2, <1>3, <1>4

(* The extension's steps and the broker's, but for those that send or start
   a command or hand back its response. *)
LEMMA OtherStepsKeep ==
  ASSUME IInv, CommandInv, LinkTypeOK',
         \/ \E i \in Instance :
              \/ Fork(i) \/ Join(i) \/ ConnectRefused(i) \/ Shutdown(i) \/ ExtRegistered(i)
              \/ ExtSeesClose(i) \/ EmitEvent(i) \/ \E c \in Conn : Connect(i, c)
         \/ \E c \in Conn :
              \/ RegisterRefused(c) \/ Register(c) \/ BrokerEvent(c) \/ BrokerRejectsFrame(c)
              \/ SupersededTimeout(c) \/ BrokerSeesClose(c) \/ LinkFails(c)
         \/ \E r \in Cmd : ConnectTimeout(r) \/ RequestTimeout(r)
         \/ Subscribe \/ Release \/ CloseBroker \/ UNCHANGED vars
  PROVE  CommandInv'
  <1> USE DEF IInv, TypeOK, LinkTypeOK, brokerVars, linkVars, extVars, socketState, streamVars,
              procVars, commandVars
  <1>0. TypeOK /\ LinkTypeOK
    OBVIOUS
  <1>1. ASSUME NEW i \in Instance, Fork(i) \/ Join(i) \/ ConnectRefused(i)
        PROVE  CommandInv'
    <2>1. UNCHANGED <<toExt, toBroker>> /\ CommandsKept
      BY <1>1 DEF Fork, Join, ConnectRefused, CommandsKept, WrapperTypeOK
    <2> QED BY <2>1, RequestFrames, ResponseFrames, KeptKeeps
  <1>2. ASSUME NEW i \in Instance, Shutdown(i) PROVE CommandInv'
    <2>1. CommandsKept
      BY <1>2 DEF Shutdown, CommandsKept
    <2>2. \A c \in Conn : toExt'[c] \in {toExt[c], <<>>} /\ toBroker'[c] = toBroker[c]
      BY <1>2 DEF Shutdown
    <2> QED BY <2>1, <2>2, RequestFrames, ResponseFrames, KeptKeeps
  <1>3. ASSUME NEW i \in Instance, ExtRegistered(i) PROVE CommandInv'
    <2>1. CommandsKept
      BY <1>3 DEF ExtRegistered, CommandsKept
    <2>2. \A c \in Conn : RequestsKept(c)
      BY <1>3, RequestFrames DEF ExtRegistered, Receives
    <2>3. Announcement(i) \in Seq(Frame) /\ \A n \in DOMAIN Announcement(i) : Announcement(i)[n].type # "response"
      BY AnnouncementFrames
    <2>4. \A c \in Conn : toBroker'[c] \in {toBroker[c], WrittenToBroker(c, Announcement(i))}
      BY <1>3 DEF ExtRegistered
    <2>5. \A c \in Conn : ResponsesKept(c)
      BY <2>3, <2>4, ResponseFrames
    <2> QED BY <2>1, <2>2, <2>5, KeptKeeps
  <1>4. ASSUME NEW i \in Instance, ExtSeesClose(i) PROVE CommandInv'
    <2>1. UNCHANGED <<toExt, toBroker>> /\ CommandsKept
      BY <1>4 DEF ExtSeesClose, CommandsKept
    <2> QED BY <2>1, RequestFrames, ResponseFrames, KeptKeeps
  <1>5. ASSUME NEW i \in Instance, EmitEvent(i) PROVE CommandInv'
    <2> DEFINE s == <<EventFrame(emitted[i] + 1)>>
    <2>1. CommandsKept /\ UNCHANGED toExt
      BY <1>5 DEF EmitEvent, CommandsKept
    <2>2. s \in Seq(Frame) /\ \A n \in DOMAIN s : s[n].type # "response"
      BY <1>5, Frames DEF EmitEvent, ExtensionTypeOK, EventFrame
    <2>3. \A c \in Conn : toBroker'[c] \in {toBroker[c], WrittenToBroker(c, s)}
      BY <1>5 DEF EmitEvent
    <2> HIDE DEF s
    <2>4. \A c \in Conn : ResponsesKept(c)
      BY <2>2, <2>3, ResponseFrames
    <2> QED BY <2>1, <2>4, RequestFrames, KeptKeeps
  <1>6. ASSUME NEW i \in Instance, NEW c \in Conn, Connect(i, c) PROVE CommandInv'
    <2>1. CommandsKept /\ UNCHANGED toExt
      BY <1>6 DEF Connect, CommandsKept
    <2>2. \A d \in Conn : toBroker'[d] \in {toBroker[d], Signal("register")}
      BY <1>6 DEF Connect
    <2> QED BY <2>1, <2>2, RequestFrames, ResponseFrames, KeptKeeps
  <1>7. \A t \in {"registered", "replaced", "registration-error"} :
           Signal(t) \in Seq(Frame) /\ \A n \in DOMAIN Signal(t) : Signal(t)[n].type # "request"
    BY Frames DEF Signal
  <1>8. ASSUME NEW c \in Conn, RegisterRefused(c) PROVE CommandInv'
    <2>1. CommandsKept /\ toBroker' = Taken(c) /\ toBroker[c] # <<>>
      BY <1>8 DEF RegisterRefused, CommandsKept, Takes
    <2>2. \A d \in Conn : toExt'[d] \in {toExt[d], WrittenToExt(d, Signal("registration-error"))}
      BY <1>8 DEF RegisterRefused
    <2>3. \A d \in Conn : RequestsKept(d)
      BY <1>7, <2>2, RequestFrames
    <2>4. \A d \in Conn : ResponsesKept(d)
      BY <2>1, ResponseFrames DEF Taken
    <2> QED BY <2>1, <2>3, <2>4, KeptKeeps
  <1>9. ASSUME NEW c \in Conn, Register(c) PROVE CommandInv'
    <2>1. CommandsKept /\ toBroker' = Taken(c) /\ toBroker[c] # <<>>
      BY <1>9 DEF Register, Failed, Pending, CommandsKept, Takes, WrapperTypeOK
    <2>2. \A d \in Conn : toExt'[d] \in {toExt[d], WrittenToExt(d, Signal("registered")),
                                          WrittenToExt(d, Signal("replaced"))}
      BY <1>9 DEF Register, RegisterReplies
    <2>3. \A d \in Conn : RequestsKept(d)
      BY <1>7, <2>2, RequestFrames
    <2>4. \A d \in Conn : ResponsesKept(d)
      BY <2>1, ResponseFrames DEF Taken
    <2> QED BY <2>1, <2>3, <2>4, KeptKeeps
  <1>10. ASSUME NEW c \in Conn, BrokerEvent(c) PROVE CommandInv'
    <2>1. CommandsKept /\ UNCHANGED toExt /\ toBroker' = Taken(c) /\ toBroker[c] # <<>>
      BY <1>10 DEF BrokerEvent, CommandsKept, Takes
    <2>2. \A d \in Conn : ResponsesKept(d)
      BY <2>1, ResponseFrames DEF Taken
    <2> QED BY <2>1, <2>2, RequestFrames, KeptKeeps
  <1>11. ASSUME NEW c \in Conn,
                BrokerRejectsFrame(c) \/ SupersededTimeout(c) \/ BrokerSeesClose(c) \/ LinkFails(c)
         PROVE  CommandInv'
    <2>1. CommandsKept
      BY <1>11 DEF BrokerRejectsFrame, SupersededTimeout, BrokerSeesClose, LinkFails, Failed,
                   Pending, CommandsKept, WrapperTypeOK
    <2>2. \A d \in Conn : toExt'[d] \in {toExt[d], <<>>} /\ toBroker'[d] \in {toBroker[d], <<>>}
      BY <1>11 DEF BrokerRejectsFrame, SupersededTimeout, BrokerSeesClose, LinkFails
    <2> QED BY <2>1, <2>2, RequestFrames, ResponseFrames, KeptKeeps
  <1>12. ASSUME NEW r \in Cmd, ConnectTimeout(r) \/ RequestTimeout(r) PROVE CommandInv'
    <2>1. UNCHANGED <<toExt, toBroker>> /\ CommandsKept
      BY <1>12 DEF ConnectTimeout, RequestTimeout, CommandsKept, WrapperTypeOK
    <2> QED BY <2>1, RequestFrames, ResponseFrames, KeptKeeps
  <1>13. ASSUME Release \/ CloseBroker PROVE CommandInv'
    <2>1. CommandsKept /\ UNCHANGED toExt
      BY <1>13 DEF Release, CloseBroker, Revoked, Failed, Outstanding, Pending, Connecting,
                   CommandsKept, WrapperTypeOK
    <2>2. \A d \in Conn : toBroker'[d] \in {toBroker[d], <<>>}
      BY <1>13 DEF Release, CloseBroker, Revoked
    <2> QED BY <2>1, <2>2, RequestFrames, ResponseFrames, KeptKeeps
  <1>14. ASSUME Subscribe \/ UNCHANGED vars PROVE CommandInv'
    <2>1. UNCHANGED <<toExt, toBroker>> /\ CommandsKept
      BY <1>14 DEF Subscribe, vars, CommandsKept
    <2> QED BY <2>1, RequestFrames, ResponseFrames, KeptKeeps
  <1> QED
    BY <1>1, <1>2, <1>3, <1>4, <1>5, <1>6, <1>8, <1>9, <1>10, <1>11, <1>12, <1>13, <1>14

-----------------------------------------------------------------------------
(* The steps that send a command: none of its frames is in flight before. *)

(* The waiting commands are distinct and unsent (WaitersAwaitReadiness), so
   are the requests that markReady writes. *)
LEMMA MarkReadyCommands ==
  ASSUME IInv, CommandInv, NEW c \in Conn, MarkReady(c), LinkTypeOK'
  PROVE  CommandInv'
  <1> USE DEF IInv, TypeOK, CommandInv
  <1> DEFINE s == [n \in DOMAIN waiting |-> Request(waiting[n])]
  <1>1. waiting \in Seq(Cmd) /\ DOMAIN waiting = 1..Len(waiting) /\ Len(waiting) \in Nat
    BY DEF BrokerTypeOK
  <1>2. \A n \in DOMAIN waiting : waiting[n] \in Connecting
    BY DEF WaitersAwaitReadiness
  <1>3. s \in [DOMAIN waiting -> Frame]
    BY <1>1, Frames
  <1>4. s \in Seq(Frame) /\ Len(s) = Len(waiting)
    BY <1>1, <1>3, Mapped
  <1>5. \A r \in Cmd : r \notin Connecting =>
            command'[r] = command[r] /\ commandConn'[r] = commandConn[r]
    BY DEF MarkReady, WrapperTypeOK
  <1>6. \A r \in Connecting : command'[r] = "sent" /\ commandConn'[r] = c /\ executions[r] = 0
    BY DEF MarkReady, StartedOnce, Connecting
  <1>7. /\ executions' = executions /\ executing' = executing
        /\ ready' = ready \cup {c} /\ toBroker' = Taken(c) /\ toBroker[c] # <<>>
    BY DEF MarkReady, Takes
  <1>8. \A d \in Conn : d # c => toExt'[d] = toExt[d]
    BY DEF MarkReady, LinkTypeOK
  <1>9. toExt'[c] \in {toExt[c], toExt[c] \o s}
    BY DEF MarkReady, LinkTypeOK, WrittenToExt
  <1>10. \A d \in Conn : \A n \in DOMAIN toExt[d] : toExt[d][n].type = "request" =>
            toExt[d][n].id \in Cmd \ Connecting
    BY FramesInTransit DEF Handed, Connecting
  <1>11. ASSUME NEW d \in Conn, NEW n \in DOMAIN toExt'[d]
         PROVE  \/ n \in DOMAIN toExt[d] /\ toExt'[d][n] = toExt[d][n]
                \/ /\ d = c /\ n - Len(toExt[c]) \in DOMAIN waiting
                   /\ n = Len(toExt[c]) + (n - Len(toExt[c]))
                   /\ toExt'[d][n].id = waiting[n - Len(toExt[c])]
    <2> HIDE DEF s
    <2>1. toExt[d] \in Seq(Frame)
      BY DEF LinkTypeOK
    <2>2. CASE d = c /\ toExt'[c] = toExt[c] \o s /\ n \notin DOMAIN toExt[d]
      <3>1. n - Len(toExt[c]) \in 1..Len(s) /\ toExt'[c][n] = s[n - Len(toExt[c])]
            /\ n \in Nat /\ Len(toExt[c]) \in Nat
        BY <1>4, <2>1, <2>2
      <3>2. s[n - Len(toExt[c])].id = waiting[n - Len(toExt[c])]
        BY <1>1, <1>4, <3>1 DEF s, Request
      <3> QED BY <1>1, <1>4, <2>2, <3>1, <3>2
    <2>3. CASE d = c /\ toExt'[c] = toExt[c] \o s /\ n \in DOMAIN toExt[d]
      BY <1>4, <2>1, <2>3
    <2>4. CASE toExt'[d] = toExt[d]
      BY <2>4
    <2> QED BY <1>8, <1>9, <2>2, <2>3, <2>4
  <1> HIDE DEF s
  <1>12. ASSUME NEW d \in Conn PROVE Handed(d)'
    <2> SUFFICES ASSUME NEW n \in DOMAIN toExt'[d], toExt'[d][n].type = "request",
                        NEW r, r = toExt'[d][n].id
                 PROVE  /\ executions'[r] = 0 /\ command'[r] \in {"sent", "failed"}
                        /\ commandConn'[r] = d /\ d \in ready'
      BY DEF Handed
    <2>1. CASE n \in DOMAIN toExt[d] /\ toExt'[d][n] = toExt[d][n]
      <3>1. r \in Cmd \ Connecting
        BY <1>10, <2>1
      <3>2. executions[r] = 0 /\ command[r] \in {"sent", "failed"} /\ commandConn[r] = d /\ d \in ready
        BY <2>1 DEF Handed
      <3> QED BY <1>5, <1>7, <3>1, <3>2
    <2>2. CASE ~(n \in DOMAIN toExt[d] /\ toExt'[d][n] = toExt[d][n])
      <3>1. d = c /\ n - Len(toExt[c]) \in DOMAIN waiting /\ r = waiting[n - Len(toExt[c])]
        BY <1>11, <2>2
      <3> QED BY <1>2, <1>6, <1>7, <3>1
    <2> QED BY <2>1, <2>2
  <1>13. ASSUME NEW d \in Conn PROVE HandedOnce(d)'
    <2> SUFFICES ASSUME NEW m \in DOMAIN toExt'[d], NEW n \in DOMAIN toExt'[d],
                        toExt'[d][m].type = "request", toExt'[d][n] = toExt'[d][m]
                 PROVE  m = n
      BY DEF HandedOnce
    <2> DEFINE old(k) == k \in DOMAIN toExt[d] /\ toExt'[d][k] = toExt[d][k]
    <2>1. CASE old(m) /\ old(n)
      BY <2>1 DEF HandedOnce
    <2>2. CASE old(m) # old(n)
      <3>1. ASSUME NEW k \in DOMAIN toExt'[d], NEW l \in DOMAIN toExt'[d], old(k), ~old(l),
                   toExt'[d][k] = toExt'[d][l], toExt'[d][k].type = "request"
            PROVE  FALSE
        <4>1. toExt'[d][k].id \notin Connecting
          BY <1>10, <3>1
        <4>2. toExt'[d][l].id \in Connecting
          BY <1>2, <1>11, <3>1
        <4> QED BY <3>1, <4>1, <4>2
      <3> QED BY <2>2, <3>1
    <2>3. CASE ~old(m) /\ ~old(n)
      <3>1. /\ d = c /\ m - Len(toExt[c]) \in DOMAIN waiting /\ n - Len(toExt[c]) \in DOMAIN waiting
            /\ waiting[m - Len(toExt[c])] = waiting[n - Len(toExt[c])]
            /\ m = Len(toExt[c]) + (m - Len(toExt[c])) /\ n = Len(toExt[c]) + (n - Len(toExt[c]))
        BY <1>11, <2>3
      <3>2. m - Len(toExt[c]) = n - Len(toExt[c])
        BY <3>1 DEF WaitersAwaitReadiness
      <3> QED BY <3>1, <3>2
    <2> QED BY <2>1, <2>2, <2>3
  <1>14. ASSUME NEW d \in Conn PROVE Answered(d)'
    <2>1. ResponsesKept(d)
      BY <1>7, ResponseFrames DEF Taken, LinkTypeOK
    <2> QED BY <1>7, <2>1 DEF Answered, ResponsesKept
  <1>15. ASSUME NEW r \in Cmd PROVE StartedOnce(r)'
    <2>1. command'[r] \in {"idle", "connecting"} => command[r] = command'[r]
      BY <1>5, <1>6
    <2> QED BY <1>7, <2>1 DEF StartedOnce
  <1>16. ASSUME NEW e \in executing' PROVE Executed(e)'
    BY <1>7 DEF Executed
  <1> QED BY <1>12, <1>13, <1>14, <1>15, <1>16

(* sendRequest on a ready registration writes the command's only request. *)
LEMMA IssueCommands ==
  ASSUME IInv, CommandInv, NEW q \in Cmd, Issue(q), LinkTypeOK'
  PROVE  CommandInv'
  <1> USE DEF IInv, TypeOK, CommandInv
  <1> DEFINE s == <<Request(q)>>
  <1>1. /\ executions' = executions /\ executing' = executing /\ ready' = ready
        /\ toBroker' = toBroker /\ command[q] = "idle"
        /\ \A r \in Cmd : r # q => command'[r] = command[r] /\ commandConn'[r] = commandConn[r]
    BY DEF Issue, WrapperTypeOK
  <1>2. \A d \in Conn : ResponsesKept(d)
    BY <1>1, ResponseFrames
  <1>3. CASE UNCHANGED <<toExt, commandConn>> /\ command'[q] \in {"connecting", "failed"}
    <2>1. \A d \in Conn : \A n \in DOMAIN toExt[d] : toExt[d][n].type = "request" => toExt[d][n].id # q
      BY <1>1 DEF Handed
    <2>2. \A d \in Conn : \A n \in DOMAIN toExt[d] : toExt[d][n].type = "request" => toExt[d][n].id \in Cmd
      BY Frames DEF LinkTypeOK
    <2>3. ASSUME NEW d \in Conn PROVE Handed(d)' /\ HandedOnce(d)' /\ Answered(d)'
      BY <1>1, <1>3, <2>1, <2>2 DEF Handed, HandedOnce, Answered
    <2> QED BY <1>1, <1>3, <2>3 DEF StartedOnce, Executed
  <1>4. CASE /\ registration \in ready /\ command' = [command EXCEPT ![q] = "sent"]
             /\ commandConn' = [commandConn EXCEPT ![q] = registration]
             /\ toExt' = [toExt EXCEPT ![registration] = WrittenToExt(registration, s)]
    <2>1. registration \in Conn /\ Request(q) \in Frame /\ s \in Seq(Frame)
      BY <1>4, Frames DEF BrokerTypeOK
    <2> HIDE DEF s
    <2>2. /\ command'[q] = "sent" /\ commandConn'[q] = registration
          /\ \A d \in Conn : d # registration => toExt'[d] = toExt[d]
          /\ toExt'[registration] \in {toExt[registration], toExt[registration] \o s}
      BY <1>4, <2>1 DEF WrapperTypeOK, LinkTypeOK, WrittenToExt
    <2>3. \A d \in Conn : \A n \in DOMAIN toExt[d] : toExt[d][n].type = "request" =>
             toExt[d][n].id \in Cmd \ {q}
      BY <1>1, FramesInTransit DEF Handed
    <2>4. ASSUME NEW d \in Conn, NEW n \in DOMAIN toExt'[d]
          PROVE  \/ n \in DOMAIN toExt[d] /\ toExt'[d][n] = toExt[d][n]
                 \/ /\ d = registration /\ n = Len(toExt[d]) + 1
                    /\ toExt'[d][n] = Request(q)
      <3>1. toExt[d] \in Seq(Frame)
        BY DEF LinkTypeOK
      <3>2. CASE toExt'[d] = toExt[d]
        BY <3>2
      <3>3. CASE d = registration /\ toExt'[d] = toExt[d] \o s
        BY <2>1, <3>1, <3>3, OneMore DEF s
      <3> QED BY <2>2, <3>2, <3>3
    <2>5. ASSUME NEW d \in Conn PROVE Handed(d)'
      <3> SUFFICES ASSUME NEW n \in DOMAIN toExt'[d], toExt'[d][n].type = "request",
                          NEW r, r = toExt'[d][n].id
                   PROVE  /\ executions'[r] = 0 /\ command'[r] \in {"sent", "failed"}
                          /\ commandConn'[r] = d /\ d \in ready'
        BY DEF Handed
      <3>1. CASE n \in DOMAIN toExt[d] /\ toExt'[d][n] = toExt[d][n]
        <4>1. r \in Cmd \ {q}
          BY <2>3, <3>1
        <4>2. executions[r] = 0 /\ command[r] \in {"sent", "failed"} /\ commandConn[r] = d /\ d \in ready
          BY <3>1 DEF Handed
        <4> QED BY <1>1, <4>1, <4>2
      <3>2. CASE d = registration /\ toExt'[d][n] = Request(q)
        BY <1>1, <1>4, <2>2, <3>2 DEF Request, StartedOnce
      <3> QED BY <2>4, <3>1, <3>2
    <2>6. ASSUME NEW d \in Conn PROVE HandedOnce(d)'
      <3> SUFFICES ASSUME NEW m \in DOMAIN toExt'[d], NEW n \in DOMAIN toExt'[d],
                          toExt'[d][m].type = "request", toExt'[d][n] = toExt'[d][m]
                   PROVE  m = n
        BY DEF HandedOnce
      <3> DEFINE old(k) == k \in DOMAIN toExt[d] /\ toExt'[d][k] = toExt[d][k]
      <3>1. CASE old(m) /\ old(n)
        BY <3>1 DEF HandedOnce
      <3>2. \A k \in DOMAIN toExt'[d] : toExt'[d][k].type = "request" =>
               (old(k) <=> toExt'[d][k].id # q)
        BY <2>3, <2>4 DEF Request
      <3>3. CASE ~old(m) /\ ~old(n)
        BY <2>4, <3>3
      <3> QED BY <3>1, <3>2, <3>3
    <2>7. ASSUME NEW d \in Conn PROVE Answered(d)'
      BY <1>1 DEF Answered
    <2> QED BY <1>1, <2>2, <2>5, <2>6, <2>7 DEF StartedOnce, Executed
  <1>5. \/ UNCHANGED <<toExt, commandConn>> /\ command'[q] \in {"connecting", "failed"}
        \/ /\ registration \in ready /\ command' = [command EXCEPT ![q] = "sent"]
           /\ commandConn' = [commandConn EXCEPT ![q] = registration]
           /\ toExt' = [toExt EXCEPT ![registration] = WrittenToExt(registration, s)]
    BY DEF Issue, WrapperTypeOK
  <1> QED BY <1>3, <1>4, <1>5

-----------------------------------------------------------------------------
(* The steps that start a command and hand back its response.              *)

(* The request that is read was the only one, and had not been started. *)
LEMMA ExtRequestCommands ==
  ASSUME IInv, CommandInv, NEW i \in Instance, ExtRequest(i), LinkTypeOK'
  PROVE  CommandInv'
  <1> USE DEF IInv, TypeOK, CommandInv
  <1> DEFINE c == socket[i]
             q == Head(toExt[c]).id
  <1>1. c \in Conn /\ toExt[c] # <<>> /\ toExt[c] \in Seq(Frame) /\ Head(toExt[c]).type = "request"
    BY DEF ExtRequest, Receives, ExtensionTypeOK, LinkTypeOK
  <1>2. 1 \in DOMAIN toExt[c] /\ Head(toExt[c]) = toExt[c][1]
    BY <1>1
  <1>3. q \in Cmd /\ executions[q] = 0 /\ command[q] \in {"sent", "failed"} /\ c \in ready
        /\ commandConn[q] = c
    BY <1>1, <1>2, FramesInTransit DEF Handed
  <1>4. /\ UNCHANGED <<command, commandConn, ready, toBroker>>
        /\ executing' = executing \cup {<<q, c>>}
        /\ executions'[q] = 1 /\ \A r \in Cmd : r # q => executions'[r] = executions[r]
    BY <1>3 DEF ExtRequest, WrapperTypeOK, brokerVars
  <1>5. \A d \in Conn : d # c => toExt'[d] = toExt[d]
    BY DEF ExtRequest, LinkTypeOK
  <1>6. \A n \in DOMAIN toExt'[c] : n + 1 \in DOMAIN toExt[c] /\ n + 1 # 1 /\ toExt'[c][n] = toExt[c][n + 1]
    BY <1>1 DEF ExtRequest, LinkTypeOK
  <1> HIDE DEF c, q
  <1>7. ASSUME NEW d \in Conn, NEW n \in DOMAIN toExt'[d], toExt'[d][n].type = "request"
        PROVE  /\ toExt'[d][n].id \in Cmd /\ toExt'[d][n].id # q
               /\ \E m \in DOMAIN toExt[d] : toExt'[d][n] = toExt[d][m]
    <2>1. CASE d = c
      <3>1. n + 1 \in DOMAIN toExt[c] /\ n + 1 # 1 /\ toExt'[c][n] = toExt[c][n + 1]
        BY <1>6, <2>1
      <3>2. toExt[c][n + 1].id = q => toExt[c][n + 1] = toExt[c][1]
        <4>1. toExt[c][n + 1] \in Frame /\ toExt[c][1] \in Frame /\ toExt[c][n + 1].type = "request"
              /\ toExt[c][1].type = "request" /\ toExt[c][1].id = q
          BY <1>1, <1>2, <1>7, <2>1, <3>1, FramesInTransit DEF q
        <4>2. \A f, g \in Frame : f.type = "request" /\ g.type = "request" /\ f.id = g.id => f = g
          BY DEF Frame
        <4> QED BY <4>1, <4>2
      <3>3. toExt[c][n + 1].id # q
        BY <1>1, <1>2, <3>1, <3>2 DEF HandedOnce
      <3> QED BY <1>7, <2>1, <3>1, <3>3, <1>1, FramesInTransit
    <2>2. CASE d # c
      <3>1. toExt'[d] = toExt[d]
        BY <1>5, <2>2
      <3>2. toExt[d][n].id \in Cmd /\ commandConn[toExt[d][n].id] = d
        BY <1>7, <3>1, FramesInTransit DEF Handed
      <3> QED BY <1>3, <2>2, <3>1, <3>2
    <2> QED BY <2>1, <2>2
  <1>8. ASSUME NEW d \in Conn PROVE Handed(d)'
    <2> SUFFICES ASSUME NEW n \in DOMAIN toExt'[d], toExt'[d][n].type = "request",
                        NEW r, r = toExt'[d][n].id
                 PROVE  /\ executions'[r] = 0 /\ command'[r] \in {"sent", "failed"}
                        /\ commandConn'[r] = d /\ d \in ready'
      BY DEF Handed
    <2>1. r \in Cmd /\ r # q
      BY <1>7
    <2>2. executions[r] = 0 /\ command[r] \in {"sent", "failed"} /\ commandConn[r] = d /\ d \in ready
      BY <1>7 DEF Handed
    <2> QED BY <1>4, <2>1, <2>2
  <1>9. ASSUME NEW d \in Conn PROVE HandedOnce(d)'
    <2> SUFFICES ASSUME NEW m \in DOMAIN toExt'[d], NEW n \in DOMAIN toExt'[d],
                        toExt'[d][m].type = "request", toExt'[d][n] = toExt'[d][m]
                 PROVE  m = n
      BY DEF HandedOnce
    <2>1. CASE d = c
      <3>1. m \in Nat /\ n \in Nat
        BY <1>1, <2>1 DEF LinkTypeOK
      <3>2. m + 1 = n + 1
        BY <1>1, <1>6, <2>1 DEF HandedOnce
      <3> QED BY <3>1, <3>2
    <2>2. CASE d # c
      BY <1>5, <2>2 DEF HandedOnce
    <2> QED BY <2>1, <2>2
  <1>10. \A r \in Cmd : executions[r] = 1 => executions'[r] = 1
    BY <1>3, <1>4
  <1>11. ASSUME NEW d \in Conn PROVE Answered(d)'
    BY <1>4, <1>10, FramesInTransit DEF Answered
  <1>12. ASSUME NEW r \in Cmd PROVE StartedOnce(r)'
    BY <1>3, <1>4 DEF StartedOnce
  <1>13. ASSUME NEW e \in executing' PROVE Executed(e)'
    BY <1>3, <1>4, <1>10 DEF Executed, WrapperTypeOK
  <1> QED BY <1>8, <1>9, <1>11, <1>12, <1>13

(* A response is written for an execution. *)
LEMMA ExtRespondsCommands ==
  ASSUME IInv, CommandInv, NEW r \in Cmd, NEW c \in Conn, NEW ok \in BOOLEAN,
         ExtResponds(r, c, ok), LinkTypeOK'
  PROVE  CommandInv'
  <1> USE DEF IInv, TypeOK, CommandInv
  <1> DEFINE s == <<[type |-> "response", id |-> r, ok |-> ok]>>
  <1>1. /\ UNCHANGED <<executions, command, commandConn, ready, toExt>>
        /\ executing' \subseteq executing /\ executions[r] = 1
    BY DEF ExtResponds, Executed, brokerVars
  <1>2. s \in Seq(Frame) /\ Len(s) = 1 /\ s[1].id = r
    BY Frames
  <1>3. \A d \in Conn : d # c => toBroker'[d] = toBroker[d]
    BY DEF ExtResponds, LinkTypeOK
  <1>4. toBroker'[c] \in {toBroker[c], toBroker[c] \o s}
    BY DEF ExtResponds, LinkTypeOK, WrittenToBroker
  <1> HIDE DEF s
  <1>5. ASSUME NEW d \in Conn PROVE Answered(d)'
    <2> SUFFICES ASSUME NEW n \in DOMAIN toBroker'[d], toBroker'[d][n].type = "response"
                 PROVE  executions[toBroker'[d][n].id] = 1
      BY <1>1 DEF Answered
    <2>0. toBroker[d] \in Seq(Frame)
      BY DEF LinkTypeOK
    <2>1. CASE toBroker'[d] = toBroker[d]
      BY <2>1 DEF Answered
    <2>2. CASE d = c /\ toBroker'[d] = toBroker[d] \o s
      <3>1. CASE n \in DOMAIN toBroker[d]
        <4>1. toBroker'[d][n] = toBroker[d][n]
          BY <1>2, <2>0, <2>2, <3>1
        <4> QED BY <3>1, <4>1 DEF Answered
      <3>2. CASE n \notin DOMAIN toBroker[d]
        <4> DEFINE e == [type |-> "response", id |-> r, ok |-> ok]
        <4>0. e \in Frame /\ toBroker'[d] = toBroker[d] \o <<e>>
          BY <2>2, Frames DEF s
        <4> HIDE DEF e
        <4>1. n = Len(toBroker[d]) + 1
          BY <2>0, <3>2, <4>0, OneMore
        <4>2. toBroker'[d][n] = s[1]
          BY <1>2, <2>0, <2>2, <4>1
        <4> QED BY <1>1, <1>2, <4>2
      <3> QED BY <3>1, <3>2
    <2> QED BY <1>3, <1>4, <2>1, <2>2
  <1>6. ASSUME NEW d \in Conn PROVE Handed(d)' /\ HandedOnce(d)'
    BY <1>1 DEF Handed, HandedOnce
  <1> QED BY <1>1, <1>5, <1>6 DEF StartedOnce, Executed

(* What is answered has been started, so no request of it is in flight. *)
LEMMA BrokerResponseCommands ==
  ASSUME IInv, CommandInv, NEW c \in Conn, BrokerResponse(c), LinkTypeOK'
  PROVE  /\ CommandInv'
         /\ \A r \in Cmd : command'[r] # command[r] =>
               command[r] = "sent" /\ command'[r] \in {"ok", "failed"} /\ executions[r] = 1
         /\ \A r, q \in Cmd : command'[r] # command[r] /\ command'[q] # command[q] => r = q
  <1> USE DEF IInv, TypeOK, CommandInv
  <1>0. toBroker[c] \in Seq(Frame) /\ toBroker[c] # <<>> /\ Head(toBroker[c]).type = "response"
    BY DEF BrokerResponse, Takes, LinkTypeOK
  <1> DEFINE q == Head(toBroker[c]).id
  <1>1. 1 \in DOMAIN toBroker[c] /\ Head(toBroker[c]) = toBroker[c][1]
    BY <1>0
  <1>2. q \in Cmd /\ executions[q] = 1
    BY <1>0, <1>1, FramesInTransit DEF Answered
  <1>3. /\ UNCHANGED <<executions, executing, commandConn, ready, toExt>> /\ toBroker' = Taken(c)
        /\ \A r \in Cmd : command'[r] # command[r] =>
              r = q /\ command[r] = "sent" /\ command'[r] \in {"ok", "failed"}
    BY DEF BrokerResponse, Settles, Pending, WrapperTypeOK, brokerVars
  <1>4. \A d \in Conn : ResponsesKept(d)
    BY <1>0, <1>3, ResponseFrames DEF Taken, LinkTypeOK
  <1> HIDE DEF q
  <1>5. ASSUME NEW d \in Conn PROVE Answered(d)'
    BY <1>3, <1>4 DEF Answered, ResponsesKept
  <1>6. ASSUME NEW d \in Conn PROVE Handed(d)' /\ HandedOnce(d)'
    <2>1. \A n \in DOMAIN toExt[d] : toExt[d][n].type = "request" =>
             toExt[d][n].id \in Cmd /\ toExt[d][n].id # q
      BY <1>2, FramesInTransit DEF Handed
    <2> QED BY <1>3, <2>1 DEF Handed, HandedOnce
  <1>7. ASSUME NEW r \in Cmd PROVE StartedOnce(r)'
    BY <1>3 DEF StartedOnce
  <1> QED BY <1>2, <1>3, <1>5, <1>6, <1>7 DEF Executed

LEMMA CommandsInvariant == IInv /\ CommandInv /\ [Next]_vars => CommandInv'
  <1> SUFFICES ASSUME IInv, CommandInv, [Next]_vars PROVE CommandInv'
    OBVIOUS
  <1>1. LinkTypeOK'
    BY Invariance DEF IInv, TypeOK
  <1> QED
    BY <1>1, OtherStepsKeep, MarkReadyCommands, IssueCommands, ExtRequestCommands,
       ExtRespondsCommands, BrokerResponseCommands
    DEF Next, StandDown, InstanceDies

LEMMA CommandsInitially == Init => CommandInv
  BY DEF Init, CommandInv, Handed, HandedOnce, Answered, StartedOnce, Executed

LEMMA CommandsHold == Spec => [](IInv /\ CommandInv)
  BY InitialInvariant, Invariance, CommandsInitially, CommandsInvariant, PTL DEF Spec

-----------------------------------------------------------------------------
(* The refinement of CommandChannel, step by step.                         *)

(* What the caller of a command has been told. *)
Told(r) == IF command[r] = "idle" THEN "none"
           ELSE IF command[r] \in {"connecting", "sent"} THEN "pending"
           ELSE command[r]

LEMMA ChannelInitially == Init => Channel!Init
  BY DEF Init, Channel!Init

(* Steps that tell no caller anything and start nothing. *)
LEMMA Stutters ==
  ASSUME WrapperTypeOK, UNCHANGED executions, \A r \in Cmd : Told(r)' = Told(r)
  PROVE  UNCHANGED Channel!channel
  BY DEF Told, Channel!channel

(* Steps that fail some of the callers who wait, and start nothing. *)
LEMMA FailureIsAStep ==
  ASSUME NEW rs \in SUBSET Cmd, Channel!Fail(rs)
  PROVE  Channel!Next
  BY DEF Channel!Next

LEMMA FailsSome ==
  ASSUME TypeOK, WrapperTypeOK', UNCHANGED executions,
         \A r \in Cmd : command'[r] = command[r] \/
                         (command[r] \in {"idle", "connecting", "sent"} /\ command'[r] = "failed")
  PROVE  Channel!Next
  <1> USE DEF TypeOK, WrapperTypeOK
  <1>1. PICK rs \in SUBSET Cmd : rs = {r \in Cmd : command'[r] # command[r]}
    OBVIOUS
  <1>2. \A r \in rs : Told(r) \in {"none", "pending"} /\ Told(r)' = "failed"
    BY <1>1 DEF Told
  <1>3. \A r \in Cmd \ rs : Told(r)' = Told(r)
    BY <1>1 DEF Told
  <1>4. [r \in Cmd |-> Told(r)]' = [r \in Cmd |-> IF r \in rs THEN "failed" ELSE Told(r)]
    BY <1>2, <1>3
  <1>5. Channel!Fail(rs)
    BY <1>1, <1>2, <1>4 DEF Channel!Fail, Told
  <1> QED BY <1>1, <1>5, FailureIsAStep

(* Steps that leave the commands and their executions alone. *)
LEMMA Silent ==
  ASSUME WrapperTypeOK, UNCHANGED <<command, executions>>
  PROVE  UNCHANGED Channel!channel
  <1>1. \A r \in Cmd : Told(r)' = Told(r)
    BY DEF Told
  <1> QED BY <1>1, Stutters

(* A command is issued: its caller waits, or is refused at once. *)
LEMMA IssueSubmits ==
  ASSUME IInv, IInv', NEW r \in Cmd, Issue(r)
  PROVE  Channel!Next
  <1> USE DEF IInv, TypeOK, WrapperTypeOK
  <1>1. CASE command'[r] = "failed"
    <2>1. UNCHANGED executions /\ \A q \in Cmd : q # r => command'[q] = command[q]
      BY DEF Issue
    <2> QED BY <1>1, <2>1, FailsSome DEF Issue
  <1>2. CASE command'[r] \in {"sent", "connecting"}
    <2>1. UNCHANGED executions /\ \A q \in Cmd : q # r => Told(q)' = Told(q)
      BY DEF Issue, Told
    <2>2. Told(r) = "none" /\ Told(r)' = "pending"
      BY <1>2 DEF Issue, Told
    <2>3. [q \in Cmd |-> Told(q)]' = [[q \in Cmd |-> Told(q)] EXCEPT ![r] = "pending"]
      BY <2>1, <2>2
    <2>4. Channel!Submit(r)
      BY <2>1, <2>2, <2>3 DEF Channel!Submit, Told
    <2> QED BY <2>4 DEF Channel!Next
  <1>3. command'[r] \in {"failed", "sent", "connecting"}
    BY DEF Issue
  <1> QED BY <1>1, <1>2, <1>3

(* A request is read: its command starts, for the first time. *)
LEMMA ExtRequestStarts ==
  ASSUME IInv, CommandInv, NEW i \in Instance, ExtRequest(i)
  PROVE  Channel!Next
  <1> USE DEF IInv, TypeOK, WrapperTypeOK
  <1> DEFINE c == socket[i]
             r == Head(toExt[c]).id
  <1>1. c \in Conn /\ toExt[c] \in Seq(Frame) /\ toExt[c] # <<>> /\ Head(toExt[c]).type = "request"
    BY DEF ExtRequest, Receives, ExtensionTypeOK, LinkTypeOK
  <1>2. 1 \in DOMAIN toExt[c] /\ Head(toExt[c]) = toExt[c][1]
    BY <1>1
  <1>3. r \in Cmd /\ executions[r] = 0 /\ command[r] \in {"sent", "failed"}
    BY <1>1, <1>2, FramesInTransit DEF CommandInv, Handed
  <1>4. executions' = [executions EXCEPT ![r] = 1] /\ UNCHANGED command
    BY <1>3 DEF ExtRequest
  <1> HIDE DEF r
  <1>5. Told(r) \in {"pending", "failed"} /\ [q \in Cmd |-> Told(q)]' = [q \in Cmd |-> Told(q)]
    BY <1>3, <1>4 DEF Told
  <1>6. Channel!Start(r)
    BY <1>3, <1>4, <1>5 DEF Channel!Start, Told
  <1> QED BY <1>3, <1>6 DEF Channel!Next

(* A response settles its command, which was started, or nothing. *)
LEMMA ResponseSettles ==
  ASSUME IInv, IInv', CommandInv, NEW c \in Conn, BrokerResponse(c)
  PROVE  Channel!Next \/ UNCHANGED Channel!channel
  <1> USE DEF IInv, TypeOK, WrapperTypeOK
  <1>1. \A r \in Cmd : command'[r] # command[r] =>
           command[r] = "sent" /\ command'[r] \in {"ok", "failed"} /\ executions[r] = 1
    BY BrokerResponseCommands
  <1>2. UNCHANGED executions
    BY DEF BrokerResponse
  <1>3. CASE \A r \in Cmd : command'[r] # "ok" \/ command'[r] = command[r]
    BY <1>1, <1>2, <1>3, FailsSome
  <1>4. ASSUME NEW r \in Cmd, command'[r] = "ok", command'[r] # command[r]
        PROVE  Channel!Next
    <2>1. \A q \in Cmd : q # r => command'[q] = command[q]
      BY <1>4, BrokerResponseCommands
    <2>2. Told(r) = "pending" /\ Told(r)' = "ok" /\ executions[r] = 1
      BY <1>1, <1>4 DEF Told
    <2>3. [q \in Cmd |-> Told(q)]' = [[q \in Cmd |-> Told(q)] EXCEPT ![r] = "ok"]
      BY <2>1, <2>2 DEF Told
    <2>4. Channel!Succeed(r)
      BY <1>2, <2>2, <2>3 DEF Channel!Succeed, Told
    <2> QED BY <2>4 DEF Channel!Next
  <1> QED BY <1>3, <1>4

(* markReady sends what waited: its callers are told nothing yet. *)
LEMMA MarkReadyIsSilent ==
  ASSUME IInv, NEW c \in Conn, MarkReady(c)
  PROVE  UNCHANGED Channel!channel
  <1> USE DEF IInv, TypeOK, WrapperTypeOK
  <1>1. \A r \in Cmd : Told(r)' = Told(r)
    BY DEF MarkReady, Connecting, Told
  <1> QED BY <1>1, Stutters DEF MarkReady

(* Every step of the bridge is a step of the channel, or none. *)
LEMMA ChannelStep ==
  IInv /\ IInv' /\ CommandInv /\ [Next]_vars => [Channel!Next]_(Channel!channel)
  <1> SUFFICES ASSUME IInv, IInv', CommandInv, [Next]_vars
               PROVE  Channel!Next \/ UNCHANGED Channel!channel
    OBVIOUS
  <1> USE DEF IInv, TypeOK, brokerVars, linkVars, extVars, socketState, streamVars, procVars, commandVars
  <1>1. ASSUME NEW i \in Instance,
               \/ Fork(i) \/ Join(i) \/ ConnectRefused(i) \/ Shutdown(i) \/ ExtRegistered(i)
               \/ ExtSeesClose(i) \/ EmitEvent(i) \/ \E c \in Conn : Connect(i, c)
        PROVE  UNCHANGED Channel!channel
    BY <1>1, Silent DEF Fork, Join, ConnectRefused, Shutdown, ExtRegistered, ExtSeesClose,
                        EmitEvent, Connect
  <1>2. ASSUME NEW c \in Conn,
               \/ RegisterRefused(c) \/ BrokerEvent(c) \/ BrokerRejectsFrame(c)
               \/ SupersededTimeout(c) \/ LinkFails(c)
               \/ \E r \in Cmd, ok \in BOOLEAN : ExtResponds(r, c, ok)
        PROVE  UNCHANGED Channel!channel
    BY <1>2, Silent DEF RegisterRefused, BrokerEvent, BrokerRejectsFrame, SupersededTimeout,
                        LinkFails, ExtResponds
  <1>3. ASSUME NEW c \in Conn, Register(c) \/ BrokerSeesClose(c) PROVE Channel!Next
    <2>1. UNCHANGED executions
      BY <1>3 DEF Register, BrokerSeesClose
    <2>2. \A r \in Cmd : command'[r] = command[r] \/ (command[r] = "sent" /\ command'[r] = "failed")
      BY <1>3 DEF Register, BrokerSeesClose, Failed, Pending, WrapperTypeOK
    <2> QED BY <2>1, <2>2, FailsSome
  <1>4. ASSUME NEW r \in Cmd, ConnectTimeout(r) \/ RequestTimeout(r) PROVE Channel!Next
    <2>1. UNCHANGED executions
      BY <1>4 DEF ConnectTimeout, RequestTimeout
    <2>2. \A q \in Cmd : command'[q] = command[q] \/
                          (command[q] \in {"connecting", "sent"} /\ command'[q] = "failed")
      BY <1>4 DEF ConnectTimeout, RequestTimeout, WrapperTypeOK
    <2> QED BY <2>1, <2>2, FailsSome
  <1>5. ASSUME Release \/ CloseBroker PROVE Channel!Next
    <2>1. UNCHANGED executions
      BY <1>5 DEF Release, CloseBroker, Revoked
    <2>2. \A q \in Cmd : command'[q] = command[q] \/
                          (command[q] \in {"connecting", "sent"} /\ command'[q] = "failed")
      BY <1>5 DEF Release, CloseBroker, Revoked, Failed, Outstanding, Pending, Connecting, WrapperTypeOK
    <2> QED BY <2>1, <2>2, FailsSome
  <1>6. ASSUME Subscribe \/ UNCHANGED vars PROVE UNCHANGED Channel!channel
    BY <1>6, Silent DEF Subscribe, vars
  <1> QED
    BY <1>1, <1>2, <1>3, <1>4, <1>5, <1>6, IssueSubmits, ExtRequestStarts, ResponseSettles,
       MarkReadyIsSilent
    DEF Next, StandDown, InstanceDies

(* What the callers of submitPrompt, submitAnswer and runControl are told  *)
(* is what CommandChannel promises: one outcome, of a command that was     *)
(* started at most once, and success only of one that was started, however *)
(* registrations replace one another, time-outs, links and kills fail.     *)
THEOREM PromiseKept == Spec => CommandsKeepTheirPromise
  <1>1. Spec => [](IInv /\ CommandInv)
    BY CommandsHold
  <1>2. Init => Channel!Init
    BY ChannelInitially
  <1>3. Spec => Channel!Init /\ [][Channel!Next]_(Channel!channel)
    BY <1>1, <1>2, ChannelStep, PTL DEF Spec
  <1> QED BY <1>3 DEF CommandsKeepTheirPromise, Channel!Spec

-----------------------------------------------------------------------------
(* Who is told to stand down.                                              *)

(* An instance holds the one socket whose end it has open, and the broker  *)
(* reads from a socket its instance let go of only if the instance is gone.*)
OneOpenSocket(c) ==
    /\ extEnd[c] = "open" => socket[owner[c]] = c
    /\ brokerEnd[c] = "open" /\ extEnd[c] # "open" => phase[owner[c]] = "gone"

SocketOpen(i) == socket[i] # NoConn => extEnd[socket[i]] = "open"

(* A register frame is in transit only while the broker's end is open. *)
RegisterOpen(c) ==
    \A n \in DOMAIN toBroker[c] : toBroker[c][n].type = "register" => brokerEnd[c] = "open"

(* Another instance registered after the one that is told so. *)
Superseded(c) ==
    generation[c] # 0 /\ \E d \in Conn : generation[d] > generation[c] /\ owner[d] # owner[c]

Retired(c) ==
    \A n \in DOMAIN toExt[c] : toExt[c][n].type = "replaced" => Superseded(c)

RetireInv ==
    /\ \A i \in Instance : SocketOpen(i)
    /\ \A c \in Conn : OneOpenSocket(c) /\ RegisterOpen(c) /\ Retired(c)

LEMMA OneOpenSocketStep ==
  ASSUME TypeOK, LinkInv, RetireInv, Next, NEW d \in Conn
  PROVE  OneOpenSocket(d)'
  <1> USE DEF brokerVars, linkVars, extVars, socketState, streamVars, procVars, commandVars,
              TypeOK, LinkTypeOK, BrokerTypeOK, ExtensionTypeOK
  <1>0. /\ OneOpenSocket(d) /\ Unopened(d)
        /\ \A i \in Instance : OwnSocket(i) /\ SocketOpen(i)
        /\ 0 \notin Instance /\ NoConn \notin Conn
    BY DEF LinkInv, RetireInv, Instance, Conn, NoConn
  <1>1. ASSUME NEW i \in Instance, Shutdown(i)
        PROVE  OneOpenSocket(d)'
    <2>1. /\ socket' = [socket EXCEPT ![i] = NoConn] /\ phase' = [phase EXCEPT ![i] = "gone"]
          /\ extEnd'[d] = IF d = socket[i] THEN "closed" ELSE extEnd[d]
          /\ owner' = owner /\ brokerEnd' = brokerEnd
      BY <1>1 DEF Shutdown
    <2> QED BY <1>0, <2>1 DEF OneOpenSocket, Unopened, OwnSocket
  <1>2. ASSUME NEW i \in Instance, ExtSeesClose(i)
        PROVE  OneOpenSocket(d)'
    BY <1>0, <1>2 DEF ExtSeesClose, ScheduleReconnect, OneOpenSocket, Unopened, OwnSocket
  <1>3. ASSUME NEW i \in Instance, Fork(i) \/ Join(i) \/ ConnectRefused(i)
        PROVE  OneOpenSocket(d)'
    BY <1>0, <1>3 DEF Fork, Join, ConnectRefused, ScheduleReconnect, OneOpenSocket, Unopened, OwnSocket
  <1>4. ASSUME NEW i \in Instance, ExtRegistered(i) \/ EmitEvent(i) \/ ExtRequest(i)
        PROVE  OneOpenSocket(d)'
    BY <1>0, <1>4 DEF ExtRegistered, EmitEvent, ExtRequest, OneOpenSocket
  <1>5. ASSUME NEW i \in Instance, NEW c \in Conn, Connect(i, c)
        PROVE  OneOpenSocket(d)'
    <2>1. /\ socket' = [socket EXCEPT ![i] = c] /\ phase' = [phase EXCEPT ![i] = "attached"]
          /\ owner' = [owner EXCEPT ![c] = i] /\ extEnd' = [extEnd EXCEPT ![c] = "open"]
          /\ brokerEnd' = [brokerEnd EXCEPT ![c] = "open"] /\ phase[i] = "dialing"
      BY <1>5 DEF Connect
    <2>2. socket[i] = NoConn
      BY <1>0, <2>1 DEF OwnSocket
    <2>3. CASE d = c
      BY <2>1, <2>3 DEF OneOpenSocket
    <2>4. CASE d # c
      <3>1. owner'[d] = owner[d] /\ extEnd'[d] = extEnd[d] /\ brokerEnd'[d] = brokerEnd[d]
        BY <2>1, <2>4
      <3>2. CASE owner[d] = 0
        BY <1>0, <3>1, <3>2 DEF OneOpenSocket, Unopened
      <3>3. CASE owner[d] \in Instance
        BY <1>0, <2>1, <2>2, <3>1, <3>3 DEF OneOpenSocket
      <3> QED BY <3>2, <3>3
    <2> QED BY <2>3, <2>4
  <1>6. ASSUME NEW c \in Conn,
               RegisterRefused(c) \/ Register(c) \/ MarkReady(c) \/ BrokerEvent(c)
                 \/ BrokerResponse(c) \/ BrokerRejectsFrame(c)
                 \/ SupersededTimeout(c) \/ BrokerSeesClose(c) \/ LinkFails(c)
        PROVE  OneOpenSocket(d)'
    <2>1. UNCHANGED <<owner, extEnd, socket, phase>> /\ (brokerEnd'[d] = "open" => brokerEnd[d] = "open")
      BY <1>6 DEF RegisterRefused, Register, MarkReady, BrokerEvent, BrokerResponse,
                  BrokerRejectsFrame, SupersededTimeout, BrokerSeesClose, LinkFails
    <2> QED BY <1>0, <2>1 DEF OneOpenSocket
  <1>7. ASSUME NEW c \in Conn, NEW r \in Cmd, NEW ok \in BOOLEAN, ExtResponds(r, c, ok)
        PROVE  OneOpenSocket(d)'
    BY <1>0, <1>7 DEF ExtResponds, OneOpenSocket
  <1>8. ASSUME NEW r \in Cmd, Issue(r) \/ ConnectTimeout(r) \/ RequestTimeout(r)
        PROVE  OneOpenSocket(d)'
    BY <1>0, <1>8 DEF Issue, ConnectTimeout, RequestTimeout, OneOpenSocket
  <1>9. ASSUME Subscribe \/ Release \/ CloseBroker
        PROVE  OneOpenSocket(d)'
    BY <1>0, <1>9 DEF Subscribe, Release, CloseBroker, Revoked, OneOpenSocket
  <1> QED
    BY <1>1, <1>2, <1>3, <1>4, <1>5, <1>6, <1>7, <1>8, <1>9
    DEF Next, StandDown, InstanceDies

LEMMA SocketOpenStep ==
  ASSUME TypeOK, LinkInv, RetireInv, Next, NEW j \in Instance
  PROVE  SocketOpen(j)'
  <1> USE DEF brokerVars, linkVars, extVars, socketState, streamVars, procVars, commandVars,
              TypeOK, LinkTypeOK, ExtensionTypeOK, SocketOpen
  <1>0. /\ \A i \in Instance : OwnSocket(i) /\ SocketOpen(i)
        /\ NoConn \notin Conn
    BY DEF LinkInv, RetireInv, Conn, NoConn
  <1>1. ASSUME NEW i \in Instance, Shutdown(i)
        PROVE  SocketOpen(j)'
    <2>1. /\ socket' = [socket EXCEPT ![i] = NoConn]
          /\ \A d \in Conn : extEnd'[d] = IF d = socket[i] THEN "closed" ELSE extEnd[d]
      BY <1>1 DEF Shutdown
    <2> QED BY <1>0, <2>1 DEF OwnSocket
  <1>2. ASSUME NEW i \in Instance, ExtSeesClose(i)
        PROVE  SocketOpen(j)'
    BY <1>0, <1>2 DEF ExtSeesClose, OwnSocket
  <1>3. ASSUME NEW i \in Instance,
               Fork(i) \/ Join(i) \/ ConnectRefused(i) \/ ExtRegistered(i) \/ EmitEvent(i) \/ ExtRequest(i)
        PROVE  SocketOpen(j)'
    BY <1>0, <1>3 DEF Fork, Join, ConnectRefused, ExtRegistered, EmitEvent, ExtRequest
  <1>4. ASSUME NEW i \in Instance, NEW c \in Conn, Connect(i, c)
        PROVE  SocketOpen(j)'
    BY <1>0, <1>4 DEF Connect
  <1>5. ASSUME NEW c \in Conn,
               RegisterRefused(c) \/ Register(c) \/ MarkReady(c) \/ BrokerEvent(c)
                 \/ BrokerResponse(c) \/ BrokerRejectsFrame(c)
                 \/ SupersededTimeout(c) \/ BrokerSeesClose(c) \/ LinkFails(c)
        PROVE  SocketOpen(j)'
    BY <1>0, <1>5 DEF RegisterRefused, Register, MarkReady, BrokerEvent, BrokerResponse,
                  BrokerRejectsFrame, SupersededTimeout, BrokerSeesClose, LinkFails
  <1>6. ASSUME NEW c \in Conn, NEW r \in Cmd, NEW ok \in BOOLEAN, ExtResponds(r, c, ok)
        PROVE  SocketOpen(j)'
    BY <1>0, <1>6 DEF ExtResponds
  <1>7. ASSUME NEW r \in Cmd, Issue(r) \/ ConnectTimeout(r) \/ RequestTimeout(r)
        PROVE  SocketOpen(j)'
    BY <1>0, <1>7 DEF Issue, ConnectTimeout, RequestTimeout
  <1>8. ASSUME Subscribe \/ Release \/ CloseBroker
        PROVE  SocketOpen(j)'
    BY <1>0, <1>8 DEF Subscribe, Release, CloseBroker, Revoked
  <1> QED
    BY <1>1, <1>2, <1>3, <1>4, <1>5, <1>6, <1>7, <1>8
    DEF Next, StandDown, InstanceDies

(* A register frame in transit was in transit before. *)
LEMMA RegisterOpenStep ==
  ASSUME TypeOK, LinkInv, RetireInv, Next, NEW d \in Conn
  PROVE  RegisterOpen(d)'
  <1> USE DEF brokerVars, linkVars, extVars, socketState, streamVars, procVars, commandVars,
              TypeOK, LinkTypeOK, BrokerTypeOK
  <1>0. /\ RegisterOpen(d) /\ RegisterFirst(d)
        /\ registration # NoConn => generation[registration] # 0
    BY DEF RetireInv, LinkInv
  <1>1. ASSUME toBroker'[d] = toBroker[d], brokerEnd[d] = "open" => brokerEnd'[d] = "open"
        PROVE  RegisterOpen(d)'
    BY <1>0, <1>1 DEF RegisterOpen
  <1>2. ASSUME toBroker'[d] = <<>>
        PROVE  RegisterOpen(d)'
    BY <1>2 DEF RegisterOpen
  <1>3. ASSUME toBroker[d] # <<>>, toBroker'[d] = Tail(toBroker[d])
        PROVE  RegisterOpen(d)'
    BY <1>0, <1>3, TakenNoRegister DEF RegisterOpen
  <1>4. ASSUME NEW s \in Seq(Frame), \A n \in DOMAIN s : s[n].type # "register",
               toBroker'[d] = WrittenToBroker(d, s), brokerEnd'[d] = brokerEnd[d]
        PROVE  RegisterOpen(d)'
    BY <1>0, <1>4, WrittenNoRegister DEF RegisterOpen
  <1>5. ASSUME NEW i \in Instance, ExtRegistered(i)
        PROVE  RegisterOpen(d)'
    <2>1. Announcement(i) \in Seq(Frame)
          /\ \A n \in DOMAIN Announcement(i) : Announcement(i)[n].type # "register"
      BY AnnouncementType
    <2>2. toBroker'[d] \in {toBroker[d], WrittenToBroker(d, Announcement(i))} /\ brokerEnd' = brokerEnd
      BY <1>5 DEF ExtRegistered
    <2> QED BY <1>1, <1>4, <2>1, <2>2
  <1>6. ASSUME NEW i \in Instance, EmitEvent(i)
        PROVE  RegisterOpen(d)'
    <2> DEFINE s == <<EventFrame(emitted[i] + 1)>>
    <2>1. s \in Seq(Frame) /\ \A n \in DOMAIN s : s[n].type # "register"
      BY <1>6, Frames DEF EmitEvent, ExtensionTypeOK, EventFrame
    <2>2. toBroker'[d] \in {toBroker[d], WrittenToBroker(d, s)} /\ brokerEnd' = brokerEnd
      BY <1>6 DEF EmitEvent
    <2> HIDE DEF s
    <2> QED BY <1>1, <1>4, <2>1, <2>2
  <1>7. ASSUME NEW c \in Conn, NEW r \in Cmd, NEW ok \in BOOLEAN, ExtResponds(r, c, ok)
        PROVE  RegisterOpen(d)'
    <2> DEFINE s == <<[type |-> "response", id |-> r, ok |-> ok]>>
    <2>1. s \in Seq(Frame) /\ \A n \in DOMAIN s : s[n].type # "register"
      BY Frames
    <2>2. toBroker'[d] \in {toBroker[d], WrittenToBroker(d, s)} /\ brokerEnd' = brokerEnd
      BY <1>7 DEF ExtResponds
    <2> HIDE DEF s
    <2> QED BY <1>1, <1>4, <2>1, <2>2
  <1>8. ASSUME NEW i \in Instance, NEW c \in Conn, Connect(i, c)
        PROVE  RegisterOpen(d)'
    <2>1. CASE d # c
      BY <1>1, <1>8, <2>1 DEF Connect
    <2>2. CASE d = c
      BY <1>8, <2>2 DEF Connect, RegisterOpen
    <2> QED BY <2>1, <2>2
  <1>9. ASSUME NEW i \in Instance,
               Fork(i) \/ Join(i) \/ ConnectRefused(i) \/ Shutdown(i) \/ ExtSeesClose(i)
                 \/ ExtRequest(i)
        PROVE  RegisterOpen(d)'
    BY <1>1, <1>9 DEF Fork, Join, ConnectRefused, Shutdown, ExtSeesClose, ExtRequest
  <1>10. ASSUME NEW c \in Conn,
                RegisterRefused(c) \/ Register(c) \/ MarkReady(c) \/ BrokerEvent(c) \/ BrokerResponse(c)
         PROVE  RegisterOpen(d)'
    <2>1. toBroker[c] # <<>> /\ toBroker' = Taken(c)
      BY <1>10 DEF RegisterRefused, Register, MarkReady, BrokerEvent, BrokerResponse, Takes
    <2>2. CASE d = c
      BY <1>3, <2>1, <2>2 DEF Taken
    <2>3. CASE d # c
      <3>1. toBroker'[d] = toBroker[d]
        BY <2>1, <2>3 DEF Taken
      <3>2. CASE Register(c) /\ d = registration
        <4>1. generation[d] # 0
          BY <1>0, <3>2 DEF Conn, NoConn
        <4> QED BY <1>0, <3>1, <4>1 DEF RegisterFirst, RegisterOpen
      <3>3. CASE ~(Register(c) /\ d = registration)
        <4>1. brokerEnd'[d] = brokerEnd[d]
          BY <1>10, <2>3, <3>3 DEF RegisterRefused, Register, MarkReady, BrokerEvent, BrokerResponse
        <4> QED BY <1>1, <3>1, <4>1
      <3> QED BY <3>2, <3>3
    <2> QED BY <2>2, <2>3
  <1>11. ASSUME NEW c \in Conn,
                BrokerRejectsFrame(c) \/ SupersededTimeout(c) \/ LinkFails(c)
         PROVE  RegisterOpen(d)'
    <2>1. CASE d = c
      BY <1>2, <1>11, <2>1 DEF BrokerRejectsFrame, SupersededTimeout, LinkFails
    <2>2. CASE d # c
      BY <1>1, <1>11, <2>2 DEF BrokerRejectsFrame, SupersededTimeout, LinkFails
    <2> QED BY <2>1, <2>2
  <1>12. ASSUME NEW c \in Conn, BrokerSeesClose(c)
         PROVE  RegisterOpen(d)'
    <2>1. CASE d = c /\ toBroker[c] # <<>>
      BY <1>0, <1>12, <2>1 DEF BrokerSeesClose, RegisterOpen
    <2>2. CASE d = c /\ toBroker[c] = <<>>
      BY <1>2, <1>12, <2>2 DEF BrokerSeesClose
    <2>3. CASE d # c
      BY <1>1, <1>12, <2>3 DEF BrokerSeesClose
    <2> QED BY <2>1, <2>2, <2>3
  <1>13. ASSUME NEW r \in Cmd, Issue(r) \/ ConnectTimeout(r) \/ RequestTimeout(r)
         PROVE  RegisterOpen(d)'
    BY <1>1, <1>13 DEF Issue, ConnectTimeout, RequestTimeout
  <1>14. ASSUME Subscribe
         PROVE  RegisterOpen(d)'
    BY <1>1, <1>14 DEF Subscribe
  <1>15. ASSUME NEW cs, Revoked(cs)
         PROVE  RegisterOpen(d)'
    <2>1. CASE d \in cs
      BY <1>2, <1>15, <2>1 DEF Revoked
    <2>2. CASE d \notin cs
      BY <1>1, <1>15, <2>2 DEF Revoked
    <2> QED BY <2>1, <2>2
  <1> QED
    BY <1>5, <1>6, <1>7, <1>8, <1>9, <1>10, <1>11, <1>12, <1>13, <1>14, <1>15
    DEF Next, StandDown, InstanceDies, Release, CloseBroker

(* A generation once given and the owner of a socket once opened are kept. *)
LEMMA HistoryStays ==
  ASSUME TypeOK, LinkInv, Next, NEW d \in Conn
  PROVE  /\ owner[d] # 0 => owner'[d] = owner[d]
         /\ generation[d] # 0 => generation'[d] = generation[d]
  <1> USE DEF brokerVars, linkVars, extVars, socketState, streamVars, procVars, commandVars,
              TypeOK, LinkTypeOK, BrokerTypeOK
  <1>1. ASSUME NEW i \in Instance,
               Fork(i) \/ Join(i) \/ ConnectRefused(i) \/ Shutdown(i) \/ ExtRegistered(i)
                 \/ ExtSeesClose(i) \/ EmitEvent(i) \/ ExtRequest(i)
        PROVE  UNCHANGED <<owner, generation>>
    BY <1>1 DEF Fork, Join, ConnectRefused, Shutdown, ExtRegistered, ExtSeesClose, EmitEvent, ExtRequest
  <1>2. ASSUME NEW i \in Instance, NEW c \in Conn, Connect(i, c)
        PROVE  (owner[d] # 0 => owner'[d] = owner[d]) /\ UNCHANGED generation
    BY <1>2 DEF Connect
  <1>3. ASSUME NEW c \in Conn,
               RegisterRefused(c) \/ MarkReady(c) \/ BrokerEvent(c)
                 \/ BrokerResponse(c) \/ BrokerRejectsFrame(c)
                 \/ SupersededTimeout(c) \/ BrokerSeesClose(c) \/ LinkFails(c)
        PROVE  UNCHANGED <<owner, generation>>
    BY <1>3 DEF RegisterRefused, MarkReady, BrokerEvent, BrokerResponse, BrokerRejectsFrame,
                SupersededTimeout, BrokerSeesClose, LinkFails
  <1>4. ASSUME NEW c \in Conn, Register(c)
        PROVE  UNCHANGED owner /\ (generation[d] # 0 => generation'[d] = generation[d])
    <2>1. toBroker[c] \in Seq(Frame) /\ toBroker[c] # <<>> /\ Head(toBroker[c]).type = "register"
      BY <1>4 DEF Register, Takes
    <2>2. 1 \in DOMAIN toBroker[c] /\ toBroker[c][1].type = "register"
      BY <2>1
    <2>3. generation[c] = 0
      BY <2>2 DEF LinkInv, RegisterFirst
    <2> QED BY <1>4, <2>3 DEF Register
  <1>5. ASSUME NEW c \in Conn, NEW r \in Cmd, NEW ok \in BOOLEAN, ExtResponds(r, c, ok)
        PROVE  UNCHANGED <<owner, generation>>
    BY <1>5 DEF ExtResponds
  <1>6. ASSUME NEW r \in Cmd, Issue(r) \/ ConnectTimeout(r) \/ RequestTimeout(r)
        PROVE  UNCHANGED <<owner, generation>>
    BY <1>6 DEF Issue, ConnectTimeout, RequestTimeout
  <1>7. ASSUME Subscribe \/ Release \/ CloseBroker
        PROVE  UNCHANGED <<owner, generation>>
    BY <1>7 DEF Subscribe, Release, CloseBroker, Revoked
  <1> QED
    BY <1>1, <1>2, <1>3, <1>4, <1>5, <1>6, <1>7
    DEF Next, StandDown, InstanceDies

LEMMA SupersededStays ==
  ASSUME TypeOK, LinkInv, Next, NEW c \in Conn, Superseded(c)
  PROVE  Superseded(c)'
  <1>1. PICK d \in Conn : generation[d] > generation[c] /\ owner[d] # owner[c]
    BY DEF Superseded
  <1>2. generation[c] \in Nat \ {0} /\ generation[d] \in Nat \ {0}
    BY <1>1 DEF Superseded, TypeOK, BrokerTypeOK
  <1>3. owner[c] # 0 /\ owner[d] # 0
    BY <1>2 DEF LinkInv, Unopened
  <1> QED BY <1>1, <1>2, <1>3, HistoryStays DEF Superseded

(* A socket whose register frame the broker takes has replaced another     *)
(* instance's registration, or one whose socket is closed on its own end.  *)
LEMMA RegisterSupersedes ==
  ASSUME IInv, RetireInv, NEW c \in Conn, Register(c),
         NEW p \in Conn, p = registration, extEnd[p] = "open"
  PROVE  p # c /\ Superseded(p)'
  <1> USE DEF IInv, TypeOK, LinkTypeOK, BrokerTypeOK, ExtensionTypeOK
  <1>1. generation[p] # 0 /\ generation[p] < nextGeneration
    BY DEF LinkInv, GenerationInv, Conn, NoConn
  <1>2. 1 \in DOMAIN toBroker[c] /\ toBroker[c][1].type = "register"
    BY DEF Register, Takes
  <1>3. generation[c] = 0 /\ brokerEnd[c] = "open"
    BY <1>2 DEF LinkInv, RegisterFirst, RetireInv, RegisterOpen
  <1>4. owner[c] \in Instance /\ owner[p] \in Instance
    BY <1>1, <1>3 DEF LinkInv, Unopened
  <1>5. owner[c] # owner[p]
    <2> SUFFICES ASSUME owner[c] = owner[p] PROVE FALSE
      OBVIOUS
    <2>1. socket[owner[c]] = p
      BY <1>1 DEF RetireInv, OneOpenSocket
    <2>2. phase[owner[c]] = "attached"
      BY <1>1, <1>4, <2>1 DEF LinkInv, OwnSocket, Conn, NoConn
    <2>3. extEnd[c] = "open"
      BY <1>3, <2>2 DEF RetireInv, OneOpenSocket
    <2>4. socket[owner[c]] = c
      BY <2>3 DEF RetireInv, OneOpenSocket
    <2> QED BY <1>1, <1>3, <2>1, <2>4
  <1>6. generation' = [generation EXCEPT ![c] = nextGeneration] /\ owner' = owner
    BY DEF Register, linkVars
  <1>7. generation'[p] # 0 /\ generation'[c] > generation'[p] /\ owner'[c] # owner'[p]
    BY <1>1, <1>3, <1>5, <1>6
  <1> QED BY <1>1, <1>3, <1>7 DEF Superseded

(* Writing frames other than t adds no frame of type t; reading adds none. *)
LEMMA NoNewFrames ==
  ASSUME LinkTypeOK, NEW c \in Conn, NEW t,
         \/ toExt'[c] \in {toExt[c], <<>>}
         \/ toExt[c] # <<>> /\ toExt'[c] = Tail(toExt[c])
         \/ \E s \in Seq(Frame) : /\ \A n \in DOMAIN s : s[n].type # t
                                  /\ toExt'[c] = WrittenToExt(c, s)
  PROVE  (\E n \in DOMAIN toExt'[c] : toExt'[c][n].type = t)
            => \E n \in DOMAIN toExt[c] : toExt[c][n].type = t
  <1>0. toExt[c] \in Seq(Frame)
    BY DEF LinkTypeOK
  <1>1. CASE toExt'[c] \in {toExt[c], <<>>}
    BY <1>1
  <1>2. CASE toExt[c] # <<>> /\ toExt'[c] = Tail(toExt[c])
    <2>1. \A n \in DOMAIN toExt'[c] : n + 1 \in DOMAIN toExt[c] /\ toExt'[c][n] = toExt[c][n + 1]
      BY <1>0, <1>2
    <2> QED BY <2>1
  <1>3. ASSUME NEW s \in Seq(Frame), \A n \in DOMAIN s : s[n].type # t,
               toExt'[c] = toExt[c] \o s
        PROVE  \A n \in DOMAIN toExt'[c] : toExt'[c][n].type = t
                  => n \in DOMAIN toExt[c] /\ toExt'[c][n] = toExt[c][n]
    BY <1>0, <1>3
  <1> QED BY <1>1, <1>2, <1>3 DEF WrittenToExt

(* The notices `registered' and `replaced' are written by registerSocket   *)
(* only, to the newcomer and to the registration it replaces.              *)
LEMMA NoticeOrigin ==
  ASSUME IInv, Next, NEW d \in Conn, NEW t \in {"registered", "replaced"},
         NEW n \in DOMAIN toExt'[d], toExt'[d][n].type = t
  PROVE  \/ \E m \in DOMAIN toExt[d] : toExt[d][m].type = t
         \/ t = "registered" /\ Register(d)
         \/ t = "replaced" /\ d = registration /\ extEnd[d] = "open" /\ \E c \in Conn : Register(c)
  <1> USE DEF brokerVars, linkVars, extVars, socketState, streamVars, procVars, commandVars,
              IInv, TypeOK, LinkTypeOK, BrokerTypeOK
  <1> DEFINE Before == \E m \in DOMAIN toExt[d] : toExt[d][m].type = t
  <1>1. ASSUME \/ toExt'[d] \in {toExt[d], <<>>}
               \/ toExt[d] # <<>> /\ toExt'[d] = Tail(toExt[d])
               \/ \E s \in Seq(Frame) : /\ \A k \in DOMAIN s : s[k].type # t
                                        /\ toExt'[d] = WrittenToExt(d, s)
        PROVE  Before
    <2>1. LinkTypeOK
      OBVIOUS
    <2>2. (\E k \in DOMAIN toExt'[d] : toExt'[d][k].type = t) => Before
      BY ONLY <1>1, <2>1, NoNewFrames
    <2> QED BY <2>2
  <1> HIDE DEF Before
  <1>2. \A u \in {"registered", "replaced", "registration-error"} : u # t =>
           Signal(u) \in Seq(Frame) /\ \A k \in DOMAIN Signal(u) : Signal(u)[k].type # t
    BY Frames DEF Signal
  <1>3. ASSUME NEW i \in Instance,
               Fork(i) \/ Join(i) \/ ConnectRefused(i) \/ ExtSeesClose(i) \/ EmitEvent(i)
                 \/ \E c \in Conn : Connect(i, c)
        PROVE  Before
    <2>1. toExt' = toExt
      BY <1>3 DEF Fork, Join, ConnectRefused, ExtSeesClose, EmitEvent, Connect
    <2> QED BY <1>1, <2>1
  <1>4. ASSUME NEW i \in Instance, Shutdown(i)
        PROVE  Before
    <2>1. toExt'[d] \in {toExt[d], <<>>}
      BY <1>4 DEF Shutdown
    <2> QED BY <1>1, <2>1
  <1>5. ASSUME NEW i \in Instance, ExtRegistered(i) \/ ExtRequest(i)
        PROVE  Before
    <2>1. toExt' = [toExt EXCEPT ![socket[i]] = Tail(@)] /\ toExt[socket[i]] # <<>>
      BY <1>5 DEF ExtRegistered, ExtRequest, Receives
    <2> QED BY <1>1, <2>1
  <1>6. ASSUME NEW c \in Conn, RegisterRefused(c)
        PROVE  Before
    <2>1. toExt'[d] \in {toExt[d], WrittenToExt(d, Signal("registration-error"))}
      BY <1>6 DEF RegisterRefused
    <2> QED BY <1>1, <1>2, <2>1
  <1>7. ASSUME NEW c \in Conn, Register(c)
        PROVE  \/ Before
               \/ t = "registered" /\ d = c
               \/ t = "replaced" /\ d = registration /\ extEnd[d] = "open"
    <2>1. CASE d = c
      <3>1. toExt'[d] = WrittenToExt(d, Signal("registered"))
        BY <1>7, <2>1 DEF Register, RegisterReplies
      <3> QED BY <1>1, <1>2, <2>1, <3>1
    <2>2. CASE d # c /\ d = registration
      <3>1. toExt'[d] = WrittenToExt(d, Signal("replaced"))
        BY <1>7, <2>2 DEF Register, RegisterReplies
      <3>2. CASE extEnd[d] = "open"
        BY <1>1, <1>2, <2>2, <3>1, <3>2
      <3>3. CASE extEnd[d] # "open"
        BY <1>1, <3>1, <3>3 DEF WrittenToExt
      <3> QED BY <3>2, <3>3
    <2>3. CASE d # c /\ d # registration
      BY <1>1, <1>7, <2>3 DEF Register, RegisterReplies
    <2> QED BY <2>1, <2>2, <2>3
  <1>8. ASSUME NEW c \in Conn, MarkReady(c)
        PROVE  Before
    <2> DEFINE s == [k \in DOMAIN waiting |-> Request(waiting[k])]
    <2>0. waiting \in Seq(Cmd) /\ DOMAIN waiting = 1..Len(waiting)
      OBVIOUS
    <2>1. \A k \in 1..Len(waiting) : Request(waiting[k]) \in Frame
      BY <2>0, Frames, ElementOfSeq
    <2>2. s \in [1..Len(waiting) -> Frame] /\ \A k \in DOMAIN s : s[k].type # t
      BY <2>0, <2>1 DEF Request
    <2>3. toExt'[d] \in {toExt[d], WrittenToExt(d, s)}
      BY <1>8 DEF MarkReady
    <2> HIDE DEF s
    <2>4. s \in Seq(Frame)
      BY <2>0, <2>2, Mapped
    <2> QED BY <1>1, <2>2, <2>3, <2>4
  <1>9. ASSUME NEW c \in Conn,
               BrokerEvent(c) \/ BrokerResponse(c) \/ BrokerRejectsFrame(c)
                 \/ SupersededTimeout(c) \/ BrokerSeesClose(c) \/ LinkFails(c)
                 \/ \E r \in Cmd, ok \in BOOLEAN : ExtResponds(r, c, ok)
        PROVE  Before
    <2>1. toExt'[d] \in {toExt[d], <<>>}
      BY <1>9 DEF BrokerEvent, BrokerResponse, BrokerRejectsFrame, SupersededTimeout,
                  BrokerSeesClose, LinkFails, ExtResponds
    <2> QED BY <1>1, <2>1
  <1>10. ASSUME NEW r \in Cmd, Issue(r)
         PROVE  Before
    <2>1. <<Request(r)>> \in Seq(Frame) /\ \A k \in DOMAIN <<Request(r)>> : <<Request(r)>>[k].type # t
      BY Frames DEF Request
    <2>2. toExt'[d] \in {toExt[d], WrittenToExt(d, <<Request(r)>>)}
      BY <1>10 DEF Issue
    <2> QED BY <1>1, <2>1, <2>2
  <1>11. ASSUME \/ \E r \in Cmd : ConnectTimeout(r) \/ RequestTimeout(r)
                \/ Subscribe \/ Release \/ CloseBroker
         PROVE  Before
    <2>1. toExt' = toExt
      BY <1>11 DEF ConnectTimeout, RequestTimeout, Subscribe, Release, CloseBroker, Revoked
    <2> QED BY <1>1, <2>1
  <1> QED
    BY <1>3, <1>4, <1>5, <1>6, <1>7, <1>8, <1>9, <1>10, <1>11
    DEF Next, StandDown, InstanceDies, Before

LEMMA RetiredStep ==
  ASSUME IInv, RetireInv, Next, NEW d \in Conn
  PROVE  Retired(d)'
  <1> SUFFICES ASSUME NEW n \in DOMAIN toExt'[d], toExt'[d][n].type = "replaced"
               PROVE  Superseded(d)'
    BY DEF Retired
  <1>1. \/ \E m \in DOMAIN toExt[d] : toExt[d][m].type = "replaced"
        \/ d = registration /\ extEnd[d] = "open" /\ \E c \in Conn : Register(c)
    BY NoticeOrigin
  <1>2. CASE \E m \in DOMAIN toExt[d] : toExt[d][m].type = "replaced"
    BY <1>2, SupersededStays DEF RetireInv, Retired, IInv
  <1> QED BY <1>1, <1>2, RegisterSupersedes

LEMMA RetireInvariant == IInv /\ RetireInv /\ [Next]_vars => RetireInv'
  <1> SUFFICES ASSUME IInv, RetireInv, [Next]_vars PROVE RetireInv'
    OBVIOUS
  <1>1. CASE Next
    BY <1>1, OneOpenSocketStep, SocketOpenStep, RegisterOpenStep, RetiredStep DEF IInv, RetireInv
  <1>2. CASE UNCHANGED vars
    BY <1>2 DEF RetireInv, OneOpenSocket, SocketOpen, RegisterOpen, Retired, Superseded, vars,
                brokerVars, linkVars, extVars, socketState
  <1> QED BY <1>1, <1>2

LEMMA RetireHolds == Spec => []RetireInv
  <1>1. Init => RetireInv
    BY DEF Init, RetireInv, OneOpenSocket, SocketOpen, RegisterOpen, Retired, Conn, NoConn
  <1> QED BY <1>1, RetireInvariant, InvariantHolds, PTL DEF Spec

(* registerSocket tells an instance `replaced' only when it gives its place *)
(* to a registration of another instance: an instance that reconnects has   *)
(* let its former socket go, so the notice meant for that socket cannot     *)
(* reach it and make it stand down for its own reconnection.                *)
THEOREM OnlyOthersRetire == Spec => []OnlyAnotherInstanceRetires
  <1>1. IInv /\ RetireInv => OnlyAnotherInstanceRetires
    <2> SUFFICES ASSUME IInv, RetireInv, NEW i \in Instance, Receives(i, {"replaced"})
                 PROVE  \E d \in Conn : generation[d] > generation[socket[i]] /\ owner[d] # i
      BY DEF OnlyAnotherInstanceRetires
    <2> DEFINE c == socket[i]
    <2>1. c \in Conn /\ owner[c] = i
      BY DEF Receives, IInv, TypeOK, ExtensionTypeOK, LinkInv, OwnSocket
    <2>2. 1 \in DOMAIN toExt[c] /\ toExt[c][1].type = "replaced"
      BY <2>1 DEF Receives, IInv, TypeOK, LinkTypeOK
    <2> QED BY <2>1, <2>2 DEF RetireInv, Retired, Superseded
  <1> QED BY <1>1, RetireHolds, InvariantHolds, PTL

-----------------------------------------------------------------------------
(* Which frame comes first.                                                *)

(* What a socket that is not ready carries to the broker: `register' alone *)
(* until it registers, then `ready' first; and its instance, told that it  *)
(* is registered, has written `ready'.                                     *)
Fresh(c) ==
    c \notin ready /\ Reads(c) =>
        /\ generation[c] = 0 => toBroker[c] \in {<<>>, Signal("register")}
        /\ generation[c] # 0 /\ toBroker[c] # <<>> => Head(toBroker[c]).type = "ready"
        /\ toBroker[c] = <<>> \/ generation[c] = 0
              => \A i \in Instance : socket[i] = c => ~registered[i]

(* `registered' is written to a socket the broker registered. *)
Acknowledged(c) ==
    \A n \in DOMAIN toExt[c] : toExt[c][n].type = "registered" => generation[c] # 0

(* A registered instance has a socket and nothing left to flush. *)
Flushed(i) == registered[i] => socket[i] # NoConn /\ backlog[i] = <<>>

OrderInv ==
    /\ \A c \in Conn : Fresh(c) /\ Acknowledged(c)
    /\ \A i \in Instance : Flushed(i)

LEMMA AcknowledgedStep ==
  ASSUME IInv, OrderInv, Next, NEW d \in Conn
  PROVE  Acknowledged(d)'
  <1> SUFFICES ASSUME NEW n \in DOMAIN toExt'[d], toExt'[d][n].type = "registered"
               PROVE  generation'[d] # 0
    BY DEF Acknowledged
  <1>1. Register(d) \/ \E m \in DOMAIN toExt[d] : toExt[d][m].type = "registered"
    BY NoticeOrigin
  <1>2. CASE Register(d)
    BY <1>2 DEF Register, IInv, TypeOK, BrokerTypeOK
  <1>3. CASE \E m \in DOMAIN toExt[d] : toExt[d][m].type = "registered"
    BY <1>3, HistoryStays DEF OrderInv, Acknowledged, IInv
  <1> QED BY <1>1, <1>2, <1>3

(* The backlog is flushed when `registered' arrives and grows only while   *)
(* the instance is not registered.                                         *)
LEMMA FlushedStep ==
  ASSUME TypeOK, LinkInv, OrderInv, Next, NEW j \in Instance
  PROVE  Flushed(j)'
  <1> USE DEF brokerVars, linkVars, extVars, socketState, streamVars, procVars, commandVars,
              TypeOK, LinkTypeOK, ExtensionTypeOK, Flushed
  <1>0. /\ Flushed(j) /\ \A i \in Instance : OwnSocket(i)
        /\ NoConn \notin Conn
    BY DEF LinkInv, OrderInv, Conn, NoConn
  <1>1. ASSUME NEW i \in Instance, Shutdown(i)
        PROVE  Flushed(j)'
    BY <1>0, <1>1 DEF Shutdown
  <1>2. ASSUME NEW i \in Instance, ExtSeesClose(i)
        PROVE  Flushed(j)'
    BY <1>0, <1>2 DEF ExtSeesClose, ScheduleReconnect
  <1>3. ASSUME NEW i \in Instance, ConnectRefused(i)
        PROVE  Flushed(j)'
    BY <1>0, <1>3 DEF ConnectRefused, ScheduleReconnect
  <1>4. ASSUME NEW i \in Instance, ExtRegistered(i)
        PROVE  Flushed(j)'
    BY <1>0, <1>4 DEF ExtRegistered, Receives, LeftAfterFlush
  <1>5. ASSUME NEW i \in Instance, EmitEvent(i)
        PROVE  Flushed(j)'
    BY <1>0, <1>5 DEF EmitEvent
  <1>6. ASSUME NEW i \in Instance, Fork(i) \/ Join(i) \/ ExtRequest(i)
        PROVE  Flushed(j)'
    BY <1>0, <1>6 DEF Fork, Join, ExtRequest
  <1>7. ASSUME NEW i \in Instance, NEW c \in Conn, Connect(i, c)
        PROVE  Flushed(j)'
    BY <1>0, <1>7 DEF Connect
  <1>8. ASSUME NEW c \in Conn,
               RegisterRefused(c) \/ Register(c) \/ MarkReady(c) \/ BrokerEvent(c)
                 \/ BrokerResponse(c) \/ BrokerRejectsFrame(c)
                 \/ SupersededTimeout(c) \/ BrokerSeesClose(c) \/ LinkFails(c)
                 \/ \E r \in Cmd, ok \in BOOLEAN : ExtResponds(r, c, ok)
        PROVE  Flushed(j)'
    BY <1>0, <1>8 DEF RegisterRefused, Register, MarkReady, BrokerEvent, BrokerResponse, BrokerRejectsFrame,
                SupersededTimeout, BrokerSeesClose, LinkFails, ExtResponds
  <1>9. ASSUME \/ \E r \in Cmd : Issue(r) \/ ConnectTimeout(r) \/ RequestTimeout(r)
               \/ Subscribe \/ Release \/ CloseBroker
        PROVE  Flushed(j)'
    BY <1>0, <1>9 DEF Issue, ConnectTimeout, RequestTimeout, Subscribe, Release, CloseBroker, Revoked
  <1> QED
    BY <1>1, <1>2, <1>3, <1>4, <1>5, <1>6, <1>7, <1>8, <1>9
    DEF Next, StandDown, InstanceDies

LEMMA FreshStep ==
  ASSUME IInv, CommandInv, RetireInv, OrderInv, Next, NEW d \in Conn
  PROVE  Fresh(d)'
  <1> USE DEF brokerVars, linkVars, extVars, socketState, streamVars, procVars, commandVars,
              IInv, TypeOK, LinkTypeOK, BrokerTypeOK, ExtensionTypeOK
  <1>0. /\ Fresh(d) /\ Unopened(d) /\ RegisterFirst(d)
        /\ \A i \in Instance : OwnSocket(i) /\ SocketOpen(i) /\ Flushed(i)
        /\ d # NoConn
    BY DEF LinkInv, RetireInv, OrderInv, Conn, NoConn
  <1>1. ASSUME toBroker'[d] = toBroker[d], generation'[d] = generation[d], ready' = ready,
               brokerEnd'[d] = brokerEnd[d],
               \A i \in Instance : socket'[i] = d /\ registered'[i] => socket[i] = d /\ registered[i]
        PROVE  Fresh(d)'
    BY <1>0, <1>1 DEF Fresh, Reads
  <1>2. ASSUME d \in ready' \/ brokerEnd'[d] \notin {"open", "ending"}
        PROVE  Fresh(d)'
    BY <1>2 DEF Fresh, Reads
  <1>3. ASSUME NEW i \in Instance, Fork(i) \/ Join(i) \/ ConnectRefused(i) \/ ExtRequest(i)
        PROVE  Fresh(d)'
    BY <1>1, <1>3 DEF Fork, Join, ConnectRefused, ExtRequest
  <1>4. ASSUME NEW i \in Instance, Shutdown(i) \/ ExtSeesClose(i)
        PROVE  Fresh(d)'
    BY <1>1, <1>4 DEF Shutdown, ExtSeesClose
  <1>5. ASSUME NEW i \in Instance, NEW c \in Conn, Connect(i, c)
        PROVE  Fresh(d)'
    <2>1. ~registered[i]
      BY <1>0, <1>5 DEF Connect, OwnSocket, Flushed
    <2>2. CASE d = c
      <3>1. generation[d] = 0 /\ \A j \in Instance : socket[j] # d
        BY <1>0, <1>5, <2>2 DEF Connect, Unopened, OwnSocket, Instance
      <3>2. generation'[d] = 0 /\ toBroker'[d] = Signal("register")
            /\ \A j \in Instance : socket'[j] = d => ~registered'[j]
        BY <1>5, <2>1, <2>2, <3>1 DEF Connect
      <3> QED BY <3>2 DEF Fresh
    <2>3. CASE d # c
      BY <1>1, <1>5, <2>3 DEF Connect
    <2> QED BY <2>2, <2>3
  <1>6. ASSUME NEW i \in Instance, ExtRegistered(i)
        PROVE  Fresh(d)'
    <2>1. CASE d # socket[i]
      BY <1>1, <1>6, <2>1 DEF ExtRegistered
    <2>2. CASE d = socket[i] /\ (d \in ready \/ ~Reads(d))
      BY <1>2, <1>6, <2>2 DEF ExtRegistered, Reads
    <2>3. CASE d = socket[i] /\ d \notin ready /\ Reads(d)
      <3>1. 1 \in DOMAIN toExt[d] /\ toExt[d][1].type = "registered"
        BY <1>6, <2>3 DEF ExtRegistered, Receives
      <3>2. generation[d] # 0
        BY <3>1 DEF OrderInv, Acknowledged
      <3>3. extEnd[d] = "open"
        BY <1>0, <2>3 DEF SocketOpen
      <3>4. toBroker'[d] = toBroker[d] \o Announcement(i)
        BY <1>6, <2>3, <3>3 DEF ExtRegistered, WrittenToBroker
      <3>5. Announcement(i) \in Seq(Frame) /\ Announcement(i) # <<>> /\ Head(Announcement(i)).type = "ready"
        <4>1. Announcement(i) \in Seq(Frame) /\ BacklogFrames(i) \in Seq(Frame)
          <5>1. backlog[i] \in Seq(1..MaxEvents) /\ DOMAIN backlog[i] = 1..Len(backlog[i])
            OBVIOUS
          <5>2. \A n \in 1..Len(backlog[i]) : EventFrame(backlog[i][n]) \in Frame
            BY <5>1, Frames, ElementOfSeq
          <5>3. BacklogFrames(i) \in [1..Len(backlog[i]) -> Frame]
            BY <5>1, <5>2 DEF BacklogFrames
          <5> QED BY <5>1, <5>3, Mapped, AnnouncementType
        <4>2. Signal("ready") \in Seq(Frame) /\ Len(Signal("ready")) = 1 /\ Signal("ready")[1].type = "ready"
          BY Frames DEF Signal
        <4> QED BY <4>1, <4>2 DEF Announcement
      <3>6. toBroker'[d] # <<>> /\ Head(toBroker'[d]).type = "ready"
        <4> DEFINE a == Announcement(i)
        <4>1. a \in Seq(Frame) /\ a # <<>> /\ Head(a).type = "ready" /\ toBroker'[d] = toBroker[d] \o a
          BY <3>4, <3>5
        <4> HIDE DEF a
        <4>2. CASE toBroker[d] = <<>>
          BY <4>1, <4>2
        <4>3. CASE toBroker[d] # <<>>
          <5>1. Head(toBroker[d]).type = "ready"
            BY <1>0, <2>3, <3>2, <4>3 DEF Fresh
          <5> QED BY <4>1, <4>3, <5>1
        <4> QED BY <4>2, <4>3
      <3> QED BY <1>6, <3>2, <3>6 DEF ExtRegistered, Fresh
    <2> QED BY <2>1, <2>2, <2>3
  <1>7. ASSUME NEW i \in Instance, EmitEvent(i)
        PROVE  Fresh(d)'
    <2>0. UNCHANGED <<generation, ready, brokerEnd, socket, registered>>
      BY <1>7 DEF EmitEvent
    <2>1. CASE toBroker'[d] = toBroker[d]
      BY <1>1, <2>0, <2>1
    <2>2. CASE d \in ready \/ ~Reads(d)
      BY <1>2, <2>0, <2>2 DEF Reads
    <2>3. CASE toBroker'[d] # toBroker[d] /\ d \notin ready /\ Reads(d)
      <3> DEFINE e == EventFrame(emitted[i] + 1)
      <3>1. registered[i] /\ socket[i] = d /\ toBroker'[d] = toBroker[d] \o <<e>>
        <4> DEFINE c == socket[i]
        <4>1. registered[i] /\ toBroker' = [toBroker EXCEPT ![c] = WrittenToBroker(c, <<e>>)]
          BY <1>7, <2>3 DEF EmitEvent
        <4> HIDE DEF c, e
        <4>2. d = c /\ toBroker'[d] = WrittenToBroker(d, <<e>>)
          BY <2>3, <4>1
        <4> QED BY <2>3, <4>1, <4>2 DEF WrittenToBroker, c
      <3>2. generation[d] # 0 /\ toBroker[d] # <<>>
        BY <1>0, <2>3, <3>1 DEF Fresh
      <3> HIDE DEF e
      <3>3. Head(toBroker'[d]) = Head(toBroker[d]) /\ toBroker'[d] # <<>>
        BY <3>1, <3>2
      <3> QED BY <1>0, <2>0, <2>3, <3>2, <3>3 DEF Fresh, Reads
    <2> QED BY <2>1, <2>2, <2>3
  <1>8. ASSUME NEW c \in Conn, NEW r \in Cmd, NEW ok \in BOOLEAN, ExtResponds(r, c, ok)
        PROVE  Fresh(d)'
    <2>1. c \in ready
      BY <1>8 DEF ExtResponds, CommandInv, Executed
    <2> QED BY <1>1, <1>2, <1>8, <2>1 DEF ExtResponds
  <1>9. ASSUME NEW c \in Conn, RegisterRefused(c) \/ Register(c)
        PROVE  Fresh(d)'
    <2>1. CASE d # c
      <3>1. CASE brokerEnd'[d] = brokerEnd[d]
        BY <1>1, <1>9, <2>1, <3>1 DEF RegisterRefused, Register, Taken
      <3>2. CASE brokerEnd'[d] # brokerEnd[d]
        <4>1. Reads(d) /\ Reads(d)' /\ toBroker'[d] = toBroker[d] /\ generation'[d] = generation[d]
              /\ UNCHANGED <<ready, socket, registered>>
          BY <1>9, <2>1, <3>2 DEF RegisterRefused, Register, Reads, Taken
        <4> QED BY <1>0, <4>1 DEF Fresh
      <3> QED BY <3>1, <3>2
    <2>2. CASE d = c
      <3>1. Reads(d) /\ toBroker[d] # <<>> /\ Head(toBroker[d]).type = "register" /\ toBroker' = Taken(d)
        BY <1>9, <2>2 DEF RegisterRefused, Register, Takes
      <3>2. 1 \in DOMAIN toBroker[d] /\ toBroker[d][1].type = "register"
        BY <3>1
      <3>3. generation[d] = 0 /\ d \notin ready
        BY <1>0, <3>2 DEF RegisterFirst, LinkInv
      <3>4. toBroker'[d] = <<>> /\ \A i \in Instance : socket[i] = d => ~registered[i]
        <4>1. toBroker[d] = Signal("register") /\ \A i \in Instance : socket[i] = d => ~registered[i]
          BY <1>0, <3>1, <3>3 DEF Fresh
        <4>2. Tail(toBroker[d]) = <<>>
          BY <4>1 DEF Signal
        <4> QED BY <3>1, <4>1, <4>2 DEF Taken
      <3>5. UNCHANGED <<socket, registered>>
        BY <1>9 DEF RegisterRefused, Register
      <3> QED BY <3>4, <3>5 DEF Fresh
    <2> QED BY <2>1, <2>2
  <1>10. ASSUME NEW c \in Conn, MarkReady(c) \/ BrokerEvent(c) \/ BrokerResponse(c)
         PROVE  Fresh(d)'
    <2>1. c \in ready' /\ ready \subseteq ready'
      BY <1>10 DEF MarkReady, BrokerEvent, BrokerResponse, Current
    <2>2. CASE d = c
      BY <1>2, <2>1, <2>2
    <2>3. CASE d # c
      <3>1. /\ toBroker'[d] = toBroker[d] /\ (d \in ready' => d \in ready)
            /\ UNCHANGED <<generation, brokerEnd, socket, registered>>
        BY <1>10, <2>3 DEF MarkReady, BrokerEvent, BrokerResponse, Taken
      <3> QED BY <1>0, <2>1, <3>1 DEF Fresh, Reads
    <2> QED BY <2>2, <2>3
  <1>11. ASSUME NEW c \in Conn,
                BrokerRejectsFrame(c) \/ SupersededTimeout(c) \/ BrokerSeesClose(c) \/ LinkFails(c)
         PROVE  Fresh(d)'
    <2>1. CASE d = c
      <3>1. brokerEnd'[d] \notin {"open", "ending"}
        BY <1>11, <2>1 DEF BrokerRejectsFrame, SupersededTimeout, BrokerSeesClose, LinkFails
      <3> QED BY <1>2, <3>1
    <2>2. CASE d # c
      <3>1. /\ toBroker'[d] = toBroker[d] /\ brokerEnd'[d] = brokerEnd[d]
            /\ UNCHANGED <<generation, ready, socket, registered>>
        BY <1>11, <2>2 DEF BrokerRejectsFrame, SupersededTimeout, BrokerSeesClose, LinkFails
      <3> QED BY <1>1, <3>1
    <2> QED BY <2>1, <2>2
  <1>12. ASSUME \/ \E r \in Cmd : Issue(r) \/ ConnectTimeout(r) \/ RequestTimeout(r)
                \/ Subscribe
         PROVE  Fresh(d)'
    <2>1. UNCHANGED <<toBroker, generation, ready, brokerEnd, socket, registered>>
      BY <1>12 DEF Issue, ConnectTimeout, RequestTimeout, Subscribe
    <2> QED BY <1>1, <2>1
  <1>13. ASSUME NEW cs, Revoked(cs)
         PROVE  Fresh(d)'
    <2>1. CASE d \in cs
      BY <1>2, <1>13, <2>1 DEF Revoked
    <2>2. CASE d \notin cs
      BY <1>1, <1>13, <2>2 DEF Revoked
    <2> QED BY <2>1, <2>2
  <1> QED
    BY <1>3, <1>4, <1>5, <1>6, <1>7, <1>8, <1>9, <1>10, <1>11, <1>12, <1>13
    DEF Next, StandDown, InstanceDies, Release, CloseBroker

LEMMA OrderInvariant == IInv /\ CommandInv /\ RetireInv /\ OrderInv /\ [Next]_vars => OrderInv'
  <1> SUFFICES ASSUME IInv, CommandInv, RetireInv, OrderInv, [Next]_vars PROVE OrderInv'
    OBVIOUS
  <1>1. CASE Next
    BY <1>1, FreshStep, AcknowledgedStep, FlushedStep DEF IInv, OrderInv
  <1>2. CASE UNCHANGED vars
    BY <1>2 DEF OrderInv, Fresh, Reads, Acknowledged, Flushed, vars, brokerVars, linkVars, extVars,
                socketState, streamVars
  <1> QED BY <1>1, <1>2

LEMMA OrderHolds == Spec => []OrderInv
  <1>1. Init => OrderInv
    BY DEF Init, OrderInv, Fresh, Reads, Acknowledged, Flushed
  <1> QED BY <1>1, OrderInvariant, RetireHolds, CommandsHold, InvariantHolds, PTL DEF Spec

LEMMA ReadyComesFirst == IInv /\ OrderInv => ReadyFirst
  BY DEF IInv, LinkInv, OrderInv, Fresh, ReadyFirst, Conn, NoConn

-----------------------------------------------------------------------------
(* In which order the subscriber sees the events of an instance.           *)

Numbers(s) == {s[k] : k \in DOMAIN s}

Increasing(s) == \A j, k \in DOMAIN s : j < k => s[j] < s[k]

(* The numbers of the events among the frames f, and that they increase. *)
Events(f) == {f[k].number : k \in {j \in DOMAIN f : f[j].type = "event"}}

Ordered(f) ==
    \A j, k \in DOMAIN f :
        j < k /\ f[j].type = "event" /\ f[k].type = "event" => f[j].number < f[k].number

Before(S, T) == \A m \in S, n \in T : m < n

(* What was delivered comes before what is kept for later. *)
KeptBehind(i) ==
    /\ Increasing(delivered[i]) /\ Increasing(backlog[i])
    /\ Numbers(delivered[i]) \cup Numbers(backlog[i]) \subseteq 1..emitted[i]
    /\ Before(Numbers(delivered[i]), Numbers(backlog[i]))

(* What is in transit comes before what is kept for later and, on the      *)
(* current registration, after what was delivered.                         *)
InTransit(c, i) ==
    /\ Events(toBroker[c]) \subseteq 1..emitted[i]
    /\ Before(Events(toBroker[c]), Numbers(backlog[i]))
    /\ registration = c => Before(Numbers(delivered[i]), Events(toBroker[c]))

EventInv ==
    /\ \A i \in Instance : KeptBehind(i)
    /\ \A c \in Conn : Ordered(toBroker[c])
    /\ \A c \in Conn, i \in Instance : owner[c] = i => InTransit(c, i)

LEMMA NumbersAreNaturals ==
  ASSUME NEW s \in Seq(1..MaxEvents)
  PROVE  s \in Seq(Nat)
  <1>1. \A k \in 1..Len(s) : s[k] \in Nat
    BY ElementOfSeq, BridgeAssumption
  <1>2. s \in [1..Len(s) -> Nat]
    BY <1>1
  <1> QED BY <1>2, Mapped

LEMMA IncreasingAppend ==
  ASSUME NEW s \in Seq(Nat), NEW e \in Nat, Increasing(s), Before(Numbers(s), {e})
  PROVE  Increasing(Append(s, e)) /\ Numbers(Append(s, e)) = Numbers(s) \cup {e}
  <1> DEFINE t == Append(s, e)
  <1>1. /\ DOMAIN t = DOMAIN s \cup {Len(s) + 1} /\ \A k \in DOMAIN s : t[k] = s[k]
        /\ t[Len(s) + 1] = e
    BY OneMore
  <1>2. Len(s) \in Nat /\ DOMAIN s = 1..Len(s)
    OBVIOUS
  <1>3. \A k \in DOMAIN s : s[k] < e
    BY DEF Before, Numbers
  <1> HIDE DEF t
  <1>4. Increasing(t)
    BY <1>1, <1>2, <1>3 DEF Increasing
  <1>5. Numbers(t) = Numbers(s) \cup {e}
    BY <1>1, <1>2 DEF Numbers
  <1> QED BY <1>4, <1>5 DEF t

(* Dropping the oldest event of a full backlog. *)
LEMMA RetainedOrder ==
  ASSUME NEW s \in Seq(Nat), Increasing(s), BridgeAssumption
  PROVE  Increasing(Retained(s)) /\ Numbers(Retained(s)) \subseteq Numbers(s)
  <1>1. CASE s # <<>> /\ Retained(s) = Tail(s)
    <2> DEFINE t == Tail(s)
    <2>1. \A k \in DOMAIN t : k \in Nat /\ k + 1 \in DOMAIN s /\ t[k] = s[k + 1]
      BY <1>1
    <2> HIDE DEF t
    <2>2. Increasing(t) /\ Numbers(t) \subseteq Numbers(s)
      BY <2>1 DEF Increasing, Numbers
    <2> QED BY <1>1, <2>2 DEF t
  <1>2. CASE Retained(s) = s
    BY <1>2
  <1>3. (s # <<>> /\ Retained(s) = Tail(s)) \/ Retained(s) = s
    BY DEF Retained, BridgeAssumption
  <1> QED BY <1>1, <1>2, <1>3

LEMMA FramesOfEvents ==
  /\ \A f \in Frame : f.type = "event" => f.number \in Nat
  /\ \A s \in Seq(Frame) : Events(s) \subseteq Nat
  <1>1. \A f \in Frame : f.type = "event" => f.number \in Nat
    BY Frames
  <1>2. ASSUME NEW s \in Seq(Frame) PROVE Events(s) \subseteq Nat
    <2>1. \A k \in DOMAIN s : s[k] \in Frame
      BY ElementOfSeq
    <2> QED BY <1>1, <2>1 DEF Events
  <1> QED BY <1>1, <1>2

LEMMA OrderedConcat ==
  ASSUME NEW f \in Seq(Frame), NEW g \in Seq(Frame), Ordered(f), Ordered(g),
         Before(Events(f), Events(g))
  PROVE  Ordered(f \o g) /\ Events(f \o g) = Events(f) \cup Events(g)
  <1> DEFINE h == f \o g
  <1>1. /\ Len(f) \in Nat /\ DOMAIN f = 1..Len(f) /\ Len(g) \in Nat /\ DOMAIN g = 1..Len(g)
        /\ DOMAIN h = 1..(Len(f) + Len(g))
        /\ \A k \in DOMAIN f : h[k] = f[k]
        /\ \A k \in DOMAIN g : h[Len(f) + k] = g[k]
    OBVIOUS
  <1>2. \A k \in DOMAIN h : \/ k \in DOMAIN f /\ h[k] = f[k]
                            \/ k - Len(f) \in DOMAIN g /\ h[k] = g[k - Len(f)] /\ k \notin DOMAIN f
    BY <1>1
  <1> HIDE DEF h
  <1>3. Ordered(h)
    <2> SUFFICES ASSUME NEW j \in DOMAIN h, NEW k \in DOMAIN h, j < k,
                        h[j].type = "event", h[k].type = "event"
                 PROVE  h[j].number < h[k].number
      BY DEF Ordered
    <2>0. j \in Nat /\ k \in Nat
      BY <1>1
    <2>1. CASE j \in DOMAIN f /\ k \in DOMAIN f
      BY <1>1, <2>1 DEF Ordered
    <2>2. CASE j \in DOMAIN f /\ k \notin DOMAIN f
      BY <1>1, <1>2, <2>2 DEF Before, Events
    <2>3. CASE j \notin DOMAIN f /\ k \notin DOMAIN f
      <3>1. /\ j - Len(f) \in DOMAIN g /\ h[j] = g[j - Len(f)]
            /\ k - Len(f) \in DOMAIN g /\ h[k] = g[k - Len(f)]
        BY <1>2, <2>3
      <3>2. j - Len(f) < k - Len(f)
        BY <1>1, <2>0
      <3> QED BY <3>1, <3>2 DEF Ordered
    <2>4. ~(j \notin DOMAIN f /\ k \in DOMAIN f)
      BY <1>1, <2>0
    <2> QED BY <2>1, <2>2, <2>3, <2>4
  <1>4. Events(h) \subseteq Events(f) \cup Events(g)
    BY <1>2 DEF Events
  <1>5. Events(f) \cup Events(g) \subseteq Events(h)
    <2>1. \A k \in DOMAIN f : k \in DOMAIN h
      BY <1>1
    <2>2. \A k \in DOMAIN g : Len(f) + k \in DOMAIN h
      BY <1>1
    <2> QED BY <1>1, <2>1, <2>2 DEF Events
  <1> QED BY <1>3, <1>4, <1>5 DEF h

LEMMA OrderedTail ==
  ASSUME NEW f \in Seq(Frame), f # <<>>, Ordered(f)
  PROVE  /\ Ordered(Tail(f)) /\ Events(Tail(f)) \subseteq Events(f)
         /\ Head(f).type = "event" => /\ Head(f).number \in Events(f)
                                      /\ Before({Head(f).number}, Events(Tail(f)))
  <1> DEFINE t == Tail(f)
  <1>1. /\ \A k \in DOMAIN t : k \in Nat \ {0} /\ k + 1 \in DOMAIN f /\ t[k] = f[k + 1]
        /\ 1 \in DOMAIN f /\ Head(f) = f[1]
    OBVIOUS
  <1> HIDE DEF t
  <1>2. Ordered(t) /\ Events(t) \subseteq Events(f)
    BY <1>1 DEF Ordered, Events
  <1>3. f[1].type = "event" => f[1].number \in Events(f) /\ Before({f[1].number}, Events(t))
    <2>1. \A k \in DOMAIN t : 1 < k + 1
      BY <1>1
    <2> QED BY <1>1, <2>1 DEF Ordered, Events, Before
  <1> QED BY <1>1, <1>2, <1>3 DEF t

(* One frame, or none. *)
LEMMA OrderedFew ==
  /\ Ordered(<<>>) /\ Events(<<>>) = {}
  /\ \A x \in Frame : /\ Ordered(<<x>>)
                      /\ x.type # "event" => Events(<<x>>) = {}
                      /\ x.type = "event" => Events(<<x>>) = {x.number}
  <1>1. Ordered(<<>>) /\ Events(<<>>) = {}
    BY DEF Ordered, Events
  <1>2. ASSUME NEW x \in Frame
        PROVE  /\ Ordered(<<x>>)
               /\ x.type # "event" => Events(<<x>>) = {}
               /\ x.type = "event" => Events(<<x>>) = {x.number}
    <2> DEFINE s == <<x>>
    <2>1. DOMAIN s = {1} /\ s[1] = x
      OBVIOUS
    <2> HIDE DEF s
    <2>2. Ordered(s) /\ (x.type # "event" => Events(s) = {}) /\ (x.type = "event" => Events(s) = {x.number})
      BY <2>1 DEF Ordered, Events
    <2> QED BY <2>2 DEF s
  <1> QED BY <1>1, <1>2

(* The announcement carries the backlog. *)
LEMMA OrderedAnnouncement ==
  ASSUME ExtensionTypeOK, NEW i \in Instance, Increasing(backlog[i])
  PROVE  Ordered(Announcement(i)) /\ Events(Announcement(i)) = Numbers(backlog[i])
  <1> DEFINE b == BacklogFrames(i)
  <1>1. backlog[i] \in Seq(1..MaxEvents) /\ DOMAIN backlog[i] = 1..Len(backlog[i]) /\ Len(backlog[i]) \in Nat
    BY DEF ExtensionTypeOK
  <1>2. \A n \in 1..Len(backlog[i]) : EventFrame(backlog[i][n]) \in Frame
    BY <1>1, Frames, ElementOfSeq
  <1>3. b \in [1..Len(backlog[i]) -> Frame]
    BY <1>1, <1>2 DEF BacklogFrames
  <1>4. b \in Seq(Frame)
    BY <1>1, <1>3, Mapped
  <1>5. DOMAIN b = DOMAIN backlog[i] /\ \A k \in DOMAIN b : b[k].type = "event" /\ b[k].number = backlog[i][k]
    BY DEF BacklogFrames, EventFrame
  <1> HIDE DEF b
  <1>6. Ordered(b)
    BY <1>5 DEF Ordered, Increasing
  <1>7. Events(b) = Numbers(backlog[i])
    <2>1. {j \in DOMAIN b : b[j].type = "event"} = DOMAIN backlog[i]
      BY <1>5
    <2> QED BY <1>5, <2>1 DEF Events, Numbers
  <1> DEFINE x == [type |-> "ready"]
  <1>8. x \in Frame /\ x.type # "event" /\ <<x>> \in Seq(Frame) /\ Signal("ready") = <<x>>
    BY DEF Frame, Signal
  <1> HIDE DEF x
  <1> DEFINE r == <<x>>
  <1>9. r \in Seq(Frame) /\ Ordered(r) /\ Events(r) = {}
    BY <1>8, OrderedFew
  <1>10. Before(Events(r), Events(b))
    BY <1>9 DEF Before
  <1> HIDE DEF r
  <1>11. Ordered(r \o b) /\ Events(r \o b) = Events(r) \cup Events(b)
    BY <1>4, <1>6, <1>9, <1>10, OrderedConcat
  <1> QED BY <1>7, <1>8, <1>9, <1>11 DEF Announcement, b, r

(* Frames that were written, or lost with the socket. *)
LEMMA OrderedWritten ==
  ASSUME LinkTypeOK, NEW c \in Conn, NEW s \in Seq(Frame), Ordered(toBroker[c]), Ordered(s),
         Before(Events(toBroker[c]), Events(s))
  PROVE  /\ Ordered(WrittenToBroker(c, s))
         /\ Events(WrittenToBroker(c, s)) \subseteq Events(toBroker[c]) \cup Events(s)
  <1>1. toBroker[c] \in Seq(Frame)
    BY DEF LinkTypeOK
  <1>2. Ordered(toBroker[c] \o s) /\ Events(toBroker[c] \o s) = Events(toBroker[c]) \cup Events(s)
    BY <1>1, OrderedConcat
  <1> QED BY <1>2 DEF WrittenToBroker

-----------------------------------------------------------------------------
(* A step that neither emits nor delivers: the frames of a socket are kept *)
(* or lose some, and a registration that is taken over starts with none.   *)
TrafficKept(c) ==
    /\ Ordered(toBroker'[c]) /\ Events(toBroker'[c]) \subseteq Events(toBroker[c])
    /\ owner'[c] = owner[c] \/ Events(toBroker'[c]) = {}
    /\ registration' = c => registration = c \/ Events(toBroker'[c]) = {}

StreamsKept == UNCHANGED <<delivered, emitted>> /\ \A i \in Instance : backlog'[i] \in {backlog[i], <<>>}

LEMMA KeptStreams ==
  ASSUME EventInv, StreamsKept, \A c \in Conn : TrafficKept(c)
  PROVE  EventInv'
  <1>1. ASSUME NEW i \in Instance PROVE KeptBehind(i)' /\ Numbers(backlog[i])' \subseteq Numbers(backlog[i])
    <2>1. CASE backlog'[i] = backlog[i]
      BY <2>1 DEF EventInv, StreamsKept, KeptBehind, Increasing, Numbers, Before
    <2>2. CASE backlog'[i] = <<>>
      <3>1. Numbers(backlog'[i]) = {} /\ Increasing(backlog'[i])
        BY <2>2 DEF Numbers, Increasing
      <3> QED BY <3>1 DEF EventInv, StreamsKept, KeptBehind, Increasing, Numbers, Before
    <2> QED BY <2>1, <2>2 DEF StreamsKept
  <1>2. \A c \in Conn : Ordered(toBroker[c])'
    BY DEF TrafficKept
  <1>3. ASSUME NEW c \in Conn, NEW i \in Instance, owner'[c] = i PROVE InTransit(c, i)'
    <2>1. CASE Events(toBroker'[c]) = {}
      BY <2>1 DEF InTransit, Before
    <2>2. CASE owner[c] = i /\ (registration' = c => registration = c)
      <3>1. /\ Events(toBroker'[c]) \subseteq Events(toBroker[c]) /\ InTransit(c, i)
            /\ Numbers(backlog'[i]) \subseteq Numbers(backlog[i])
        BY <1>1, <2>2 DEF TrafficKept, EventInv
      <3> QED BY <2>2, <3>1 DEF InTransit, Before, StreamsKept
    <2> QED BY <1>3, <2>1, <2>2 DEF TrafficKept
  <1> QED BY <1>1, <1>2, <1>3 DEF EventInv

LEMMA OrderedKept ==
  ASSUME LinkTypeOK, NEW c \in Conn, Ordered(toBroker[c]),
         \/ toBroker'[c] \in {toBroker[c], <<>>, Signal("register")}
         \/ toBroker[c] # <<>> /\ toBroker'[c] = Tail(toBroker[c])
         \/ \E x \in Frame : x.type # "event" /\ toBroker'[c] = WrittenToBroker(c, <<x>>)
  PROVE  Ordered(toBroker'[c]) /\ Events(toBroker'[c]) \subseteq Events(toBroker[c])
  <1>1. toBroker[c] \in Seq(Frame)
    BY DEF LinkTypeOK
  <1>2. CASE toBroker'[c] = toBroker[c]
    BY <1>2
  <1>3. CASE toBroker'[c] \in {<<>>, Signal("register")}
    <2> DEFINE x == [type |-> "register"]
    <2>1. x \in Frame /\ x.type # "event" /\ Signal("register") = <<x>>
      BY DEF Frame, Signal
    <2> HIDE DEF x
    <2> QED BY <1>3, <2>1, OrderedFew
  <1>4. CASE toBroker[c] # <<>> /\ toBroker'[c] = Tail(toBroker[c])
    BY <1>1, <1>4, OrderedTail
  <1>5. ASSUME NEW x \in Frame, x.type # "event", toBroker'[c] = WrittenToBroker(c, <<x>>)
        PROVE  Ordered(toBroker'[c]) /\ Events(toBroker'[c]) \subseteq Events(toBroker[c])
    <2> DEFINE s == <<x>>
    <2>1. s \in Seq(Frame) /\ Ordered(s) /\ Events(s) = {}
      BY <1>5, OrderedFew
    <2>2. Before(Events(toBroker[c]), Events(s))
      BY <2>1 DEF Before
    <2> HIDE DEF s
    <2>3. Ordered(WrittenToBroker(c, s)) /\ Events(WrittenToBroker(c, s)) \subseteq Events(toBroker[c]) \cup Events(s)
      BY <2>1, <2>2, OrderedWritten
    <2> QED BY <1>5, <2>1, <2>3 DEF s
  <1> QED BY <1>2, <1>3, <1>4, <1>5

LEMMA QuietStreams ==
  ASSUME IInv, OrderInv, EventInv,
         \/ \E i \in Instance :
              \/ Fork(i) \/ Join(i) \/ ConnectRefused(i) \/ Shutdown(i) \/ ExtSeesClose(i)
              \/ ExtRequest(i) \/ \E c \in Conn : Connect(i, c)
         \/ \E c \in Conn :
              \/ RegisterRefused(c) \/ Register(c) \/ MarkReady(c) \/ BrokerResponse(c)
              \/ BrokerRejectsFrame(c) \/ SupersededTimeout(c) \/ BrokerSeesClose(c) \/ LinkFails(c)
              \/ \E r \in Cmd, ok \in BOOLEAN : ExtResponds(r, c, ok)
         \/ \E r \in Cmd : Issue(r) \/ ConnectTimeout(r) \/ RequestTimeout(r)
         \/ Subscribe \/ Release \/ CloseBroker \/ UNCHANGED vars
  PROVE  EventInv'
  <1> USE DEF IInv, TypeOK, LinkTypeOK, BrokerTypeOK, ExtensionTypeOK, brokerVars, linkVars, extVars,
              socketState, streamVars, procVars, commandVars
  <1>0. LinkTypeOK /\ \A c \in Conn : Ordered(toBroker[c]) /\ c # NoConn
    BY DEF EventInv, Conn, NoConn
  <1>1. ASSUME NEW i \in Instance, Fork(i) \/ Join(i) \/ ConnectRefused(i) \/ Shutdown(i) \/ ExtSeesClose(i) \/ ExtRequest(i)
        PROVE  EventInv'
    <2>1. StreamsKept
      BY <1>1 DEF Fork, Join, ConnectRefused, Shutdown, ExtSeesClose, ExtRequest, ScheduleReconnect, StreamsKept
    <2>2. UNCHANGED <<toBroker, owner, registration>>
      BY <1>1 DEF Fork, Join, ConnectRefused, Shutdown, ExtSeesClose, ExtRequest
    <2> QED BY <1>0, <2>1, <2>2, KeptStreams DEF TrafficKept
  <1>2. ASSUME NEW i \in Instance, NEW c \in Conn, Connect(i, c)
        PROVE  EventInv'
    <2>1. StreamsKept
      BY <1>2 DEF Connect, StreamsKept
    <2>2. /\ UNCHANGED registration /\ toBroker'[c] = Signal("register")
          /\ \A d \in Conn : d # c => toBroker'[d] = toBroker[d] /\ owner'[d] = owner[d]
      BY <1>2 DEF Connect
    <2>3. Events(toBroker'[c]) = {}
      <3> DEFINE x == [type |-> "register"]
      <3>1. x \in Frame /\ x.type # "event" /\ Signal("register") = <<x>>
        BY DEF Frame, Signal
      <3> HIDE DEF x
      <3> QED BY <2>2, <3>1, OrderedFew
    <2>4. \A d \in Conn : Ordered(toBroker'[d]) /\ Events(toBroker'[d]) \subseteq Events(toBroker[d])
      BY <1>0, <2>2, OrderedKept
    <2> QED BY <2>1, <2>2, <2>3, <2>4, KeptStreams DEF TrafficKept
  <1>3. ASSUME NEW c \in Conn, Register(c)
        PROVE  EventInv'
    <2>1. StreamsKept /\ owner' = owner
      BY <1>3 DEF Register, StreamsKept
    <2>2. toBroker[c] # <<>> /\ Head(toBroker[c]).type = "register" /\ Reads(c) /\ toBroker' = Taken(c) /\ registration' = c
      BY <1>3 DEF Register, Takes
    <2>3. \A d \in Conn : Ordered(toBroker'[d]) /\ Events(toBroker'[d]) \subseteq Events(toBroker[d])
      BY <1>0, <2>2, OrderedKept DEF Taken
    <2>4. Events(toBroker'[c]) = {}
      <3>1. 1 \in DOMAIN toBroker[c] /\ toBroker[c][1].type = "register"
        BY <2>2
      <3>2. generation[c] = 0 /\ c \notin ready
        BY <3>1 DEF LinkInv, RegisterFirst
      <3>3. toBroker[c] = Signal("register")
        BY <2>2, <3>2 DEF OrderInv, Fresh
      <3>4. Tail(toBroker[c]) = <<>>
        BY <3>3 DEF Signal
      <3> QED BY <2>2, <3>4, OrderedFew DEF Taken
    <2> QED BY <2>1, <2>2, <2>3, <2>4, KeptStreams DEF TrafficKept
  <1>4. ASSUME NEW c \in Conn, RegisterRefused(c) \/ MarkReady(c) \/ BrokerResponse(c)
        PROVE  EventInv'
    <2>1. StreamsKept /\ UNCHANGED <<owner, registration>> /\ toBroker[c] # <<>> /\ toBroker' = Taken(c)
      BY <1>4 DEF RegisterRefused, MarkReady, BrokerResponse, StreamsKept, Takes
    <2>2. \A d \in Conn : Ordered(toBroker'[d]) /\ Events(toBroker'[d]) \subseteq Events(toBroker[d])
      BY <1>0, <2>1, OrderedKept DEF Taken
    <2> QED BY <2>1, <2>2, KeptStreams DEF TrafficKept
  <1>5. ASSUME NEW c \in Conn, BrokerRejectsFrame(c) \/ SupersededTimeout(c) \/ BrokerSeesClose(c) \/ LinkFails(c)
        PROVE  EventInv'
    <2>1. StreamsKept /\ owner' = owner /\ registration' \in {registration, NoConn}
      BY <1>5 DEF BrokerRejectsFrame, SupersededTimeout, BrokerSeesClose, LinkFails, StreamsKept
    <2>2. \A d \in Conn : toBroker'[d] \in {toBroker[d], <<>>}
      BY <1>5 DEF BrokerRejectsFrame, SupersededTimeout, BrokerSeesClose, LinkFails
    <2>3. \A d \in Conn : Ordered(toBroker'[d]) /\ Events(toBroker'[d]) \subseteq Events(toBroker[d])
      BY <1>0, <2>2, OrderedKept
    <2> QED BY <1>0, <2>1, <2>3, KeptStreams DEF TrafficKept
  <1>6. ASSUME NEW c \in Conn, NEW r \in Cmd, NEW ok \in BOOLEAN, ExtResponds(r, c, ok)
        PROVE  EventInv'
    <2> DEFINE x == [type |-> "response", id |-> r, ok |-> ok]
    <2>1. StreamsKept /\ UNCHANGED <<owner, registration>>
      BY <1>6 DEF ExtResponds, StreamsKept
    <2>2. x \in Frame /\ x.type # "event"
      BY Frames
    <2>3. \A d \in Conn : toBroker'[d] \in {toBroker[d], WrittenToBroker(d, <<x>>)}
      BY <1>6 DEF ExtResponds
    <2> HIDE DEF x
    <2>4. \A d \in Conn : Ordered(toBroker'[d]) /\ Events(toBroker'[d]) \subseteq Events(toBroker[d])
      BY <1>0, <2>2, <2>3, OrderedKept
    <2> QED BY <2>1, <2>4, KeptStreams DEF TrafficKept
  <1>7. ASSUME \/ \E r \in Cmd : Issue(r) \/ ConnectTimeout(r) \/ RequestTimeout(r)
               \/ Subscribe \/ UNCHANGED vars
        PROVE  EventInv'
    <2>1. StreamsKept /\ UNCHANGED <<toBroker, owner, registration>>
      BY <1>7 DEF Issue, ConnectTimeout, RequestTimeout, Subscribe, StreamsKept, vars
    <2> QED BY <1>0, <2>1, KeptStreams DEF TrafficKept
  <1>8. ASSUME Release \/ CloseBroker
        PROVE  EventInv'
    <2>1. StreamsKept /\ owner' = owner /\ registration' = NoConn
      BY <1>8 DEF Release, CloseBroker, Revoked, StreamsKept
    <2>2. \A d \in Conn : toBroker'[d] \in {toBroker[d], <<>>}
      BY <1>8 DEF Release, CloseBroker, Revoked
    <2>3. \A d \in Conn : Ordered(toBroker'[d]) /\ Events(toBroker'[d]) \subseteq Events(toBroker[d])
      BY <1>0, <2>2, OrderedKept
    <2> QED BY <1>0, <2>1, <2>3, KeptStreams DEF TrafficKept
  <1> QED BY <1>1, <1>2, <1>3, <1>4, <1>5, <1>6, <1>7, <1>8

(* A new event is behind all others of its instance. *)
LEMMA EmitStreams ==
  ASSUME IInv, OrderInv, EventInv, NEW i \in Instance, EmitEvent(i)
  PROVE  EventInv'
  <1> USE DEF IInv, TypeOK, LinkTypeOK, ExtensionTypeOK
  <1> DEFINE e == emitted[i] + 1
             x == EventFrame(e)
  <1>1. /\ e \in Nat /\ emitted[i] \in Nat /\ x \in Frame /\ x.type = "event" /\ x.number = e
        /\ emitted' = [emitted EXCEPT ![i] = e] /\ 1..emitted[i] \subseteq 1..e /\ e \in 1..e
    BY Frames DEF EmitEvent, EventFrame
  <1>2. UNCHANGED <<delivered, owner, registration>>
    BY DEF EmitEvent, brokerVars
  <1>3. \A n \in 1..emitted[i] : n < e
    BY <1>1
  <1>4. \A j \in Instance : j # i => emitted'[j] = emitted[j] /\ backlog'[j] = backlog[j]
    BY <1>1 DEF EmitEvent
  <1>5. \A j \in Instance : j # i => KeptBehind(j)'
    BY <1>2, <1>4 DEF EventInv, KeptBehind
  <1>6. KeptBehind(i)
    BY DEF EventInv
  <1>7. CASE registered[i]
    <2> DEFINE d == socket[i]
               s == <<x>>
    <2>1. /\ d \in Conn /\ backlog' = backlog /\ backlog[i] = <<>> /\ owner[d] = i
          /\ toBroker' = [toBroker EXCEPT ![d] = WrittenToBroker(d, s)]
      BY <1>7 DEF EmitEvent, OrderInv, Flushed, LinkInv, OwnSocket
    <2>2. s \in Seq(Frame) /\ Ordered(s) /\ Events(s) = {e}
      BY <1>1, OrderedFew
    <2> HIDE DEF d, s, x, e
    <2>3. InTransit(d, i)
      BY <2>1 DEF EventInv
    <2>4. Before(Events(toBroker[d]), Events(s))
      BY <1>3, <2>2, <2>3 DEF Before, InTransit
    <2>5. LinkTypeOK /\ Ordered(toBroker[d])
      BY <2>1 DEF EventInv
    <2>6. Ordered(toBroker'[d]) /\ Events(toBroker'[d]) \subseteq Events(toBroker[d]) \cup {e}
      <3>1. toBroker'[d] = WrittenToBroker(d, s)
        BY <2>1
      <3>2. Ordered(WrittenToBroker(d, s)) /\ Events(WrittenToBroker(d, s)) \subseteq Events(toBroker[d]) \cup Events(s)
        BY <2>1, <2>2, <2>4, <2>5, OrderedWritten
      <3> QED BY <2>2, <3>1, <3>2
    <2>7. KeptBehind(i)'
      <3>1. UNCHANGED <<delivered, backlog>> /\ emitted'[i] = e
        BY <1>1, <1>2, <2>1
      <3> QED BY <1>1, <1>6, <3>1 DEF KeptBehind
    <2>8. \A c \in Conn : Ordered(toBroker[c])'
      BY <2>1, <2>6 DEF EventInv
    <2>9. ASSUME NEW c \in Conn, NEW j \in Instance, owner'[c] = j PROVE InTransit(c, j)'
      <3>1. CASE c = d
        <4>1. j = i /\ emitted'[i] = e /\ Numbers(backlog'[i]) = {}
          BY <1>1, <1>2, <2>1, <2>9, <3>1 DEF Numbers
        <4>2. Events(toBroker'[d]) \subseteq 1..e
          BY <1>1, <2>3, <2>6 DEF InTransit
        <4>3. Before(Events(toBroker'[d]), Numbers(backlog'[i]))
          BY <4>1 DEF Before
        <4>4. registration = d => Before(Numbers(delivered[i]), Events(toBroker'[d]))
          BY <1>3, <1>6, <2>3, <2>6 DEF Before, InTransit, KeptBehind
        <4> QED BY <1>2, <3>1, <4>1, <4>2, <4>3, <4>4 DEF InTransit
      <3>2. CASE c # d
        <4>1. toBroker'[c] = toBroker[c] /\ InTransit(c, j)
          BY <1>2, <2>1, <2>9, <3>2 DEF EventInv
        <4>3. emitted[j] \in Nat /\ (emitted'[j] = emitted[j] \/ (j = i /\ emitted'[j] = e))
          <5>1. emitted \in [Instance -> 0..MaxEvents] /\ emitted' = [emitted EXCEPT ![i] = e]
            BY <1>1
          <5>2. emitted[j] \in Nat
            BY <5>1, BridgeAssumption
          <5>3. emitted'[j] = emitted[j] \/ (j = i /\ emitted'[j] = e)
            BY <5>1
          <5> QED BY <5>2, <5>3
        <4>2. 1..emitted[j] \subseteq 1..emitted'[j]
          BY <1>1, <4>3
        <4> QED BY <1>2, <2>1, <4>1, <4>2 DEF InTransit
      <3> QED BY <3>1, <3>2
    <2> QED BY <1>5, <2>7, <2>8, <2>9 DEF EventInv
  <1>8. CASE ~registered[i]
    <2> DEFINE s == backlog[i]
               t == Append(s, e)
    <2>1. toBroker' = toBroker /\ backlog'[i] = Retained(t)
      BY <1>8 DEF EmitEvent
    <2>2. s \in Seq(1..MaxEvents) /\ s \in Seq(Nat) /\ Increasing(s) /\ Before(Numbers(s), {e})
      <3>1. s \in Seq(1..MaxEvents)
        OBVIOUS
      <3>2. s \in Seq(Nat)
        BY <3>1, NumbersAreNaturals
      <3> QED BY <1>3, <1>6, <3>1, <3>2 DEF KeptBehind, Before
    <2> HIDE DEF s, e
    <2>3. Increasing(t) /\ Numbers(t) = Numbers(s) \cup {e} /\ t \in Seq(Nat)
      <3>1. e \in Nat
        BY <1>1
      <3> QED BY <2>2, <3>1, IncreasingAppend
    <2> USE DEF s
    <2> HIDE DEF t
    <2>4. Increasing(Retained(t)) /\ Numbers(Retained(t)) \subseteq Numbers(s) \cup {e}
      BY <2>3, RetainedOrder, BridgeAssumption
    <2>5. emitted'[i] = e /\ delivered' = delivered
      BY <1>1, <1>2
    <2>6. KeptBehind(i)'
      <3>1. Increasing(delivered'[i]) /\ Increasing(backlog'[i])
        BY <1>6, <2>1, <2>4, <2>5 DEF KeptBehind
      <3>2. Numbers(delivered'[i]) \cup Numbers(backlog'[i]) \subseteq 1..emitted'[i]
        BY <1>1, <1>6, <2>1, <2>4, <2>5 DEF KeptBehind
      <3>3. Before(Numbers(delivered'[i]), Numbers(backlog'[i]))
        BY <1>3, <1>6, <2>1, <2>4, <2>5 DEF KeptBehind, Before
      <3> QED BY <3>1, <3>2, <3>3 DEF KeptBehind
    <2>7. ASSUME NEW c \in Conn, NEW j \in Instance, owner'[c] = j PROVE InTransit(c, j)'
      <3>1. InTransit(c, j) /\ toBroker'[c] = toBroker[c]
        BY <1>2, <2>1, <2>7 DEF EventInv
      <3>2. CASE j # i
        BY <1>2, <1>4, <3>1, <3>2 DEF InTransit
      <3>3. CASE j = i
        <4>1. Events(toBroker'[c]) \subseteq 1..emitted'[i]
          BY <1>1, <2>5, <3>1, <3>3 DEF InTransit
        <4>2. Before(Events(toBroker'[c]), Numbers(backlog'[i]))
          BY <1>3, <2>1, <2>4, <3>1, <3>3 DEF InTransit, Before
        <4> QED BY <1>2, <2>5, <3>1, <3>3, <4>1, <4>2 DEF InTransit
      <3> QED BY <3>2, <3>3
    <2> QED BY <1>5, <2>1, <2>6, <2>7 DEF EventInv
  <1> QED BY <1>7, <1>8

(* The flush sends the backlog behind what is in transit. *)
LEMMA FlushStreams ==
  ASSUME IInv, OrderInv, EventInv, NEW i \in Instance, ExtRegistered(i)
  PROVE  EventInv'
  <1> USE DEF IInv, TypeOK, LinkTypeOK, ExtensionTypeOK
  <1> DEFINE d == socket[i]
             a == Announcement(i)
  <1>1. /\ d \in Conn /\ owner[d] = i /\ toBroker' = [toBroker EXCEPT ![d] = WrittenToBroker(d, a)]
        /\ backlog' = [backlog EXCEPT ![i] = <<>>]
        /\ UNCHANGED <<delivered, emitted, owner, registration>>
    BY DEF ExtRegistered, Receives, LinkInv, OwnSocket, LeftAfterFlush, brokerVars
  <1>2. KeptBehind(i) /\ InTransit(d, i) /\ LinkTypeOK /\ Ordered(toBroker[d])
    BY <1>1 DEF EventInv
  <1>3. a \in Seq(Frame) /\ Ordered(a) /\ Events(a) = Numbers(backlog[i])
    BY <1>2, AnnouncementType, OrderedAnnouncement DEF KeptBehind
  <1> HIDE DEF a, d
  <1>4. Ordered(toBroker'[d]) /\ Events(toBroker'[d]) \subseteq Events(toBroker[d]) \cup Numbers(backlog[i])
    <2>1. Before(Events(toBroker[d]), Events(a))
      BY <1>2, <1>3 DEF InTransit
    <2>2. toBroker'[d] = WrittenToBroker(d, a)
      BY <1>1
    <2> QED BY <1>1, <1>2, <1>3, <2>1, <2>2, OrderedWritten
  <1>5. Numbers(backlog'[i]) = {} /\ Increasing(backlog'[i])
    BY <1>1 DEF Numbers, Increasing
  <1>6. ASSUME NEW j \in Instance PROVE KeptBehind(j)'
    <2>1. CASE j = i
      BY <1>1, <1>2, <1>5, <2>1 DEF KeptBehind, Before
    <2>2. CASE j # i
      BY <1>1, <2>2 DEF EventInv, KeptBehind
    <2> QED BY <2>1, <2>2
  <1>7. \A c \in Conn : Ordered(toBroker[c])'
    BY <1>1, <1>4 DEF EventInv
  <1>8. ASSUME NEW c \in Conn, NEW j \in Instance, owner'[c] = j PROVE InTransit(c, j)'
    <2>1. CASE c = d
      <3>1. j = i /\ UNCHANGED <<delivered, emitted, registration>>
        BY <1>1, <1>8, <2>1
      <3>2. Events(toBroker'[d]) \subseteq 1..emitted[i]
        BY <1>2, <1>4 DEF InTransit, KeptBehind
      <3>3. registration = d => Before(Numbers(delivered[i]), Events(toBroker'[d]))
        BY <1>2, <1>4 DEF InTransit, KeptBehind, Before
      <3>4. Before(Events(toBroker'[d]), Numbers(backlog'[i]))
        BY <1>5 DEF Before
      <3> QED BY <2>1, <3>1, <3>2, <3>3, <3>4 DEF InTransit
    <2>2. CASE c # d
      <3>1. InTransit(c, j) /\ toBroker'[c] = toBroker[c] /\ UNCHANGED <<delivered, emitted, registration>>
        BY <1>1, <1>8, <2>2 DEF EventInv
      <3>2. backlog'[j] = backlog[j] \/ Numbers(backlog'[j]) = {}
        BY <1>1, <1>5
      <3> QED BY <3>1, <3>2 DEF InTransit, Before
    <2> QED BY <2>1, <2>2
  <1> QED BY <1>6, <1>7, <1>8 DEF EventInv

(* The subscriber is handed the first event in transit. *)
LEMMA DeliverStreams ==
  ASSUME IInv, EventInv, NEW c \in Conn, BrokerEvent(c)
  PROVE  EventInv'
  <1> USE DEF IInv, TypeOK, LinkTypeOK, ExtensionTypeOK, WrapperTypeOK
  <1> DEFINE i == owner[c]
             f == toBroker[c]
             n == Head(toBroker[c]).number
  <1>1. /\ i \in Instance /\ f \in Seq(Frame) /\ f # <<>> /\ Head(f).type = "event" /\ registration = c
        /\ toBroker' = [toBroker EXCEPT ![c] = Tail(f)]
        /\ UNCHANGED <<backlog, emitted, owner, registration>>
    BY DEF BrokerEvent, Takes, Taken, Current, Reads, LinkInv, Unopened, brokerVars, extVars, streamVars
  <1>2. KeptBehind(i) /\ InTransit(c, i) /\ Ordered(f)
    BY <1>1 DEF EventInv
  <1>3. /\ Ordered(Tail(f)) /\ Events(Tail(f)) \subseteq Events(f)
        /\ n \in Events(f) /\ Before({n}, Events(Tail(f)))
    BY <1>1, <1>2, OrderedTail
  <1>4. n \in 1..emitted[i] /\ n \in Nat /\ emitted[i] \in Nat
    BY <1>1, <1>2, <1>3 DEF InTransit
  <1> HIDE DEF n, f, i
  <1>5. delivered' = delivered \/ delivered' = [delivered EXCEPT ![i] = Append(@, n)]
    BY DEF BrokerEvent, n, f, i
  <1>6. /\ Increasing(delivered'[i]) /\ Numbers(delivered'[i]) \subseteq Numbers(delivered[i]) \cup {n}
        /\ \A j \in Instance : j # i => delivered'[j] = delivered[j]
    <2>1. CASE delivered' = delivered
      BY <1>2, <2>1 DEF KeptBehind
    <2>2. CASE delivered' = [delivered EXCEPT ![i] = Append(@, n)]
      <3> DEFINE s == delivered[i]
      <3>1. s \in Seq(Nat)
        <4>1. delivered[i] \in Seq(1..MaxEvents)
          BY <1>1
        <4> QED BY <4>1, NumbersAreNaturals
      <3>2. Increasing(s) /\ Before(Numbers(s), {n})
        BY <1>1, <1>2, <1>3 DEF KeptBehind, InTransit, Before, f
      <3> HIDE DEF s
      <3>3. Increasing(Append(s, n)) /\ Numbers(Append(s, n)) = Numbers(s) \cup {n}
        BY <1>4, <3>1, <3>2, IncreasingAppend
      <3> QED BY <1>1, <2>2, <3>3 DEF s
    <2> QED BY <1>5, <2>1, <2>2
  <1>7. ASSUME NEW j \in Instance PROVE KeptBehind(j)'
    <2>1. CASE j # i
      BY <1>1, <1>6, <2>1 DEF EventInv, KeptBehind
    <2>2. CASE j = i
      <3>1. Numbers(delivered'[i]) \subseteq 1..emitted[i]
        BY <1>2, <1>4, <1>6 DEF KeptBehind
      <3>2. Before(Numbers(delivered'[i]), Numbers(backlog[i]))
        BY <1>2, <1>3, <1>6 DEF KeptBehind, InTransit, Before, f
      <3> QED BY <1>1, <1>2, <1>6, <2>2, <3>1, <3>2 DEF KeptBehind
    <2> QED BY <2>1, <2>2
  <1>8. \A d \in Conn : Ordered(toBroker[d])'
    BY <1>1, <1>3 DEF EventInv
  <1>9. ASSUME NEW d \in Conn, NEW j \in Instance, owner'[d] = j PROVE InTransit(d, j)'
    <2>1. CASE d = c
      <3>1. j = i /\ toBroker'[d] = Tail(f)
        BY <1>1, <1>9, <2>1 DEF i
      <3>2. Events(Tail(f)) \subseteq 1..emitted[i] /\ Before(Events(Tail(f)), Numbers(backlog[i]))
        BY <1>2, <1>3 DEF InTransit, Before, f
      <3>3. Before(Numbers(delivered'[i]), Events(Tail(f)))
        BY <1>1, <1>2, <1>3, <1>6 DEF InTransit, Before, f
      <3> QED BY <1>1, <3>1, <3>2, <3>3 DEF InTransit
    <2>2. CASE d # c
      BY <1>1, <1>9, <2>2 DEF EventInv, InTransit
    <2> QED BY <2>1, <2>2
  <1> QED BY <1>7, <1>8, <1>9 DEF EventInv

LEMMA EventInvariant == IInv /\ OrderInv /\ EventInv /\ [Next]_vars => EventInv'
  BY QuietStreams, EmitStreams, FlushStreams, DeliverStreams DEF Next, StandDown, InstanceDies

LEMMA EventsHold == Spec => []EventInv
  <1>1. Init => EventInv
    <2> SUFFICES ASSUME Init PROVE EventInv
      OBVIOUS
    <2>1. \A i \in Instance : /\ delivered[i] = <<>> /\ backlog[i] = <<>>
                              /\ Numbers(delivered[i]) = {} /\ Numbers(backlog[i]) = {}
      BY DEF Init, Numbers
    <2>2. \A c \in Conn : owner[c] = 0 /\ Ordered(toBroker[c])
      BY DEF Init, Ordered
    <2> QED BY <2>1, <2>2 DEF EventInv, KeptBehind, Increasing, Before, Instance
  <1> QED BY <1>1, EventInvariant, OrderHolds, InvariantHolds, PTL DEF Spec

(* An extension announces its session before it forwards anything, so the   *)
(* broker never takes an event or a response from a registration that is    *)
(* not ready; and the subscriber sees the events of an instance in the      *)
(* order they were emitted, each once, however often the links fail and the *)
(* backlog is flushed on another socket (handleRegistered, flushBacklog).   *)
THEOREM FramesAreInOrder == Spec => []FramesInOrder
  <1>1. EventInv => InOrderOnce
    BY DEF EventInv, KeptBehind, Increasing, InOrderOnce
  <1> QED BY <1>1, ReadyComesFirst, EventsHold, OrderHolds, InvariantHolds, PTL DEF FramesInOrder

=============================================================================
