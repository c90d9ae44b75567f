---------------------------- MODULE NativeBridge ----------------------------
(***************************************************************************)
(* The native bridge of one TUI launch: the broker that the terminal       *)
(* server owns, the extension instances that the Copilot CLI forks inside  *)
(* the TUI, the local sockets between them, and the NativeBridgeProcess    *)
(* wrapper through which the server sends commands.                        *)
(*                                                                         *)
(* Every map of the broker is keyed by the terminal key, and a launch      *)
(* mints a key of its own, so launches share nothing but the broker's      *)
(* `closed' flag: one launch is the whole interesting state.               *)
(*                                                                         *)
(* Extension instances are numbered in the order of their forks, a number  *)
(* may be skipped, and instance i is attached to session i (every /clear   *)
(* forks a new instance on a new session).  Frame contents are reduced to  *)
(* what the protocol reads.  Back-off delays, frame sizes and the          *)
(* `ready-ack' frame, which the extension ignores, are left out.           *)
(***************************************************************************)
EXTENDS Naturals, Sequences, FiniteSets

CONSTANTS
    MaxForks,       \* bound: extension instances the CLI forks
    Nested,         \* instances of a CLI that is not the direct child PTY
    Cmd,            \* programmatic commands submitted through the wrapper
    MaxConn,        \* bound: sockets ever opened
    MaxEvents,      \* bound: session events each instance emits
    MaxDrops,       \* bound: link failures
    MaxBacklog,     \* MAX_EVENT_BACKLOG
    MaxAttempts     \* MAX_UNREGISTERED_CONNECT_ATTEMPTS

Instance == 1..MaxForks
Conn == 1..MaxConn
NoConn == 0

ASSUME BridgeAssumption ==
    /\ MaxForks \in Nat \ {0}
    /\ Nested \subseteq 1..MaxForks
    /\ MaxConn \in Nat
    /\ MaxEvents \in Nat
    /\ MaxDrops \in Nat
    /\ MaxBacklog \in Nat \ {0}
    /\ MaxAttempts \in Nat \ {0}

VARIABLES
    closed,         \* the broker was closed
    credential,     \* credentials.get(key): "live" or "revoked"
    registration,   \* registrations.get(key): the registered socket, or NoConn
    generation,     \* generation given to each socket's registration, 0 if none
    nextGeneration,
    ready,          \* sockets whose registration was marked ready
    waiting,        \* waiters.get(key): commands awaiting a connection, in order
    subscribed,     \* eventListeners.get(key) is not empty
    owner,          \* the instance that opened each socket, 0 if unopened
    brokerEnd,      \* the broker's end of each socket
    extEnd,         \* the extension's end of each socket
    toBroker,       \* frames in flight to the broker
    toExt,          \* frames in flight to the extension
    drops,          \* link failures so far
    phase,          \* life cycle of each instance
    socket,         \* the extension's `socket', or NoConn
    registered,     \* the extension's `registered'
    everRegistered, \* the extension's `everRegistered'
    failedAttempts, \* the extension's `failedConnectAttempts'
    backlog,        \* the extension's `eventBacklog'
    emitted,        \* session events each instance has seen
    procClosed,     \* NativeBridgeProcess.closed
    procSession,    \* NativeBridgeProcess.sessionId
    procGeneration, \* NativeBridgeProcess.lastGeneration
    command,        \* each command's progress
    commandConn,    \* the socket a command was written to
    executing,      \* <<command, socket>> pairs an extension is executing
    executions,     \* how often each command was started by an extension
    delivered       \* events of each instance handed to the subscriber

brokerVars == <<closed, credential, registration, generation, nextGeneration,
                ready, waiting, subscribed>>
linkVars == <<owner, brokerEnd, extEnd, toBroker, toExt, drops>>
socketState == <<socket, registered, everRegistered, failedAttempts>>
streamVars == <<backlog, emitted>>
extVars == <<phase, socketState, streamVars>>
procVars == <<procClosed, procSession, procGeneration>>
commandVars == <<command, commandConn, executing, executions>>
vars == <<brokerVars, linkVars, extVars, procVars, commandVars, delivered>>

Frame == [type : {"register", "ready", "registered", "replaced",
                  "registration-error"}]
         \cup [type : {"event"}, number : 1..MaxEvents]
         \cup [type : {"request"}, id : Cmd]
         \cup [type : {"response"}, id : Cmd, ok : BOOLEAN]

BrokerTypeOK ==
    /\ closed \in BOOLEAN
    /\ credential \in {"live", "revoked"}
    /\ registration \in Conn \cup {NoConn}
    /\ generation \in [Conn -> Nat]
    /\ nextGeneration \in Nat \ {0}
    /\ ready \in SUBSET Conn
    /\ waiting \in Seq(Cmd)
    /\ subscribed \in BOOLEAN

LinkTypeOK ==
    /\ owner \in [Conn -> Instance \cup {0}]
    /\ brokerEnd \in [Conn -> {"none", "open", "ending", "destroyed", "closed"}]
    /\ extEnd \in [Conn -> {"none", "open", "closed"}]
    /\ toBroker \in [Conn -> Seq(Frame)]
    /\ toExt \in [Conn -> Seq(Frame)]
    /\ drops \in Nat

ExtensionTypeOK ==
    /\ phase \in [Instance -> {"unborn", "joining", "dialing", "attached", "gone"}]
    /\ socket \in [Instance -> Conn \cup {NoConn}]
    /\ registered \in [Instance -> BOOLEAN]
    /\ everRegistered \in [Instance -> BOOLEAN]
    /\ failedAttempts \in [Instance -> Nat]
    /\ backlog \in [Instance -> Seq(1..MaxEvents)]
    /\ emitted \in [Instance -> 0..MaxEvents]

(* MAX_EVENT_BACKLOG and MAX_UNREGISTERED_CONNECT_ATTEMPTS are kept. *)
BoundsOK ==
    \A i \in Instance :
        /\ Len(backlog[i]) <= MaxBacklog
        /\ failedAttempts[i] < MaxAttempts \/ phase[i] = "gone"

WrapperTypeOK ==
    /\ procClosed \in BOOLEAN
    /\ procSession \in Instance
    /\ procGeneration \in Nat
    /\ command \in [Cmd -> {"idle", "connecting", "sent", "ok", "failed"}]
    /\ commandConn \in [Cmd -> Conn \cup {NoConn}]
    /\ executing \in SUBSET (Cmd \X Conn)
    /\ executions \in [Cmd -> Nat]
    /\ delivered \in [Instance -> Seq(1..MaxEvents)]

(* Every variable has its type, and the two limits of the extension hold.  *)
TypeOK ==
    /\ BrokerTypeOK
    /\ LinkTypeOK
    /\ ExtensionTypeOK
    /\ BoundsOK
    /\ WrapperTypeOK

Init ==
    /\ closed = FALSE
    /\ credential = "live"
    /\ registration = NoConn
    /\ generation = [c \in Conn |-> 0]
    /\ nextGeneration = 1
    /\ ready = {}
    /\ waiting = <<>>
    /\ subscribed = FALSE
    /\ owner = [c \in Conn |-> 0]
    /\ brokerEnd = [c \in Conn |-> "none"]
    /\ extEnd = [c \in Conn |-> "none"]
    /\ toBroker = [c \in Conn |-> <<>>]
    /\ toExt = [c \in Conn |-> <<>>]
    /\ drops = 0
    /\ phase = [i \in Instance |-> "unborn"]
    /\ socket = [i \in Instance |-> NoConn]
    /\ registered = [i \in Instance |-> FALSE]
    /\ everRegistered = [i \in Instance |-> FALSE]
    /\ failedAttempts = [i \in Instance |-> 0]
    /\ backlog = [i \in Instance |-> <<>>]
    /\ emitted = [i \in Instance |-> 0]
    /\ procClosed = FALSE
    /\ procSession = 1
    /\ procGeneration = 0
    /\ command = [r \in Cmd |-> "idle"]
    /\ commandConn = [r \in Cmd |-> NoConn]
    /\ executing = {}
    /\ executions = [r \in Cmd |-> 0]
    /\ delivered = [i \in Instance |-> <<>>]

-----------------------------------------------------------------------------
(* Frames and ends of a socket.  A frame written to a socket whose other   *)
(* end is gone, or whose own end is already ending, is lost.               *)

Reads(c) == brokerEnd[c] \in {"open", "ending"}

WrittenToExt(c, frames) ==
    IF brokerEnd[c] = "open" /\ extEnd[c] = "open" THEN toExt[c] \o frames ELSE toExt[c]

WrittenToBroker(c, frames) ==
    IF Reads(c) /\ extEnd[c] = "open" THEN toBroker[c] \o frames ELSE toBroker[c]

Signal(type) == <<[type |-> type]>>
Request(r) == [type |-> "request", id |-> r]
EventFrame(n) == [type |-> "event", number |-> n]

(* The broker's data callback takes the next complete frame of socket c. *)
Takes(c, type) ==
    /\ Reads(c)
    /\ toBroker[c] # <<>>
    /\ Head(toBroker[c]).type = type

Taken(c) == [toBroker EXCEPT ![c] = Tail(@)]

(* The frames of socket c an extension instance reads next. *)
Receives(i, types) ==
    /\ socket[i] # NoConn
    /\ toExt[socket[i]] # <<>>
    /\ Head(toExt[socket[i]]).type \in types

-----------------------------------------------------------------------------
(* Bookkeeping of the broker.                                              *)

(* registration.pending of socket c.  (Mutant: the requests of a socket    *)
(* that is about to go are forgotten when another one takes over.)         *)
PendingIfCurrent(c) ==
    {r \in Cmd : c = registration /\ c \in ready /\ brokerEnd[c] = "open"
                  /\ command[r] = "sent" /\ commandConn[r] = c}

Pending(c) == {r \in Cmd : command[r] = "sent" /\ commandConn[r] = c}

Connecting == {r \in Cmd : command[r] = "connecting"}

(* rejectPending and rejectWaiters: every command of rs fails. *)
Failed(rs) == [r \in Cmd |-> IF r \in rs THEN "failed" ELSE command[r]]

(* The credential check of registerSocket: token and claimed parent pid. *)
Authorised(i) == credential = "live" /\ i \notin Nested

(* Events and responses are honoured only on the current, ready registration. *)
Current(c) == registration = c /\ c \in ready

(* observeConnection ignores a registration older than the one it knows. *)
(* (Mutant: comparing sessions instead of generations.)                  *)
ObservesNewSession(c) == ~procClosed /\ owner[c] # procSession

Observes(c) == ~procClosed /\ generation[c] > procGeneration

-----------------------------------------------------------------------------
(* The extension process.                                                  *)

Fork(i) ==
    /\ ~procClosed
    /\ phase[i] = "unborn"
    /\ \A j \in i..MaxForks : phase[j] = "unborn"
    /\ phase' = [phase EXCEPT ![i] = "joining"]
    /\ UNCHANGED <<brokerVars, linkVars, socketState, streamVars, procVars,
                   commandVars, delivered>>

(* joinBridgeSession resolves and connect() is called. *)
Join(i) ==
    /\ phase[i] = "joining"
    /\ phase' = [phase EXCEPT ![i] = "dialing"]
    /\ UNCHANGED <<brokerVars, linkVars, socketState, streamVars, procVars,
                   commandVars, delivered>>

(* A connection attempt: the socket opens and the register frame goes out. *)
Connect(i, c) ==
    /\ phase[i] = "dialing"
    /\ ~closed
    /\ owner[c] = 0
    /\ \A d \in 1..(c - 1) : owner[d] # 0
    /\ owner' = [owner EXCEPT ![c] = i]
    /\ brokerEnd' = [brokerEnd EXCEPT ![c] = "open"]
    /\ extEnd' = [extEnd EXCEPT ![c] = "open"]
    /\ toBroker' = [toBroker EXCEPT ![c] = Signal("register")]
    /\ phase' = [phase EXCEPT ![i] = "attached"]
    /\ socket' = [socket EXCEPT ![i] = c]
    /\ UNCHANGED <<brokerVars, toExt, drops, registered, everRegistered,
                   failedAttempts, streamVars, procVars, commandVars, delivered>>

(* scheduleReconnect: give up only while this instance never registered. *)
(* (Mutant: one attempt too many.)                                       *)
GivesUpLate(i) == ~everRegistered[i] /\ failedAttempts[i] + 1 > MaxAttempts

GivesUp(i) == ~everRegistered[i] /\ failedAttempts[i] + 1 >= MaxAttempts

ScheduleReconnect(i) ==
    /\ failedAttempts' = [failedAttempts EXCEPT ![i] = IF everRegistered[i] THEN @ ELSE @ + 1]
    /\ phase' = [phase EXCEPT ![i] = IF GivesUp(i) THEN "gone" ELSE "dialing"]
    /\ backlog' = [backlog EXCEPT ![i] = IF GivesUp(i) THEN <<>> ELSE @]
    /\ UNCHANGED <<everRegistered, emitted>>

ConnectRefused(i) ==
    /\ phase[i] = "dialing"
    /\ closed
    /\ ScheduleReconnect(i)
    /\ UNCHANGED <<brokerVars, linkVars, socket, registered, procVars,
                   commandVars, delivered>>

(* shutdown(): stand down for good, with whatever is still executing. *)
Shutdown(i) ==
    /\ phase' = [phase EXCEPT ![i] = "gone"]
    /\ socket' = [socket EXCEPT ![i] = NoConn]
    /\ registered' = [registered EXCEPT ![i] = FALSE]
    /\ backlog' = [backlog EXCEPT ![i] = <<>>]
    /\ extEnd' = [c \in Conn |-> IF c = socket[i] THEN "closed" ELSE extEnd[c]]
    /\ toExt' = [c \in Conn |-> IF c = socket[i] THEN <<>> ELSE toExt[c]]
    /\ executing' = {e \in executing : owner[e[2]] # i}
    /\ UNCHANGED <<brokerVars, owner, brokerEnd, toBroker, drops, everRegistered,
                   failedAttempts, emitted, procVars, command, commandConn,
                   executions, delivered>>

StandDown(i) ==
    /\ Receives(i, {"replaced", "registration-error"})
    /\ Shutdown(i)

(* The CLI terminates the instance, or it crashes, or joining fails. *)
InstanceDies(i) ==
    /\ phase[i] \in {"joining", "dialing", "attached"}
    /\ Shutdown(i)

(* `registered' arrives: announce the session, then flush the backlog.     *)
(* (Mutants: flushed before announcing; announced on the first time only;  *)
(* the backlog kept after its flush.)                                      *)
BacklogFrames(i) == [n \in DOMAIN backlog[i] |-> EventFrame(backlog[i][n])]

FlushThenAnnounce(i) == BacklogFrames(i) \o Signal("ready")

AnnounceOnce(i) ==
    (IF everRegistered[i] THEN <<>> ELSE Signal("ready")) \o BacklogFrames(i)

Announcement(i) == Signal("ready") \o BacklogFrames(i)

KeptAfterFlush(i) == backlog[i]

LeftAfterFlush(i) == <<>>

ExtRegistered(i) ==
    LET c == socket[i] IN
    /\ Receives(i, {"registered"})
    /\ registered' = [registered EXCEPT ![i] = TRUE]
    /\ everRegistered' = [everRegistered EXCEPT ![i] = TRUE]
    /\ failedAttempts' = [failedAttempts EXCEPT ![i] = 0]
    /\ toExt' = [toExt EXCEPT ![c] = Tail(@)]
    /\ toBroker' = [toBroker EXCEPT ![c] = WrittenToBroker(c, Announcement(i))]
    /\ backlog' = [backlog EXCEPT ![i] = LeftAfterFlush(i)]
    /\ UNCHANGED <<brokerVars, owner, brokerEnd, extEnd, drops, phase, socket,
                   emitted, procVars, commandVars, delivered>>

(* The socket's close event on the extension's side. *)
ExtSeesClose(i) ==
    LET c == socket[i] IN
    /\ c # NoConn
    /\ brokerEnd[c] # "open"
    /\ toExt[c] = <<>>
    /\ extEnd' = [extEnd EXCEPT ![c] = "closed"]
    /\ socket' = [socket EXCEPT ![i] = NoConn]
    /\ registered' = [registered EXCEPT ![i] = FALSE]
    /\ ScheduleReconnect(i)
    /\ UNCHANGED <<brokerVars, owner, brokerEnd, toBroker, toExt, drops,
                   procVars, commandVars, delivered>>

(* The backlog keeps the newest MAX_EVENT_BACKLOG events. *)
Retained(events) ==
    IF Len(events) > MaxBacklog THEN Tail(events) ELSE events

(* A session event: forwarded while registered, kept in the backlog otherwise. *)
EmitEvent(i) ==
    LET n == emitted[i] + 1
        c == socket[i] IN
    /\ phase[i] \in {"dialing", "attached"}
    /\ n <= MaxEvents
    /\ emitted' = [emitted EXCEPT ![i] = n]
    /\ \/ /\ registered[i]
          /\ toBroker' = [toBroker EXCEPT ![c] = WrittenToBroker(c, <<EventFrame(n)>>)]
          /\ UNCHANGED backlog
       \/ /\ ~registered[i]
          /\ backlog' = [backlog EXCEPT ![i] = Retained(Append(@, n))]
          /\ UNCHANGED toBroker
    /\ UNCHANGED <<brokerVars, owner, brokerEnd, extEnd, toExt, drops, phase,
                   socketState, procVars, commandVars, delivered>>

(* executeCommand is started for a request; requests may overlap. *)
ExtRequest(i) ==
    LET c == socket[i] IN
    /\ Receives(i, {"request"})
    /\ toExt' = [toExt EXCEPT ![c] = Tail(@)]
    /\ LET r == Head(toExt[c]).id IN
       /\ executing' = executing \cup {<<r, c>>}
       /\ executions' = [executions EXCEPT ![r] = @ + 1]
    /\ UNCHANGED <<brokerVars, owner, brokerEnd, extEnd, toBroker, drops, extVars,
                   procVars, command, commandConn, delivered>>

(* The command settles; its response is lost if that socket is gone. *)
ExtResponds(r, c, ok) ==
    /\ <<r, c>> \in executing
    /\ executing' = executing \ {<<r, c>>}
    /\ toBroker' = [toBroker EXCEPT ![c] =
                      WrittenToBroker(c, <<[type |-> "response", id |-> r, ok |-> ok]>>)]
    /\ UNCHANGED <<brokerVars, owner, brokerEnd, extEnd, toExt, drops, extVars,
                   procVars, command, commandConn, executions, delivered>>

-----------------------------------------------------------------------------
(* The broker.                                                             *)

(* registerSocket, refused: an error frame and an orderly end.  (Mutant:   *)
(* it just returns.)                                                       *)
RegisterIgnored(c) ==
    /\ Takes(c, "register")
    /\ ~Authorised(owner[c])
    /\ toBroker' = Taken(c)
    /\ UNCHANGED <<brokerVars, owner, brokerEnd, extEnd, toExt, drops, extVars,
                   procVars, commandVars, delivered>>

RegisterRefused(c) ==
    /\ Takes(c, "register")
    /\ ~Authorised(owner[c])
    /\ toBroker' = Taken(c)
    /\ toExt' = [toExt EXCEPT ![c] = WrittenToExt(c, Signal("registration-error"))]
    /\ brokerEnd' = [brokerEnd EXCEPT ![c] = "ending"]
    /\ UNCHANGED <<brokerVars, owner, extEnd, drops, extVars, procVars,
                   commandVars, delivered>>

(* registerSocket: the newcomer replaces a registration, which is told so. *)
(* (Mutant: the notice goes to the newcomer.)                              *)
MisdirectedReplies(c, previous) ==
    IF previous = NoConn
    THEN [toExt EXCEPT ![c] = WrittenToExt(c, Signal("registered"))]
    ELSE [toExt EXCEPT ![c] = WrittenToExt(c, Signal("registered") \o Signal("replaced"))]

RegisterReplies(c, previous) ==
    [d \in Conn |->
        IF d = c THEN WrittenToExt(c, Signal("registered"))
        ELSE IF d = previous THEN WrittenToExt(d, Signal("replaced"))
        ELSE toExt[d]]

Register(c) ==
    LET previous == registration IN
    /\ Takes(c, "register")
    /\ Authorised(owner[c])
    /\ registration' = c
    /\ generation' = [generation EXCEPT ![c] = nextGeneration]
    /\ nextGeneration' = nextGeneration + 1
    /\ command' = Failed(Pending(previous))
    /\ toBroker' = Taken(c)
    /\ toExt' = RegisterReplies(c, previous)
    /\ brokerEnd' = [d \in Conn |->
                        IF d = previous /\ brokerEnd[d] = "open" THEN "ending" ELSE brokerEnd[d]]
    /\ UNCHANGED <<closed, credential, ready, waiting, subscribed, owner, extEnd,
                   drops, extVars, procVars, commandConn, executing, executions,
                   delivered>>

(* markReady: waiting commands are sent in order, the wrapper is notified. *)
MarkReady(c) ==
    /\ Takes(c, "ready")
    /\ registration = c
    /\ ready' = ready \cup {c}
    /\ waiting' = <<>>
    /\ command' = [r \in Cmd |-> IF r \in Connecting THEN "sent" ELSE command[r]]
    /\ commandConn' = [r \in Cmd |-> IF r \in Connecting THEN c ELSE commandConn[r]]
    /\ toExt' = [toExt EXCEPT ![c] =
                    WrittenToExt(c, [n \in DOMAIN waiting |-> Request(waiting[n])])]
    /\ toBroker' = Taken(c)
    /\ procSession' = IF Observes(c) THEN owner[c] ELSE procSession
    /\ procGeneration' = IF Observes(c) THEN generation[c] ELSE procGeneration
    /\ UNCHANGED <<closed, credential, registration, generation, nextGeneration,
                   subscribed, owner, brokerEnd, extEnd, drops, extVars,
                   procClosed, executing, executions, delivered>>

BrokerEvent(c) ==
    LET i == owner[c] IN
    /\ Takes(c, "event")
    /\ Current(c)
    /\ toBroker' = Taken(c)
    /\ delivered' = IF subscribed
                    THEN [delivered EXCEPT ![i] = Append(@, Head(toBroker[c]).number)]
                    ELSE delivered
    /\ UNCHANGED <<brokerVars, owner, brokerEnd, extEnd, toExt, drops, extVars,
                   procVars, commandVars>>

(* handleResponse: a response nobody waits for any more is ignored.        *)
(* (Mutant: it settles its command whatever became of it.)                 *)
SettlesLate(c, r) == commandConn[r] = c

Settles(c, r) == r \in Pending(c)

BrokerResponse(c) ==
    LET response == Head(toBroker[c]) IN
    /\ Takes(c, "response")
    /\ Current(c)
    /\ toBroker' = Taken(c)
    /\ command' = [r \in Cmd |-> IF r = response.id /\ Settles(c, r)
                                 THEN IF response.ok THEN "ok" ELSE "failed"
                                 ELSE command[r]]
    /\ UNCHANGED <<brokerVars, owner, brokerEnd, extEnd, toExt, drops, extVars,
                   procVars, commandConn, executing, executions, delivered>>

(* A frame on a superseded socket, or before its `ready', destroys it. *)
BrokerRejectsFrame(c) ==
    /\ Reads(c)
    /\ toBroker[c] # <<>>
    /\ generation[c] # 0
    /\ \/ registration # c
       \/ c \notin ready /\ Head(toBroker[c]).type \in {"event", "response"}
    /\ brokerEnd' = [brokerEnd EXCEPT ![c] = "destroyed"]
    /\ toBroker' = [toBroker EXCEPT ![c] = <<>>]
    /\ UNCHANGED <<brokerVars, owner, extEnd, toExt, drops, extVars, procVars,
                   commandVars, delivered>>

(* The one-second timer that destroys a superseded socket. *)
SupersededTimeout(c) ==
    /\ brokerEnd[c] = "ending"
    /\ generation[c] # 0
    /\ brokerEnd' = [brokerEnd EXCEPT ![c] = "destroyed"]
    /\ toBroker' = [toBroker EXCEPT ![c] = <<>>]
    /\ UNCHANGED <<brokerVars, owner, extEnd, toExt, drops, extVars, procVars,
                   commandVars, delivered>>

(* The close event forgets the registration, if it is still this socket's. *)
(* (Mutant: it forgets whatever is registered.)                            *)
ForgetsAny(c) == registration # NoConn /\ generation[c] # 0

Forgets(c) == registration = c

BrokerSeesClose(c) ==
    /\ \/ brokerEnd[c] = "destroyed"
       \/ Reads(c) /\ extEnd[c] = "closed" /\ toBroker[c] = <<>>
    /\ brokerEnd' = [brokerEnd EXCEPT ![c] = "closed"]
    /\ registration' = IF Forgets(c) THEN NoConn ELSE registration
    /\ command' = Failed(IF Forgets(c) THEN Pending(c) ELSE {})
    /\ UNCHANGED <<closed, credential, generation, nextGeneration, ready, waiting,
                   subscribed, owner, extEnd, toBroker, toExt, drops, extVars,
                   procVars, commandConn, executing, executions, delivered>>

(* Either end destroys the socket (I/O error, oversized or malformed data): *)
(* whatever is in flight is lost.                                           *)
LinkFails(c) ==
    /\ drops < MaxDrops
    /\ extEnd[c] = "open"
    /\ drops' = drops + 1
    /\ brokerEnd' = [brokerEnd EXCEPT ![c] = IF @ = "closed" THEN @ ELSE "destroyed"]
    /\ toBroker' = [toBroker EXCEPT ![c] = <<>>]
    /\ toExt' = [toExt EXCEPT ![c] = <<>>]
    /\ UNCHANGED <<brokerVars, owner, extEnd, extVars, procVars, commandVars,
                   delivered>>

-----------------------------------------------------------------------------
(* The wrapper: commands, subscription, release.                           *)

Issue(r) ==
    /\ command[r] = "idle"
    /\ \/ /\ procClosed \/ closed
          /\ command' = [command EXCEPT ![r] = "failed"]
          /\ UNCHANGED <<waiting, commandConn, toExt>>
       \/ /\ ~procClosed
          /\ registration \in ready
          /\ command' = [command EXCEPT ![r] = "sent"]
          /\ commandConn' = [commandConn EXCEPT ![r] = registration]
          /\ toExt' = [toExt EXCEPT ![registration] =
                          WrittenToExt(registration, <<Request(r)>>)]
          /\ UNCHANGED waiting
       \/ /\ ~procClosed
          /\ ~closed
          /\ registration \notin ready
          /\ command' = [command EXCEPT ![r] = "connecting"]
          /\ waiting' = Append(waiting, r)
          /\ UNCHANGED <<commandConn, toExt>>
    /\ UNCHANGED <<closed, credential, registration, generation, nextGeneration,
                   ready, subscribed, owner, brokerEnd, extEnd, toBroker, drops,
                   extVars, procVars, executing, executions, delivered>>

(* waitForConnection's timer. *)
ConnectTimeout(r) ==
    /\ command[r] = "connecting"
    /\ command' = [command EXCEPT ![r] = "failed"]
    /\ \E n \in DOMAIN waiting :
          /\ waiting[n] = r
          /\ waiting' = [m \in 1..(Len(waiting) - 1) |->
                            waiting[IF m < n THEN m ELSE m + 1]]
    /\ UNCHANGED <<closed, credential, registration, generation, nextGeneration,
                   ready, subscribed, linkVars, extVars, procVars, commandConn,
                   executing, executions, delivered>>

(* The request's timer, or the error callback of its write. *)
RequestTimeout(r) ==
    /\ command[r] = "sent"
    /\ command' = [command EXCEPT ![r] = "failed"]
    /\ UNCHANGED <<brokerVars, linkVars, extVars, procVars, commandConn,
                   executing, executions, delivered>>

(* The event source subscribes; its start is deferred and can come late. *)
Subscribe ==
    /\ ~closed
    /\ ~subscribed
    /\ subscribed' = TRUE
    /\ UNCHANGED <<closed, credential, registration, generation, nextGeneration,
                   ready, waiting, linkVars, extVars, procVars, commandVars,
                   delivered>>

(* What a revocation rejects.  (Mutant: the waiters are left behind.) *)
OutstandingRequests == Pending(registration)

Outstanding == Pending(registration) \cup Connecting

(* Revocation, shared by unregister and close: the registration's requests *)
(* and the waiters fail, and the sockets of cs are destroyed.              *)
Revoked(cs) ==
    /\ credential' = "revoked"
    /\ registration' = NoConn
    /\ waiting' = <<>>
    /\ subscribed' = FALSE
    /\ command' = Failed(Outstanding)
    /\ brokerEnd' = [c \in Conn |-> IF c \in cs THEN "destroyed" ELSE brokerEnd[c]]
    /\ toBroker' = [c \in Conn |-> IF c \in cs THEN <<>> ELSE toBroker[c]]
    /\ UNCHANGED <<generation, nextGeneration, ready, owner, extEnd, toExt, drops,
                   extVars, procSession, procGeneration, commandConn, executing,
                   executions, delivered>>

(* kill() or the TUI's exit: release() and the broker's unregister(). *)
Release ==
    /\ ~procClosed
    /\ procClosed' = TRUE
    /\ Revoked({registration} \ {NoConn})
    /\ UNCHANGED closed

(* close(): every socket goes, also those that never registered. *)
CloseBroker ==
    /\ ~closed
    /\ closed' = TRUE
    /\ Revoked({c \in Conn : Reads(c)})
    /\ UNCHANGED procClosed

Next ==
    \/ \E i \in Instance :
          \/ Fork(i) \/ Join(i) \/ ConnectRefused(i) \/ StandDown(i) \/ InstanceDies(i)
          \/ ExtRegistered(i) \/ ExtSeesClose(i) \/ EmitEvent(i) \/ ExtRequest(i)
          \/ \E c \in Conn : Connect(i, c)
    \/ \E c \in Conn :
          \/ RegisterRefused(c) \/ Register(c) \/ MarkReady(c) \/ BrokerEvent(c)
          \/ BrokerResponse(c) \/ BrokerRejectsFrame(c) \/ SupersededTimeout(c)
          \/ BrokerSeesClose(c) \/ LinkFails(c)
          \/ \E r \in Cmd, ok \in BOOLEAN : ExtResponds(r, c, ok)
    \/ \E r \in Cmd : Issue(r) \/ ConnectTimeout(r) \/ RequestTimeout(r)
    \/ Subscribe \/ Release \/ CloseBroker

Spec == Init /\ [][Next]_vars

(* What Node's event loops guarantee: data and close callbacks run, timers *)
(* fire, and an unterminated extension dials again.  Forks, joins, events, *)
(* commands, failures and shutdowns are the environment's choice.          *)
Fairness ==
    /\ \A i \in Instance :
          /\ WF_vars(ConnectRefused(i) \/ \E c \in Conn : Connect(i, c))
          /\ WF_vars(StandDown(i) \/ ExtRegistered(i) \/ ExtRequest(i) \/ ExtSeesClose(i))
    /\ \A c \in Conn :
          /\ WF_vars(RegisterRefused(c) \/ Register(c) \/ MarkReady(c) \/ BrokerEvent(c)
                       \/ BrokerResponse(c) \/ BrokerRejectsFrame(c))
          /\ WF_vars(BrokerSeesClose(c))
          /\ WF_vars(SupersededTimeout(c))

FairSpec == Spec /\ Fairness

-----------------------------------------------------------------------------
(* Safety.                                                                 *)

(* A command that was written and not settled waits on the socket that is  *)
(* the broker's current registration: replacement, close, revocation and   *)
(* shutdown each fail what was pending, so no caller hangs on a dead       *)
(* socket until its timer (registerSocket, acceptSocket, unregister).      *)
PendingOnLiveRegistration ==
    \A r \in Cmd : command[r] = "sent" =>
        /\ commandConn[r] = registration
        /\ registration \in ready

(* A command waits for a connection only while one may still come: the     *)
(* credentials are live, no registration is ready (it would have resolved  *)
(* the waiter), and its place in the queue is its own.                     *)
WaitersAwaitReadiness ==
    /\ waiting # <<>> => credential = "live" /\ ~closed /\ registration \notin ready
    /\ Connecting = {waiting[n] : n \in DOMAIN waiting}
    /\ \A m, n \in DOMAIN waiting : waiting[m] = waiting[n] => m = n

(* Nobody waits for what cannot come any more.                             *)
NobodyIsStranded == PendingOnLiveRegistration /\ WaitersAwaitReadiness

(* While the TUI lives and its bridge is ready, the wrapper and the broker *)
(* agree on the session the TUI is attached to and on its generation, over *)
(* reconnections, replacements and late registrations (observeConnection). *)
SessionAgreement ==
    ~procClosed /\ registration \in ready =>
        /\ procSession = owner[registration]
        /\ procGeneration = generation[registration]

(* The first frame the broker takes from a fresh registration is `ready':  *)
(* an event or a response that overtook it would destroy the socket        *)
(* ("Native bridge session is not ready").                                 *)
ReadyFirst ==
    \A c \in Conn :
        (registration = c /\ c \notin ready /\ Reads(c) /\ toBroker[c] # <<>>)
            => Head(toBroker[c]).type = "ready"

(* An instance is told to stand down for good only because another         *)
(* instance registered after it, never because of its own reconnection.    *)
OnlyAnotherInstanceRetires ==
    \A i \in Instance : Receives(i, {"replaced"}) =>
        \E d \in Conn : /\ generation[d] > generation[socket[i]]
                        /\ owner[d] # i

(* The subscriber sees the events of an instance in the order they were    *)
(* emitted and none twice, whether they were sent at once or kept in the   *)
(* backlog over a reconnection.                                            *)
InOrderOnce ==
    \A i \in Instance : \A m, n \in DOMAIN delivered[i] :
        m < n => delivered[i][m] < delivered[i][n]

(* Frames are taken in the order they make sense in.                       *)
FramesInOrder == ReadyFirst /\ InOrderOnce

(* The commands behave as the callers of the bridge are promised.          *)
Channel == INSTANCE CommandChannel WITH
    Call <- Cmd,
    outcome <- [r \in Cmd |->
                  IF command[r] = "idle" THEN "none"
                  ELSE IF command[r] \in {"connecting", "sent"} THEN "pending"
                  ELSE command[r]],
    runs <- executions

(* Every call settles at most once, its command is started at most once,   *)
(* and it succeeds only if it was started: a response that arrives after   *)
(* a timeout, a replacement or a kill changes nothing (handleResponse).    *)
CommandsKeepTheirPromise == Channel!Spec

(* registerSocket's comment: a superseded instance is told "to stand down  *)
(* instead of reconnecting and re-registering its stale session over the   *)
(* new one".  So an instance that registered before never takes the        *)
(* registration over from one that was forked after it.                    *)
StaleSessionNeverReRegisters ==
    [][\A i, j \in Instance :
          (registration # NoConn /\ owner[registration] = j /\ i < j /\ everRegistered[i])
              => ~(registration' # registration /\ registration' # NoConn
                     /\ owner[registration'] = i)]_vars

-----------------------------------------------------------------------------
(* Liveness.                                                               *)

(* An instance whose registration would be refused, because a kill or the  *)
(* TUI's exit revoked the credentials or because it belongs to a nested    *)
(* CLI, stands down instead of dialing for ever (registration-error).      *)
RefusedInstancesStandDown ==
    \A i \in Instance :
        (~Authorised(i) /\ phase[i] \in {"dialing", "attached"})
            ~> (phase[i] = "gone" \/ closed)

(* While a genuine instance of a living TUI runs, the bridge becomes ready *)
(* again after every lost link or replacement.                             *)
BridgeRecovers ==
    \A i \in Instance \ Nested :
        phase[i] \in {"dialing", "attached"}
            ~> (registration \in ready \/ phase[i] = "gone" \/ procClosed \/ closed)

(* Every instance comes to rest: stood down, or in service.                *)
InstancesComeToRest == RefusedInstancesStandDown /\ BridgeRecovers

=============================================================================
