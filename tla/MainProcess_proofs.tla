------------------------- MODULE MainProcess_proofs -------------------------
(***************************************************************************)
(* Safety of three parts of the main process for any number of requests,   *)
(* servers, pseudo-terminals, calls, prompts and posts: the relay to the   *)
(* terminal server, the operations on an agent, and the turns of an        *)
(* agent's thread.                                                         *)
(***************************************************************************)
EXTENDS ServerRelay, AgentOperations, TeamsDispatch, SequenceTheorems, TLAPS

-----------------------------------------------------------------------------
(***************************************************************************)
(* ServerRelay.                                                            *)
(*                                                                         *)
(* A request is handed over once, while its caller waits, since what waits *)
(* in the queue was never sent and what was answered is no longer pending  *)
(* (CallsInv).  A process that outlived its server is found again because  *)
(* the registry has a record of every live process that was recorded, the  *)
(* server being up or not (SpawnedInv), and nothing else is killed because *)
(* its records are about processes of the office (RecordsInv).             *)
(***************************************************************************)

(* What waits in the queue was not sent, and nobody waits for the rest.     *)
CallsInv ==
    \A r \in Request :
        /\ r \in pendingRequests => req[r] = "waiting"
        /\ r \in queuedRequests => handed[r] = 0 /\ req[r] # "idle"
        /\ req[r] = "idle" => handed[r] = 0

(* A pseudo-terminal lives until it is recorded, as its server does, and    *)
(* has its record as long as it lives.                                      *)
Tracked(p) ==
    LET pty == ptys[p] IN
    /\ pty.server \in Server /\ procs[pty.server].state # "booting"
    /\ ~pty.recorded /\ procs[pty.server].state = "up" => os[pty.pid] = p
    /\ pty.recorded /\ os[pty.pid] = p => [pid |-> pty.pid, of |-> p] \in registry
SpawnedInv == \A p \in DOMAIN ptys : Tracked(p)

(* A record is about a pseudo-terminal that had its pid.                    *)
RecordsInv ==
    \A r \in registry : r.of \in DOMAIN ptys /\ ptys[r.of].recorded /\ ptys[r.of].pid = r.pid

RelayInv == RelayTypeOK /\ CallsInv /\ SpawnedInv /\ RecordsInv /\ ~unrelated

(* A server that is not up is up no more, but when it boots.                *)
Ages(ps, qs) ==
    /\ Len(ps) <= Len(qs)
    /\ \A s \in DOMAIN ps : /\ qs[s].state = "booting" => ps[s].state = "booting"
                            /\ qs[s].state = "up" => ps[s].state # "dead"
HandoverIsWanted ==
    \A r \in Request : handed'[r] # handed[r] => handed'[r] = 1 /\ req'[r] = "waiting"
AppTypes ==
    /\ phase \in {"starting", "running", "quitting", "gone"}
    /\ window \in {"none", "open", "closed"}
    /\ pendingHardReload \in BOOLEAN /\ shuttingDown \in BOOLEAN
ServerTypes == procs \in Seq(Process) /\ server \in Server \cup {NoServer}
CallTypes ==
    /\ pendingRequests \subseteq Request /\ queuedRequests \subseteq Request
    /\ req \in [Request -> {"idle", "waiting"} \cup Outcome]
    /\ handed \in [Request -> Nat] /\ dropped \subseteq Request
PtyTypes ==
    /\ ptys \in Seq(Terminal) /\ Len(ptys) <= MaxPtys
    /\ os \in [Pid -> 0..Other] /\ unrelated \in BOOLEAN
    /\ registry \subseteq [pid : Pid, of : 1..MaxPtys]
    /\ budget \in [crashes : Nat, reloads : Nat, failures : Nat]

(* The types, part by part.                                                 *)
LEMMA RelayTypes ==
  RelayTypeOK <=> AppTypes /\ ServerTypes /\ CallTypes /\ PtyTypes
  BY DEF RelayTypeOK, AppTypes, ServerTypes, CallTypes, PtyTypes

-----------------------------------------------------------------------------
(* The servers.                                                             *)

(* One server changes, and it does not come back to life.                   *)
LEMMA OneServer ==
  ASSUME NEW ps \in Seq(Process), NEW s \in DOMAIN ps, NEW x \in Process, NEW qs,
         qs = [ps EXCEPT ![s] = x],
         x.state = "booting" => ps[s].state = "booting",
         x.state = "up" => ps[s].state # "dead"
  PROVE  qs \in Seq(Process) /\ DOMAIN qs = DOMAIN ps /\ Ages(ps, qs) /\ qs[s] = x
  <1>1. qs \in Seq(Process) /\ Len(qs) = Len(ps) /\ DOMAIN qs = DOMAIN ps
    OBVIOUS
  <1>2. \A t \in DOMAIN ps : qs[t] = IF t = s THEN x ELSE ps[t]
    OBVIOUS
  <1> QED BY <1>1, <1>2 DEF Ages

(* A server is forked, which is booting and is the one that messages reach. *)
LEMMA NewFork ==
  ASSUME NEW ps \in Seq(Process), SpawnServer(ps), procs \in Seq(Process),
         Ages(procs, ps), DOMAIN ps = DOMAIN procs
  PROVE  ServerTypes' /\ Ages(procs, procs')
  <1>1. NewServer \in Process
    BY EmptySeq DEF NewServer, Process
  <1>2. procs' \in Seq(Process) /\ Len(procs') = Len(ps) + 1
        /\ \A t \in DOMAIN ps : procs'[t] = ps[t]
    BY <1>1, AppendProperties DEF SpawnServer
  <1>3. server' \in DOMAIN procs'
    BY <1>2 DEF SpawnServer
  <1>4. Ages(procs, procs')
    BY <1>2 DEF Ages
  <1> QED BY <1>2, <1>3, <1>4 DEF ServerTypes, Server

(* What is sent to the server leaves it as it is.                           *)
LEMMA Sent ==
  ASSUME NEW ps \in Seq(Process), DOMAIN ps = Server, server \in Server \cup {NoServer},
         NEW rs \in SUBSET Request
  PROVE  /\ WithSent(ps, rs) \in Seq(Process) /\ DOMAIN WithSent(ps, rs) = DOMAIN ps
         /\ \A s \in DOMAIN ps : WithSent(ps, rs)[s].state = ps[s].state
  <1>1. CASE Connected /\ Listening(server)
    <2>1. server \in DOMAIN ps
      BY <1>1 DEF Connected
    <2> DEFINE x == [ps[server] EXCEPT !.inbox = @ \cup rs]
    <2>2. x \in Process /\ x.state = ps[server].state
      <3>1. ps[server] \in Process
        BY <2>1
      <3> QED BY <3>1 DEF Process
    <2>3. WithSent(ps, rs) = [ps EXCEPT ![server] = x]
      BY <1>1, <2>1 DEF WithSent
    <2> HIDE DEF x
    <2> QED BY <2>1, <2>2, <2>3
  <1>2. CASE ~(Connected /\ Listening(server))
    BY <1>2 DEF WithSent
  <1> QED BY <1>1, <1>2

(* What is handed over is counted.                                          *)
LEMMA Counted ==
  ASSUME NEW rs \in SUBSET Request, handed \in [Request -> Nat]
  PROVE  /\ HandedOver(rs) \in [Request -> Nat]
         /\ \A r \in Request : HandedOver(rs)[r] # handed[r]
               => r \in rs /\ HandedOver(rs)[r] = handed[r] + 1
  BY DEF HandedOver

(* A server that has exited, and keeps the state it had.                    *)
LEMMA ClosedServer ==
  ASSUME procs \in Seq(Process), NEW s \in Server
  PROVE  /\ Closed(s) \in Seq(Process) /\ DOMAIN Closed(s) = Server /\ Ages(procs, Closed(s))
         /\ Closed(s)[s].state = procs[s].state
  <1> DEFINE x == Exited(procs[s])
  <1>1. procs[s] \in Process
    BY DEF Server
  <1>2. x \in Process /\ x.state = procs[s].state
    BY <1>1, EmptySeq DEF Process, Exited
  <1>3. Closed(s) = [procs EXCEPT ![s] = x]
    BY DEF Closed, Server
  <1> HIDE DEF x
  <1> QED BY <1>2, <1>3, OneServer DEF Server

(* No server comes back to life when nothing happens to any.                *)
LEMMA SameServers ==
  ASSUME ServerTypes, UNCHANGED procs
  PROVE  procs' \in Seq(Process) /\ Server' = Server /\ Ages(procs, procs')
  BY DEF ServerTypes, Server, Ages

(* shutdown(), which forks the next server for a reload.                    *)
LEMMA ShutdownServers ==
  ASSUME ServerTypes, NEW then \in {"reload", "quit"}, Shutdown(then)
  PROVE  ServerTypes' /\ Ages(procs, procs')
  <1> USE DEF ServerTypes
  <1>1. CASE server = NoServer /\ then = "reload"
    <2>1. SpawnServer(procs) /\ Ages(procs, procs)
      BY <1>1 DEF Shutdown, Ages
    <2> QED BY <2>1, NewFork
  <1>2. CASE server = NoServer /\ then # "reload"
    BY <1>2, SameServers DEF Shutdown
  <1>3. CASE server # NoServer
    <2> DEFINE x == [procs[server] EXCEPT !.watched = FALSE,
                        !.told = procs[server].told \/ procs[server].linked, !.awaits = then]
    <2>1. server \in DOMAIN procs
      BY <1>3 DEF Server
    <2>2. x \in Process /\ x.state = procs[server].state
      <3>1. procs[server] \in Process
        BY <2>1
      <3> QED BY <3>1 DEF Process
    <2>3. procs' = [procs EXCEPT ![server] = x] /\ server' = NoServer
      BY <1>3, <2>1 DEF Shutdown
    <2> HIDE DEF x
    <2> QED BY <2>1, <2>2, <2>3, OneServer
  <1> QED BY <1>1, <1>2, <1>3

(* What the app does.                                                       *)
LEMMA AppServers ==
  ASSUME ServerTypes, AppMoves
  PROVE  ServerTypes' /\ Ages(procs, procs')
  <1>1. CASE Launch
    <2>1. SpawnServer(procs) /\ Ages(procs, procs)
      BY <1>1 DEF Launch, Ages, ServerTypes
    <2> QED BY <2>1, NewFork DEF ServerTypes
  <1>2. CASE Navigate
    BY <1>2, ShutdownServers DEF Navigate
  <1>3. CASE StopRelay
    BY <1>3, ShutdownServers DEF StopRelay
  <1>4. CASE RequestHardReload \/ CloseWindow \/ Activate \/ BeforeQuit
    <2>1. UNCHANGED <<procs, server>>
      BY <1>4 DEF RequestHardReload, CloseWindow, Activate, BeforeQuit, relayFields
    <2> QED BY <2>1, SameServers DEF ServerTypes
  <1> QED BY <1>1, <1>2, <1>3, <1>4 DEF AppMoves

(* What its parent hears of a server.                                       *)
LEMMA HeardServers ==
  ASSUME ServerTypes, CallTypes, NEW s \in Server, RelayMoves(s)
  PROVE  ServerTypes' /\ Ages(procs, procs')
  <1> USE DEF ServerTypes
  <1>0. procs[s] \in Process /\ s \in DOMAIN procs
    BY DEF Server
  <1>1. CASE BootTimesOut(s)
    <2> DEFINE x == [procs[s] EXCEPT !.promise = "rejected"]
    <2>1. x \in Process /\ x.state = procs[s].state
      BY <1>0 DEF Process
    <2>2. procs' = [procs EXCEPT ![s] = x] /\ UNCHANGED server
      BY <1>0, <1>1 DEF BootTimesOut, relayFields
    <2> HIDE DEF x
    <2> QED BY <1>0, <2>1, <2>2, OneServer DEF Server
  <1>2. CASE IsReady(s)
    <2> DEFINE x == HeardReady(procs[s])
               ps == [procs EXCEPT ![s] = x]
    <2>1. x \in Process /\ x.state = procs[s].state
      <3>1. procs[s].out \in Seq(Request \cup {"ready"}) /\ procs[s].out # <<>>
        BY <1>0, <1>2 DEF Process, IsReady
      <3>2. Tail(procs[s].out) \in Seq(Request \cup {"ready"})
        BY <3>1
      <3> QED BY <1>0, <3>2 DEF Process, HeardReady
    <2> HIDE DEF x
    <2>2. ps \in Seq(Process) /\ DOMAIN ps = Server /\ Ages(procs, ps)
      BY <1>0, <2>1, OneServer DEF Server
    <2>3. procs' = WithSent(ps, FlushedRequests) /\ UNCHANGED server
      BY <1>0, <1>2 DEF IsReady, x
    <2>4. FlushedRequests \in SUBSET Request
      BY DEF FlushedRequests, CallTypes
    <2> HIDE DEF ps
    <2>5. procs' \in Seq(Process) /\ DOMAIN procs' = Server
          /\ \A t \in Server : procs'[t].state = ps[t].state
      BY <2>2, <2>3, <2>4, Sent
    <2> QED BY <2>2, <2>3, <2>5 DEF Ages, Server
  <1>3. CASE Response(s)
    <2> DEFINE x == [procs[s] EXCEPT !.out = Tail(@)]
    <2>1. x \in Process /\ x.state = procs[s].state
      <3>1. procs[s].out \in Seq(Request \cup {"ready"}) /\ procs[s].out # <<>>
        BY <1>0, <1>3 DEF Process, Response
      <3>2. Tail(procs[s].out) \in Seq(Request \cup {"ready"})
        BY <3>1
      <3> QED BY <1>0, <3>2 DEF Process
    <2>2. procs' = [procs EXCEPT ![s] = x] /\ UNCHANGED server
      BY <1>0, <1>3 DEF Response
    <2> HIDE DEF x
    <2> QED BY <1>0, <2>1, <2>2, OneServer DEF Server
  <1>4. CASE LinkLost(s)
    <2> DEFINE x == [procs[s] EXCEPT !.linked = FALSE]
    <2>1. x \in Process /\ x.state = procs[s].state
      BY <1>0 DEF Process
    <2>2. procs' = [procs EXCEPT ![s] = x] /\ UNCHANGED server
      BY <1>0, <1>4 DEF LinkLost, relayFields
    <2> HIDE DEF x
    <2> QED BY <1>0, <2>1, <2>2, OneServer DEF Server
  <1>5. CASE ExitSeen(s)
    <2>1. CASE Respawns
      BY <1>5, <2>1, ClosedServer, NewFork DEF ExitSeen, Server
    <2>2. CASE ~Respawns
      BY <1>5, <2>2, ClosedServer DEF ExitSeen
    <2> QED BY <2>1, <2>2
  <1>6. CASE ShutdownEnds(s)
    <2> DEFINE x == [Closed(s)[s] EXCEPT !.state = "dead", !.inbox = {}]
               ended == [Closed(s) EXCEPT ![s].state = "dead", ![s].inbox = {}]
    <2>1. x \in Process /\ x.state = "dead"
      <3>1. Closed(s)[s] \in Process
        BY ClosedServer
      <3> QED BY <3>1 DEF Process
    <2>2. ended = [Closed(s) EXCEPT ![s] = x]
      BY ClosedServer
    <2>3. \/ SpawnServer(ended)
          \/ procs' = ended /\ UNCHANGED server
      BY <1>6 DEF ShutdownEnds
    <2> HIDE DEF x, ended
    <2>4. ended \in Seq(Process) /\ DOMAIN ended = Server /\ Ages(Closed(s), ended)
      BY <2>1, <2>2, ClosedServer, OneServer
    <2>5. Ages(procs, ended)
      <3> DEFINE closed == Closed(s)
      <3>1. closed \in Seq(Process) /\ DOMAIN closed = DOMAIN procs /\ Ages(procs, closed)
        BY ClosedServer DEF Server
      <3>2. Ages(closed, ended)
        BY <2>4
      <3> HIDE DEF closed
      <3>3. Len(procs) \in Nat /\ Len(closed) \in Nat /\ Len(ended) \in Nat
        BY <2>4, <3>1
      <3>4. \A t \in DOMAIN closed : closed[t].state \in {"booting", "up", "dead"}
        <4>1. \A t \in DOMAIN closed : closed[t] \in Process
          BY <3>1
        <4> QED BY <4>1 DEF Process
      <3> QED BY <3>1, <3>2, <3>3, <3>4 DEF Ages
    <2>6. CASE SpawnServer(ended)
      <3>1. DOMAIN ended = DOMAIN procs
        BY <2>4 DEF Server
      <3> QED BY <2>4, <2>5, <2>6, <3>1, NewFork
    <2>7. CASE procs' = ended /\ UNCHANGED server
      BY <2>4, <2>5, <2>7 DEF Server
    <2> QED BY <2>3, <2>6, <2>7
  <1> QED BY <1>1, <1>2, <1>3, <1>4, <1>5, <1>6 DEF RelayMoves

(* What a server does, or what ends it.                                     *)
LEMMA RunningServers ==
  ASSUME ServerTypes, NEW s \in Server, ServerMoves(s) \/ Crash(s)
  PROVE  ServerTypes' /\ Ages(procs, procs')
  <1> USE DEF ServerTypes
  <1>0. procs[s] \in Process /\ s \in DOMAIN procs
    BY DEF Server
  <1>1. CASE Boots(s)
    <2> DEFINE x == [Says(procs[s], "ready") EXCEPT !.state = "up"]
    <2>1. x \in Process /\ x.state = "up"
      <3>1. Append(procs[s].out, "ready") \in Seq(Request \cup {"ready"})
        BY <1>0, AppendProperties DEF Process
      <3> QED BY <1>0, <3>1 DEF Process, Says
    <2>2. procs' = [procs EXCEPT ![s] = x] /\ UNCHANGED server /\ procs[s].state = "booting"
      BY <1>0, <1>1 DEF Boots, relayFields
    <2> HIDE DEF x
    <2> QED BY <1>0, <2>1, <2>2, OneServer DEF Server
  <1>2. ASSUME NEW r \in Request, Responds(s, r)
        PROVE  ServerTypes' /\ Ages(procs, procs')
    <2> DEFINE x == [Says(procs[s], r) EXCEPT !.inbox = procs[s].inbox \ {r}]
    <2>1. x \in Process /\ x.state = procs[s].state
      <3>1. Append(procs[s].out, r) \in Seq(Request \cup {"ready"})
        BY <1>0, AppendProperties DEF Process
      <3> QED BY <1>0, <3>1 DEF Process, Says
    <2>2. procs' = [procs EXCEPT ![s] = x] /\ UNCHANGED server
      BY <1>0, <1>2 DEF Responds, relayFields
    <2> HIDE DEF x
    <2> QED BY <1>0, <2>1, <2>2, OneServer DEF Server
  <1>3. CASE Crash(s) \/ HandlesShutdown(s)
    <2> DEFINE x == [procs[s] EXCEPT !.state = "dead", !.inbox = {}]
    <2>1. x \in Process /\ x.state = "dead"
      BY <1>0 DEF Process
    <2>2. procs' = [procs EXCEPT ![s] = x] /\ UNCHANGED server
      BY <1>0, <1>3 DEF Crash, HandlesShutdown, relayFields
    <2> HIDE DEF x
    <2> QED BY <1>0, <2>1, <2>2, OneServer DEF Server
  <1> QED BY <1>1, <1>2, <1>3 DEF ServerMoves

-----------------------------------------------------------------------------
(* The requests.                                                            *)

(* What a step does to a request: it is given an answer, or taken off the   *)
(* lists, and nothing is sent.                                              *)
LEMMA CallsAnswered ==
  ASSUME CallTypes, CallsInv, UNCHANGED handed, dropped' \subseteq Request,
         pendingRequests' \subseteq pendingRequests, queuedRequests' \subseteq queuedRequests,
         req' \in [Request -> {"idle", "waiting"} \cup Outcome],
         \A r \in Request : req'[r] = "idle" => req[r] = "idle",
         \A r \in pendingRequests' : req'[r] = req[r]
  PROVE  CallTypes' /\ CallsInv' /\ HandoverIsWanted
  BY DEF CallTypes, CallsInv, HandoverIsWanted

(* The steps of the app: a shutdown answers whoever waits.                  *)
LEMMA AppCalls ==
  ASSUME CallTypes, CallsInv, AppMoves
  PROVE  CallTypes' /\ CallsInv' /\ HandoverIsWanted
  <1>1. ASSUME NEW then \in {"reload", "quit"}, Shutdown(then)
        PROVE  CallTypes' /\ CallsInv' /\ HandoverIsWanted
    <2>1. pendingRequests' = {} /\ queuedRequests' = {} /\ UNCHANGED handed
      BY <1>1 DEF Shutdown
    <2>2. req' = AnswerAll("shut down") \/ UNCHANGED req
      BY <1>1 DEF Shutdown
    <2>3. dropped' \subseteq Request
      BY <1>1 DEF Shutdown, CallTypes
    <2>4. req' \in [Request -> {"idle", "waiting"} \cup Outcome]
          /\ \A r \in Request : req'[r] = "idle" => req[r] = "idle"
      BY <2>2 DEF AnswerAll, CallTypes, Outcome
    <2> QED BY <2>1, <2>3, <2>4, CallsAnswered
  <1>2. CASE Launch \/ RequestHardReload \/ CloseWindow \/ Activate \/ BeforeQuit
    <2>1. UNCHANGED <<callVars, pendingRequests, queuedRequests>>
      BY <1>2 DEF Launch, RequestHardReload, CloseWindow, Activate, BeforeQuit, relayFields
    <2> QED BY <2>1, CallsAnswered DEF callVars, CallTypes
  <1> QED BY <1>1, <1>2 DEF AppMoves, Navigate, StopRelay

(* Requests that are sent are pending, and had not been sent before.        *)
LEMMA CallsSent ==
  ASSUME CallTypes, CallsInv, NEW rs \in SUBSET Request, handed' = HandedOver(rs),
         UNCHANGED dropped, pendingRequests' \subseteq Request, queuedRequests' \subseteq queuedRequests,
         req' \in [Request -> {"idle", "waiting"} \cup Outcome],
         \A r \in Request : req'[r] = "idle" => req[r] = "idle" /\ r \notin rs,
         \A r \in pendingRequests' : req'[r] = "waiting",
         \A r \in rs : req'[r] = "waiting" /\ handed[r] = 0 /\ r \notin queuedRequests'
  PROVE  CallTypes' /\ CallsInv' /\ HandoverIsWanted
  <1>1. HandedOver(rs) \in [Request -> Nat]
        /\ \A r \in Request : HandedOver(rs)[r] # handed[r]
               => r \in rs /\ HandedOver(rs)[r] = handed[r] + 1
    BY Counted DEF CallTypes
  <1>2. CallTypes'
    BY <1>1 DEF CallTypes
  <1>3. CallsInv' /\ HandoverIsWanted
    BY <1>1 DEF CallTypes, CallsInv, HandoverIsWanted
  <1> QED BY <1>2, <1>3

(* What the parent hears of a server: the queue is sent to the one that is  *)
(* ready, and a server that exits takes the pending requests with it.       *)
LEMMA HeardCalls ==
  ASSUME CallTypes, CallsInv, ServerTypes, NEW s \in Server, RelayMoves(s)
  PROVE  CallTypes' /\ CallsInv' /\ HandoverIsWanted
  <1>1. CASE IsReady(s)
    <2>1. /\ handed' = HandedOver(FlushedRequests) /\ queuedRequests' = {}
          /\ UNCHANGED <<pendingRequests, req, dropped>>
      BY <1>1 DEF IsReady
    <2>2. \A r \in FlushedRequests : req[r] = "waiting" /\ handed[r] = 0
      BY DEF FlushedRequests, CallsInv, CallTypes
    <2>3. FlushedRequests \in SUBSET Request
      BY DEF FlushedRequests, CallTypes
    <2>4. \A r \in pendingRequests : req[r] = "waiting"
      BY DEF CallsInv, CallTypes
    <2>5. CallTypes
      OBVIOUS
    <2> QED BY <2>1, <2>2, <2>3, <2>4, <2>5, CallsSent DEF CallTypes
  <1>2. CASE Response(s)
    <2> DEFINE r == Head(procs[s].out)
    <2>1. /\ req' = IF r \in pendingRequests THEN [req EXCEPT ![r] = "result"] ELSE req
          /\ pendingRequests' = pendingRequests \ {r}
          /\ UNCHANGED <<queuedRequests, handed, dropped>>
      BY <1>2 DEF Response
    <2> HIDE DEF r
    <2>2. req' \in [Request -> {"idle", "waiting"} \cup Outcome]
          /\ \A q \in Request : /\ req'[q] = "idle" => req[q] = "idle"
                                /\ q # r => req'[q] = req[q]
      BY <2>1 DEF CallTypes, Outcome
    <2>3. \A q \in pendingRequests' : req'[q] = req[q]
      BY <2>1, <2>2 DEF CallTypes
    <2>4. dropped' \subseteq Request
      BY <2>1 DEF CallTypes
    <2> QED BY <2>1, <2>2, <2>3, <2>4, CallsAnswered
  <1>3. CASE ExitSeen(s)
    <2>1. /\ req' = AnswerAll("crashed") /\ pendingRequests' = {}
          /\ UNCHANGED <<queuedRequests, handed, dropped>>
      BY <1>3 DEF ExitSeen
    <2>2. req' \in [Request -> {"idle", "waiting"} \cup Outcome]
          /\ \A r \in Request : req'[r] = "idle" => req[r] = "idle"
      BY <2>1 DEF AnswerAll, CallTypes, Outcome
    <2>3. dropped' \subseteq Request
      BY <2>1 DEF CallTypes
    <2> QED BY <2>1, <2>2, <2>3, CallsAnswered
  <1>4. CASE BootTimesOut(s) \/ LinkLost(s) \/ ShutdownEnds(s)
    <2>1. UNCHANGED <<callVars, pendingRequests, queuedRequests>>
      BY <1>4 DEF BootTimesOut, LinkLost, ShutdownEnds, relayFields
    <2> QED BY <2>1, CallsAnswered DEF callVars, CallTypes
  <1> QED BY <1>1, <1>2, <1>3, <1>4 DEF RelayMoves

(* A request that is made, and one that nobody waits for any longer.        *)
LEMMA RequestCalls ==
  ASSUME CallTypes, CallsInv, NEW r \in Request, RequestMoves(r)
  PROVE  CallTypes' /\ CallsInv' /\ HandoverIsWanted
  <1>1. CASE Ask(r)
    <2>1. /\ req[r] = "idle" /\ req' = [req EXCEPT ![r] = "waiting"] /\ UNCHANGED dropped
          /\ pendingRequests' = pendingRequests \cup {r} /\ handed[r] = 0
      BY <1>1 DEF Ask, CallsInv
    <2>2. req' \in [Request -> {"idle", "waiting"} \cup Outcome] /\ req'[r] = "waiting"
          /\ \A q \in Request \ {r} : req'[q] = req[q]
      BY <2>1 DEF CallTypes
    <2>3. \A q \in pendingRequests' : req'[q] = "waiting"
      BY <2>1, <2>2 DEF CallsInv, CallTypes
    <2>4. pendingRequests' \subseteq Request
      BY <2>1 DEF CallTypes
    <2>5. CASE Connected
      <3>1. handed' = HandedOver({r}) /\ UNCHANGED queuedRequests
        BY <1>1, <2>5 DEF Ask
      <3>2. r \notin queuedRequests
        BY <2>1 DEF CallsInv
      <3>3. \A q \in Request : req'[q] = "idle" => req[q] = "idle" /\ q \notin {r}
        BY <2>2
      <3>4. \A q \in {r} : req'[q] = "waiting" /\ handed[q] = 0 /\ q \notin queuedRequests'
        BY <2>1, <2>2, <3>1, <3>2
      <3> HIDE DEF CallsInv
      <3> QED BY <2>1, <2>2, <2>3, <2>4, <3>1, <3>3, <3>4, CallsSent
    <2>6. CASE ~Connected
      <3>1. UNCHANGED handed /\ queuedRequests' = queuedRequests \cup {r}
        BY <1>1, <2>6 DEF Ask
      <3> QED BY <2>1, <2>2, <2>3, <2>4, <3>1 DEF CallTypes, CallsInv, HandoverIsWanted
    <2> QED BY <2>5, <2>6
  <1>2. CASE TimesOut(r)
    <2>1. /\ pendingRequests' = pendingRequests \ {r} /\ queuedRequests' = queuedRequests \ {r}
          /\ req' = [req EXCEPT ![r] = "timed out"] /\ UNCHANGED <<handed, dropped>>
      BY <1>2 DEF TimesOut
    <2>2. req' \in [Request -> {"idle", "waiting"} \cup Outcome]
          /\ \A q \in Request : /\ req'[q] = "idle" => req[q] = "idle"
                                /\ q # r => req'[q] = req[q]
      BY <2>1 DEF CallTypes, Outcome
    <2>3. \A q \in pendingRequests' : req'[q] = req[q]
      BY <2>1, <2>2 DEF CallTypes
    <2>4. dropped' \subseteq Request
      BY <2>1 DEF CallTypes
    <2> QED BY <2>1, <2>2, <2>3, <2>4, CallsAnswered
  <1> QED BY <1>1, <1>2 DEF RequestMoves

-----------------------------------------------------------------------------
(* The processes and their records.                                         *)
PtyInv == PtyTypes /\ SpawnedInv /\ RecordsInv /\ ~unrelated

(* Servers come and go, and what they spawned stays as it is.               *)
LEMMA PtysStay ==
  ASSUME PtyInv, ServerTypes, ServerTypes', Ages(procs, procs'), UNCHANGED ptyVars,
         budget' \in [crashes : Nat, reloads : Nat, failures : Nat]
  PROVE  PtyInv'
  <1>1. PtyTypes' /\ RecordsInv' /\ ~unrelated'
    BY DEF PtyInv, PtyTypes, RecordsInv, ptyVars
  <1>2. SpawnedInv'
    <2> SUFFICES ASSUME NEW p \in DOMAIN ptys
                 PROVE  Tracked(p)'
      BY DEF SpawnedInv, ptyVars
    <2> DEFINE s == ptys[p].server
    <2>1. /\ s \in Server /\ procs[s].state # "booting"
          /\ ~ptys[p].recorded /\ procs[s].state = "up" => os[ptys[p].pid] = p
          /\ ptys[p].recorded /\ os[ptys[p].pid] = p
                => [pid |-> ptys[p].pid, of |-> p] \in registry
      BY DEF PtyInv, SpawnedInv, Tracked
    <2> HIDE DEF s
    <2>2. s \in Server' /\ s \in DOMAIN procs /\ procs[s] \in Process
      BY <2>1 DEF ServerTypes, Server, Ages
    <2>3. procs'[s].state # "booting" /\ (procs'[s].state = "up" => procs[s].state = "up")
      BY <2>1, <2>2 DEF Ages, Process
    <2> QED BY <2>1, <2>2, <2>3 DEF s, Tracked, ptyVars
  <1> QED BY <1>1, <1>2 DEF PtyInv

(* A reap kills processes that have a record, which are the office's, and   *)
(* keeps the records of those that it fails to kill.                        *)
LEMMA ReapKeeps ==
  ASSUME PtyInv, ServerTypes, ServerTypes', Ages(procs, procs'), ReapRegisteredPtys
  PROVE  PtyInv'
  <1>1. PICK failed \in SUBSET {r.pid : r \in Reapable(registry, os, Free)} :
           LET reaped == Reaped(registry, os, Free, failed) IN
           /\ registry' = reaped.registry /\ os' = reaped.os
           /\ unrelated' = (unrelated \/ \E pid \in Pid : os[pid] = Other /\ os'[pid] = Free)
           /\ budget' = [budget EXCEPT !.failures = @ + IF failed = {} THEN 0 ELSE 1]
           /\ UNCHANGED ptys
    BY DEF ReapRegisteredPtys
  <1> DEFINE reap == Reapable(registry, os, Free)
  <1>2. reap \subseteq registry /\ \A r \in registry : r \in reap <=> os[r.pid] # Free /\ os[r.pid] = r.of
    BY DEF Reapable, ProcessIdentityMatches
  <1> HIDE DEF reap
  <1>3. /\ registry' = {r \in reap : r.pid \in failed}
        /\ os' = [pid \in DOMAIN os |-> IF \E r \in reap : r.pid = pid /\ pid \notin failed
                                       THEN Free ELSE os[pid]]
    BY <1>1 DEF Reaped, reap
  <1>4. PtyTypes'
    <2>1. os' \in [Pid -> 0..Other]
      BY <1>3, RelayAssumption DEF PtyInv, PtyTypes, Free, Other
    <2>2. budget' \in [crashes : Nat, reloads : Nat, failures : Nat]
      BY <1>1 DEF PtyInv, PtyTypes
    <2>3. unrelated' \in BOOLEAN
      BY <1>1 DEF PtyInv, PtyTypes
    <2> QED BY <1>1, <1>2, <1>3, <2>1, <2>2, <2>3 DEF PtyInv, PtyTypes
  <1>5. \A r \in registry : r.of \in 1..MaxPtys /\ r.pid \in Pid
    BY DEF PtyInv, PtyTypes
  <1>6. ~unrelated'
    <2> SUFFICES ASSUME NEW pid \in Pid, os[pid] = Other, os'[pid] = Free
                 PROVE  FALSE
      BY <1>1 DEF PtyInv
    <2>1. Other # Free
      BY RelayAssumption DEF Other, Free
    <2>2. PICK r \in reap : r.pid = pid
      BY <1>3, <2>1 DEF PtyInv, PtyTypes
    <2>3. r.of = Other
      BY <1>2, <2>2
    <2> QED BY <1>2, <1>5, <2>2, <2>3, RelayAssumption DEF Other
  <1>7. RecordsInv'
    BY <1>1, <1>2, <1>3 DEF PtyInv, RecordsInv
  <1>8. SpawnedInv'
    <2> SUFFICES ASSUME NEW p \in DOMAIN ptys
                 PROVE  Tracked(p)'
      BY <1>1 DEF SpawnedInv
    <2> DEFINE s == ptys[p].server
               pid == ptys[p].pid
               record == [pid |-> pid, of |-> p]
    <2>1. /\ s \in Server /\ procs[s].state # "booting"
          /\ ~ptys[p].recorded /\ procs[s].state = "up" => os[pid] = p
          /\ ptys[p].recorded /\ os[pid] = p => record \in registry
      BY DEF PtyInv, SpawnedInv, Tracked
    <2>2. pid \in Pid /\ p \in Nat \ {0}
      <3>1. ptys \in Seq(Terminal)
        BY DEF PtyInv, PtyTypes
      <3>2. ptys[p] \in Terminal /\ p \in Nat \ {0}
        BY <3>1
      <3> QED BY <3>2 DEF Terminal
    <2>3. record.pid = pid /\ record.of = p
      OBVIOUS
    <2> HIDE DEF s, pid, record
    <2>4. s \in Server' /\ s \in DOMAIN procs /\ procs[s] \in Process
      BY <2>1 DEF ServerTypes, Server, Ages
    <2>5. procs'[s].state # "booting" /\ (procs'[s].state = "up" => procs[s].state = "up")
      BY <2>1, <2>4 DEF Ages, Process
    <2>6. os[pid] = p => ptys[p].recorded \/ os'[pid] = p
      <3> SUFFICES ASSUME os[pid] = p, os'[pid] # p
                   PROVE  ptys[p].recorded
        OBVIOUS
      <3>1. PICK r \in reap : r.pid = pid
        BY <1>3, <2>2 DEF PtyInv, PtyTypes
      <3>2. r.of = p
        BY <1>2, <3>1
      <3> QED BY <1>2, <3>2 DEF PtyInv, RecordsInv
    <2>7. ASSUME ptys[p].recorded, os'[pid] = p
          PROVE  record \in registry'
      <3>1. os[pid] = p
        BY <1>3, <2>2, <2>7 DEF PtyInv, PtyTypes, Free
      <3>2. record \in reap
        BY <1>2, <2>1, <2>2, <2>3, <2>7, <3>1 DEF Free
      <3>3. pid \in failed
        BY <1>3, <2>2, <2>3, <2>7, <3>2 DEF PtyInv, PtyTypes, Free
      <3> QED BY <1>3, <2>3, <3>2, <3>3
    <2>8. /\ s \in Server' /\ procs'[s].state # "booting"
          /\ ~ptys[p].recorded /\ procs'[s].state = "up" => os'[pid] = p
          /\ ptys[p].recorded /\ os'[pid] = p => record \in registry'
      BY <2>1, <2>4, <2>5, <2>6, <2>7
    <2> QED BY <1>1, <2>8 DEF s, pid, record, Tracked
  <1> QED BY <1>4, <1>6, <1>7, <1>8 DEF PtyInv

(* A server that is told to shut down kills what it spawned; a kill that    *)
(* fails leaves the process with its record.                                *)
LEMMA ShutdownPtys ==
  ASSUME PtyInv, ServerTypes, ServerTypes', Ages(procs, procs'), NEW s \in Server, HandlesShutdown(s)
  PROVE  PtyInv'
  <1>1. PICK failed \in SUBSET OwnPtys(s) :
           /\ KillAllPtyProcesses(s, failed)
           /\ budget' = [budget EXCEPT !.failures = @ + IF failed = {} THEN 0 ELSE 1]
    BY DEF HandlesShutdown
  <1> DEFINE killed == {ptys[p].pid : p \in OwnPtys(s) \ failed}
  <1>2. /\ os' = [pid \in Pid |-> IF pid \in killed THEN Free ELSE os[pid]]
        /\ registry' = {r \in registry : r.pid \notin killed}
        /\ UNCHANGED <<ptys, unrelated>>
    BY <1>1 DEF KillAllPtyProcesses
  <1>3. procs' = [procs EXCEPT ![s] = [@ EXCEPT !.state = "dead", !.inbox = {}]]
    BY DEF HandlesShutdown
  <1>4. \A pid \in killed : \E p \in DOMAIN ptys : /\ ptys[p].pid = pid /\ ptys[p].server = s
                                                   /\ os[pid] = p
    BY DEF OwnPtys
  <1> HIDE DEF killed
  <1>5. procs'[s].state = "dead"
    <2>1. procs[s] \in Process /\ s \in DOMAIN procs
      BY DEF ServerTypes, Server
    <2> QED BY <1>3, <2>1 DEF Process
  <1>6. PtyTypes'
    <2>1. os' \in [Pid -> 0..Other]
      BY <1>2, RelayAssumption DEF PtyInv, PtyTypes, Free, Other
    <2>2. budget' \in [crashes : Nat, reloads : Nat, failures : Nat]
      BY <1>1 DEF PtyInv, PtyTypes
    <2> QED BY <1>2, <2>1, <2>2 DEF PtyInv, PtyTypes
  <1>7. RecordsInv' /\ ~unrelated'
    BY <1>2 DEF PtyInv, RecordsInv
  <1>8. SpawnedInv'
    <2> SUFFICES ASSUME NEW p \in DOMAIN ptys
                 PROVE  Tracked(p)'
      BY <1>2 DEF SpawnedInv
    <2> DEFINE t == ptys[p].server
               pid == ptys[p].pid
               record == [pid |-> pid, of |-> p]
    <2>1. /\ t \in Server /\ procs[t].state # "booting"
          /\ ~ptys[p].recorded /\ procs[t].state = "up" => os[pid] = p
          /\ ptys[p].recorded /\ os[pid] = p => record \in registry
      BY DEF PtyInv, SpawnedInv, Tracked
    <2>2. pid \in Pid /\ p \in Nat \ {0}
      <3>1. ptys \in Seq(Terminal)
        BY DEF PtyInv, PtyTypes
      <3>2. ptys[p] \in Terminal /\ p \in Nat \ {0}
        BY <3>1
      <3> QED BY <3>2 DEF Terminal
    <2>3. record.pid = pid /\ ptys[p].server = t
      OBVIOUS
    <2> HIDE DEF t, pid, record
    <2>4. t \in Server' /\ t \in DOMAIN procs /\ procs[t] \in Process
      BY <2>1 DEF ServerTypes, Server, Ages
    <2>5. procs'[t].state # "booting" /\ (procs'[t].state = "up" => procs[t].state = "up")
      BY <2>1, <2>4 DEF Ages, Process
    <2>6. ASSUME ~ptys[p].recorded, procs'[t].state = "up"
          PROVE  os'[pid] = p
      <3>1. os[pid] = p /\ t # s
        BY <1>5, <2>1, <2>5, <2>6
      <3>2. pid \notin killed
        BY <1>4, <2>3, <3>1
      <3> QED BY <1>2, <2>2, <3>1, <3>2
    <2>7. ASSUME ptys[p].recorded, os'[pid] = p
          PROVE  record \in registry'
      <3>1. pid \notin killed /\ os[pid] = p
        BY <1>2, <2>2, <2>7 DEF Free
      <3> QED BY <1>2, <2>1, <2>3, <2>7, <3>1
    <2>8. /\ t \in Server' /\ procs'[t].state # "booting"
          /\ ~ptys[p].recorded /\ procs'[t].state = "up" => os'[pid] = p
          /\ ptys[p].recorded /\ os'[pid] = p => record \in registry'
      BY <2>1, <2>4, <2>5, <2>6, <2>7
    <2> QED BY <1>2, <2>8 DEF t, pid, record, Tracked
  <1> QED BY <1>6, <1>7, <1>8 DEF PtyInv

(* A pseudo-terminal is spawned, recorded, or gone, or another program has  *)
(* its pid.                                                                 *)
LEMMA PtysMove ==
  ASSUME PtyInv, ServerTypes, PtyMoves
  PROVE  PtyInv'
  <1> USE DEF PtyInv
  <1>0. ptys \in Seq(Terminal) /\ DOMAIN ptys = 1..Len(ptys) /\ Len(ptys) \in Nat
        /\ \A p \in DOMAIN ptys : ptys[p] \in Terminal /\ p \in Nat \ {0}
    BY DEF PtyTypes
  <1>1. ASSUME NEW s \in Server, NEW pid \in Pid, SpawnPty(s, pid)
        PROVE  PtyInv'
    <2> DEFINE new == [pid |-> pid, server |-> s, recorded |-> FALSE]
    <2>1. new \in Terminal /\ new.pid = pid /\ new.server = s /\ ~new.recorded
      BY DEF Terminal, Server, ServerTypes
    <2>2. /\ procs[s].state = "up" /\ Len(ptys) < MaxPtys /\ os[pid] = Free
          /\ ptys' = Append(ptys, new) /\ os' = [os EXCEPT ![pid] = Len(ptys) + 1]
          /\ UNCHANGED <<procs, registry, unrelated, budget>>
      BY <1>1 DEF SpawnPty, relayFields
    <2> HIDE DEF new
    <2>3. /\ ptys' \in Seq(Terminal) /\ Len(ptys') = Len(ptys) + 1
          /\ ptys'[Len(ptys) + 1] = new /\ \A p \in DOMAIN ptys : ptys'[p] = ptys[p]
          /\ DOMAIN ptys' = DOMAIN ptys \cup {Len(ptys) + 1}
      <3>1. ptys' \in Seq(Terminal) /\ Len(ptys') = Len(ptys) + 1
            /\ ptys'[Len(ptys) + 1] = new /\ \A p \in 1..Len(ptys) : ptys'[p] = ptys[p]
        BY <1>0, <2>1, <2>2, AppendProperties
      <3>2. DOMAIN ptys' = 1..Len(ptys')
        BY <3>1
      <3> QED BY <1>0, <3>1, <3>2
    <2>4. PtyTypes'
      <3>1. Len(ptys) + 1 \in 0..Other
        BY <1>0, <2>2, RelayAssumption DEF Other
      <3>2. os' \in [Pid -> 0..Other]
        BY <2>2, <3>1 DEF PtyTypes
      <3>3. Len(ptys') <= MaxPtys
        BY <1>0, <2>2, <2>3, RelayAssumption
      <3> QED BY <2>2, <2>3, <3>2, <3>3 DEF PtyTypes
    <2>5. RecordsInv'
      BY <2>2, <2>3 DEF RecordsInv
    <2>6. SpawnedInv'
      <3>1. ASSUME NEW p \in DOMAIN ptys
            PROVE  Tracked(p)'
        <4>1. ptys'[p] = ptys[p] /\ ptys[p].pid \in Pid /\ p \in 1..Len(ptys)
          BY <1>0, <2>3 DEF Terminal
        <4>2. os'[ptys[p].pid] = p <=> os[ptys[p].pid] = p /\ ptys[p].pid # pid
          BY <1>0, <2>2, <4>1 DEF PtyTypes
        <4>3. os[ptys[p].pid] = p => ptys[p].pid # pid
          BY <1>0, <2>2, <4>1 DEF Free
        <4> QED BY <2>2, <4>1, <4>2, <4>3 DEF SpawnedInv, Tracked, Server
      <3>2. ASSUME NEW p, p = Len(ptys) + 1
            PROVE  Tracked(p)'
        <4>1. ptys'[p] = new
          BY <2>3, <3>2
        <4>2. os'[pid] = p
          BY <2>2, <3>2 DEF PtyTypes
        <4> QED BY <2>1, <2>2, <4>1, <4>2 DEF Server, Tracked
      <3> QED BY <2>3, <3>1, <3>2 DEF SpawnedInv
    <2> QED BY <2>2, <2>4, <2>5, <2>6
  <1>2. ASSUME NEW p \in DOMAIN ptys, RegistersPty(p)
        PROVE  PtyInv'
    <2> DEFINE x == [ptys[p] EXCEPT !.recorded = TRUE]
               pid == ptys[p].pid
               record == [pid |-> pid, of |-> p]
    <2>1. x \in Terminal /\ x.recorded /\ x.pid = pid /\ x.server = ptys[p].server /\ pid \in Pid
      BY <1>0 DEF Terminal
    <2>2. /\ procs[ptys[p].server].state = "up" /\ ~ptys[p].recorded
          /\ ptys' = [ptys EXCEPT ![p] = x]
          /\ registry' = {r \in registry : r.pid # pid} \cup {record}
          /\ UNCHANGED <<procs, os, unrelated, budget>>
      BY <1>2 DEF RegistersPty, RegisterPty, relayFields
    <2>3. record \in [pid : Pid, of : 1..MaxPtys] /\ record.pid = pid /\ record.of = p
      BY <1>0, <2>1, RelayAssumption DEF PtyTypes
    <2> HIDE DEF x, pid, record
    <2>4. /\ ptys' \in Seq(Terminal) /\ Len(ptys') = Len(ptys) /\ DOMAIN ptys' = DOMAIN ptys
          /\ \A q \in DOMAIN ptys : ptys'[q] = IF q = p THEN x ELSE ptys[q]
      BY <1>0, <2>1, <2>2
    <2>5. os[pid] = p
      BY <2>2 DEF SpawnedInv, Tracked, pid
    <2>6. PtyTypes'
      BY <2>2, <2>3, <2>4 DEF PtyTypes
    <2>7. RecordsInv'
      BY <1>0, <2>1, <2>2, <2>3, <2>4 DEF RecordsInv, pid
    <2>8. SpawnedInv'
      <3> SUFFICES ASSUME NEW q \in DOMAIN ptys
                   PROVE  Tracked(q)'
        BY <2>4 DEF SpawnedInv
      <3>1. Tracked(q)
        BY DEF SpawnedInv
      <3>2. CASE q = p
        <4>1. ptys'[p].pid = pid /\ ptys'[p].server = ptys[p].server /\ ptys'[p].recorded
          BY <2>1, <2>4
        <4>2. record \in registry' /\ record = [pid |-> pid, of |-> p]
          BY <2>2 DEF record
        <4> QED BY <2>2, <3>1, <3>2, <4>1, <4>2 DEF Tracked, Server
      <3>3. CASE q # p
        <4>1. ptys'[q] = ptys[q]
          BY <2>4, <3>3
        <4>2. os[ptys[q].pid] = q => ptys[q].pid # pid
          BY <2>5, <3>3
        <4>3. \A r \in registry : r.pid # pid => r \in registry'
          BY <2>2
        <4> QED BY <2>2, <3>1, <4>1, <4>2, <4>3 DEF Tracked, Server
      <3> QED BY <3>2, <3>3
    <2> QED BY <2>2, <2>6, <2>7, <2>8
  <1>3. ASSUME NEW p \in DOMAIN ptys, PtyExits(p)
        PROVE  PtyInv'
    <2> DEFINE pid == ptys[p].pid
    <2>1. /\ os[pid] = p /\ os' = [os EXCEPT ![pid] = Free]
          /\ registry' = registry \/ registry' = {r \in registry : r.pid # pid}
          /\ procs[ptys[p].server].state = "up" => ptys[p].recorded
          /\ UNCHANGED <<procs, ptys, unrelated, budget>>
      BY <1>3 DEF PtyExits, UnregisterPty, relayFields
    <2>2. pid \in Pid
      BY <1>0 DEF Terminal
    <2> HIDE DEF pid
    <2>3. PtyTypes'
      BY <2>1, <2>2, RelayAssumption DEF PtyTypes, Free, Other
    <2>4. RecordsInv'
      BY <2>1 DEF RecordsInv
    <2>5. SpawnedInv'
      <3> SUFFICES ASSUME NEW q \in DOMAIN ptys
                   PROVE  Tracked(q)'
        BY <2>1 DEF SpawnedInv
      <3>1. Tracked(q) /\ ptys[q].pid \in Pid /\ q # Free
        BY <1>0 DEF SpawnedInv, Terminal, Free
      <3>2. CASE q = p
        BY <2>1, <2>2, <3>1, <3>2 DEF Tracked, Server, PtyTypes, pid
      <3>3. CASE q # p
        <4>1. os[ptys[q].pid] = q => ptys[q].pid # pid
          BY <2>1, <3>3
        <4>2. os'[ptys[q].pid] = q <=> os[ptys[q].pid] = q
          BY <2>1, <2>2, <3>1, <4>1 DEF PtyTypes
        <4> QED BY <2>1, <3>1, <4>1, <4>2 DEF Tracked, Server
      <3> QED BY <3>2, <3>3
    <2> QED BY <2>1, <2>3, <2>4, <2>5
  <1>4. ASSUME NEW pid \in Pid, PidIsReused(pid)
        PROVE  PtyInv'
    <2>1. /\ os[pid] = Free /\ os' = [os EXCEPT ![pid] = Other]
          /\ UNCHANGED <<procs, ptys, registry, unrelated, budget>>
      BY <1>4 DEF PidIsReused, relayFields
    <2>2. PtyTypes'
      BY <2>1, RelayAssumption DEF PtyTypes, Other
    <2>3. RecordsInv'
      BY <2>1 DEF RecordsInv
    <2>4. SpawnedInv'
      <3> SUFFICES ASSUME NEW q \in DOMAIN ptys
                   PROVE  Tracked(q)'
        BY <2>1 DEF SpawnedInv
      <3>1. Tracked(q) /\ ptys[q].pid \in Pid /\ q # Free /\ q # Other
        BY <1>0, RelayAssumption DEF SpawnedInv, Terminal, Free, Other, PtyTypes
      <3>2. os'[ptys[q].pid] = q <=> os[ptys[q].pid] = q
        BY <2>1, <3>1 DEF PtyTypes
      <3> QED BY <2>1, <3>1, <3>2 DEF Tracked, Server
    <2> QED BY <2>1, <2>2, <2>3, <2>4
  <1> QED BY <1>1, <1>2, <1>3, <1>4 DEF PtyMoves

-----------------------------------------------------------------------------
(* The whole.                                                               *)

(* The parts of the invariant.                                              *)
LEMMA RelayParts ==
  RelayInv <=> AppTypes /\ ServerTypes /\ CallTypes /\ CallsInv /\ PtyInv
  BY RelayTypes DEF RelayInv, PtyInv

(* A step of the app, of a server or of a request but for the pseudo-       *)
(* terminals keeps the phase of the app in its type.                        *)
LEMMA AppStays ==
  ASSUME AppTypes, RelayNext
  PROVE  AppTypes'
  <1>1. CASE AppMoves
    BY <1>1 DEF AppMoves, AppTypes, Launch, RequestHardReload, Navigate, CloseWindow, Activate, BeforeQuit,
                StopRelay, Shutdown, appVars, relayFields
  <1>2. ASSUME NEW s \in Server, RelayMoves(s) \/ ServerMoves(s) \/ Crash(s)
        PROVE  AppTypes'
    <2>1. CASE RelayMoves(s)
      BY <2>1 DEF RelayMoves, AppTypes, BootTimesOut, IsReady, Response, LinkLost, ExitSeen, ShutdownEnds,
                  ShuttingDownOnceReady, appVars, relayFields
    <2>2. CASE ServerMoves(s) \/ Crash(s)
      BY <2>2 DEF ServerMoves, AppTypes, Boots, HandlesShutdown, Responds, Crash, appVars, relayFields
    <2> QED BY <1>2, <2>1, <2>2
  <1>3. ASSUME NEW r \in Request, RequestMoves(r)
        PROVE  AppTypes'
    BY <1>3 DEF RequestMoves, AppTypes, Ask, TimesOut, appVars
  <1>4. CASE PtyMoves
    BY <1>4 DEF PtyMoves, AppTypes, SpawnPty, RegistersPty, PtyExits, PidIsReused, appVars, relayFields
  <1> QED BY <1>1, <1>2, <1>3, <1>4 DEF RelayNext

(* Every step keeps the invariant, and hands over what is waited for.       *)
LEMMA RelayStep ==
  ASSUME RelayInv, RelayNext
  PROVE  RelayInv' /\ HandoverIsWanted
  <1>0. AppTypes /\ ServerTypes /\ CallTypes /\ CallsInv /\ PtyInv
    BY RelayParts
  <1>p. RelayInv' <=> AppTypes' /\ ServerTypes' /\ CallTypes' /\ CallsInv' /\ PtyInv'
    BY RelayParts, PTL
  <1>1. AppTypes'
    BY <1>0, AppStays
  <1>2. CASE AppMoves
    <2>1. ServerTypes' /\ Ages(procs, procs')
      BY <1>0, <1>2, AppServers
    <2>2. CallTypes' /\ CallsInv' /\ HandoverIsWanted
      BY <1>0, <1>2, AppCalls
    <2>3. CASE Launch
      <3>1. ReapRegisteredPtys
        BY <2>3 DEF Launch
      <3> QED BY <1>0, <1>1, <2>1, <2>2, <3>1, ReapKeeps, <1>p
    <2>4. CASE RequestHardReload \/ Navigate \/ CloseWindow \/ Activate \/ BeforeQuit \/ StopRelay
      <3>1. /\ UNCHANGED ptyVars
            /\ budget' = budget \/ budget' = [budget EXCEPT !.reloads = @ + 1]
        BY <2>4 DEF RequestHardReload, Navigate, CloseWindow, Activate, BeforeQuit, StopRelay, Shutdown
      <3>2. budget' \in [crashes : Nat, reloads : Nat, failures : Nat]
        BY <1>0, <3>1 DEF PtyInv, PtyTypes
      <3> QED BY <1>0, <1>1, <2>1, <2>2, <3>1, <3>2, PtysStay, <1>p
    <2> QED BY <1>2, <2>3, <2>4 DEF AppMoves
  <1>3. ASSUME NEW s \in Server, RelayMoves(s)
        PROVE  RelayInv' /\ HandoverIsWanted
    <2>1. ServerTypes' /\ Ages(procs, procs')
      BY <1>0, <1>3, HeardServers
    <2>2. CallTypes' /\ CallsInv' /\ HandoverIsWanted
      BY <1>0, <1>3, HeardCalls
    <2>3. ReapRegisteredPtys \/ UNCHANGED <<ptyVars, budget>>
      BY <1>3 DEF RelayMoves, BootTimesOut, IsReady, Response, LinkLost, ExitSeen, ShutdownEnds
    <2>4. PtyInv'
      <3>1. CASE ReapRegisteredPtys
        BY <1>0, <2>1, <3>1, ReapKeeps
      <3>2. CASE UNCHANGED <<ptyVars, budget>>
        <4>1. budget' \in [crashes : Nat, reloads : Nat, failures : Nat]
          BY <1>0, <3>2 DEF PtyInv, PtyTypes
        <4> QED BY <1>0, <2>1, <3>2, <4>1, PtysStay
      <3> QED BY <2>3, <3>1, <3>2
    <2> QED BY <1>1, <2>1, <2>2, <2>4, <1>p
  <1>4. ASSUME NEW s \in Server, ServerMoves(s) \/ Crash(s)
        PROVE  RelayInv' /\ HandoverIsWanted
    <2>1. ServerTypes' /\ Ages(procs, procs')
      BY <1>0, <1>4, RunningServers
    <2>2. CallTypes' /\ CallsInv' /\ HandoverIsWanted
      <3>1. UNCHANGED <<callVars, relayFields>>
        BY <1>4 DEF ServerMoves, Boots, HandlesShutdown, Responds, Crash
      <3> QED BY <1>0, <3>1, CallsAnswered DEF callVars, relayFields, CallTypes
    <2>3. CASE HandlesShutdown(s)
      BY <1>0, <1>1, <2>1, <2>2, <2>3, ShutdownPtys, <1>p
    <2>4. CASE Boots(s) \/ Crash(s) \/ \E r \in Request : Responds(s, r)
      <3>1. /\ UNCHANGED ptyVars
            /\ budget' = budget \/ budget' = [budget EXCEPT !.crashes = @ + 1]
        BY <2>4 DEF Boots, Crash, Responds
      <3>2. budget' \in [crashes : Nat, reloads : Nat, failures : Nat]
        BY <1>0, <3>1 DEF PtyInv, PtyTypes
      <3> QED BY <1>0, <1>1, <2>1, <2>2, <3>1, <3>2, PtysStay, <1>p
    <2> QED BY <1>4, <2>3, <2>4 DEF ServerMoves
  <1>5. ASSUME NEW r \in Request, RequestMoves(r)
        PROVE  RelayInv' /\ HandoverIsWanted
    <2>1. CallTypes' /\ CallsInv' /\ HandoverIsWanted
      BY <1>0, <1>5, RequestCalls
    <2>2. /\ UNCHANGED <<server, ptyVars, budget>>
          /\ UNCHANGED procs \/ procs' = WithSent(procs, {r})
      BY <1>5 DEF RequestMoves, Ask, TimesOut
    <2>3. ServerTypes' /\ Ages(procs, procs')
      <3>1. CASE UNCHANGED procs
        BY <1>0, <2>2, <3>1, SameServers DEF ServerTypes
      <3>2. CASE procs' = WithSent(procs, {r})
        <4>1. /\ procs' \in Seq(Process) /\ DOMAIN procs' = DOMAIN procs
              /\ \A s \in DOMAIN procs : procs'[s].state = procs[s].state
          BY <1>0, <3>2, Sent DEF ServerTypes, Server
        <4>2. Len(procs') = Len(procs) /\ Len(procs) \in Nat
          BY <1>0, <4>1 DEF ServerTypes
        <4>3. Ages(procs, procs')
          <5>1. \A s \in DOMAIN procs : procs[s] \in Process
            BY <1>0 DEF ServerTypes
          <5> QED BY <4>1, <4>2, <5>1 DEF Ages, Process
        <4> QED BY <1>0, <2>2, <4>1, <4>3 DEF ServerTypes, Server
      <3> QED BY <2>2, <3>1, <3>2
    <2>4. budget' \in [crashes : Nat, reloads : Nat, failures : Nat]
      BY <1>0, <2>2 DEF PtyInv, PtyTypes
    <2> QED BY <1>0, <1>1, <2>1, <2>2, <2>3, <2>4, PtysStay, <1>p
  <1>6. CASE PtyMoves
    <2>1. PtyInv'
      BY <1>0, <1>6, PtysMove
    <2>2. UNCHANGED <<relayFields, callVars, procs>>
      BY <1>6 DEF PtyMoves, SpawnPty, RegistersPty, PtyExits, PidIsReused
    <2>3. ServerTypes'
      BY <1>0, <2>2 DEF ServerTypes, Server, relayFields
    <2>4. CallTypes' /\ CallsInv' /\ HandoverIsWanted
      BY <1>0, <2>2, CallsAnswered DEF relayFields, callVars, CallTypes
    <2> QED BY <1>1, <2>1, <2>3, <2>4, <1>p
  <1> QED BY <1>2, <1>3, <1>4, <1>5, <1>6 DEF RelayNext

(* The first state.                                                         *)
LEMMA RelayStart == RelayInit => RelayInv
  <1> SUFFICES ASSUME RelayInit PROVE RelayInv
    OBVIOUS
  <1> USE DEF RelayInit
  <1>1. AppTypes
    BY DEF AppTypes
  <1>2. ServerTypes
    BY DEF ServerTypes, Server
  <1>3. CallTypes /\ CallsInv
    BY DEF CallTypes, CallsInv
  <1>4. PtyTypes
    <2>1. ptys \in Seq(Terminal) /\ Len(ptys) <= MaxPtys
      BY RelayAssumption, EmptySeq
    <2>2. os \in [Pid -> 0..Other]
      BY RelayAssumption DEF Free, Other
    <2> QED BY <2>1, <2>2 DEF PtyTypes
  <1>5. SpawnedInv /\ RecordsInv
    BY DEF SpawnedInv, RecordsInv
  <1> QED BY <1>1, <1>2, <1>3, <1>4, <1>5, RelayParts DEF PtyInv

(* In every behaviour a request reaches a server once and while its caller  *)
(* waits, and every recorded process that outlives its server can be found, *)
(* however servers crash, are replaced or fail to kill.                     *)
THEOREM CrashesContained == RelaySpec => CrashesAreContained
  <1>1. RelayInv /\ [RelayNext]_relayVars => RelayInv' /\ (HandoverIsWanted \/ UNCHANGED relayVars)
    <2>1. CASE RelayNext
      BY <2>1, RelayStep
    <2>2. CASE UNCHANGED relayVars
      BY <2>2 DEF relayVars, appVars, relayFields, callVars, ptyVars, RelayInv, RelayTypeOK, CallsInv,
                  SpawnedInv, Tracked, RecordsInv, Server
    <2> QED BY <2>1, <2>2
  <1>2. RelayInv => OrphansAreReapable
    <2> SUFFICES ASSUME RelayInv, NEW p \in DOMAIN ptys, os[ptys[p].pid] = p, ptys[p].recorded
                 PROVE  [pid |-> ptys[p].pid, of |-> p] \in registry
      BY DEF OrphansAreReapable, RelayInv
    <2> QED BY DEF RelayInv, SpawnedInv, Tracked
  <1>3. RelaySpec => []RelayInv
    BY <1>1, RelayStart, PTL DEF RelaySpec
  <1>4. RelayInv /\ [RelayNext]_relayVars => [HandoverIsWanted]_relayVars
    BY <1>1
  <1>5. RelayInv' => OrphansAreReapable'
    BY <1>2, PTL
  <1>6. RelayInv /\ [RelayNext]_relayVars => [OrphansAreReapable']_relayVars
    BY <1>1, <1>5
  <1>7. RelaySpec => [][HandoverIsWanted]_relayVars /\ [][OrphansAreReapable']_relayVars
    BY <1>3, <1>4, <1>6, PTL DEF RelaySpec
  <1> QED BY <1>7 DEF CrashesAreContained, HandedOverWhileWanted, HandoverIsWanted

-----------------------------------------------------------------------------
(***************************************************************************)
(* TeamsDispatch.                                                          *)
(*                                                                         *)
(* One agent's thread, for any number of prompts, pieces of output, posts, *)
(* refusals and retries: the agent is sent each prompt once and never a    *)
(* post of the app, and its output is lost only with a turn that is cut.   *)
(*                                                                         *)
(* Neither property is inductive.  A prompt is submitted once because what *)
(* waits and what was submitted are disjoint parts of what the filter has  *)
(* seen (SeenInv), and an echo is recognised because the id of a post is   *)
(* remembered before its write leaves the thread's chain (EchoInv).  The   *)
(* output is kept because the two turns, the renders, the writes and what  *)
(* was settled or cut are at every moment a partition of what was emitted  *)
(* (Partition): each step moves a part as a whole.                         *)
(***************************************************************************)

TurnRecord == [prompt : 0..Echo, chunks : Seq(Output), settle : BOOLEAN, open : BOOLEAN]
Closing == [prompt : 1..Echo, stage : {"flush", "notify"}]
Render == [chunks : Seq(Output), closes : 0..Echo]
JobRecord == [chunks : Seq(Output), closes : 0..Echo, image : BOOLEAN,
              tries : 0..MaxRetries, stored : BOOLEAN, id : Nat]

InboundTypes ==
    /\ binding \in {"online", "paused", "gone"} /\ noticePosted \in BOOLEAN
    /\ seen \subseteq Prompt /\ queue \in Seq(Prompt \cup {Echo})
    /\ submitted \in Seq(1..Echo)

(* A turn that settles is open, and an open turn is that of a prompt. *)
TurnTypes ==
    /\ item \in 0..Echo /\ pending \in TurnRecord /\ ambient \in TurnRecord
    /\ pending.settle => pending.open
    /\ pending.open => pending.prompt # None
    /\ timers \subseteq 1..Echo /\ submitting \subseteq 1..Echo /\ closing \subseteq Closing
    /\ emitted \in 0..MaxOutputs

PostTypes ==
    /\ renders \subseteq Render /\ jobs \in Seq(JobRecord) /\ written \in Nat

Types == InboundTypes /\ TurnTypes /\ PostTypes

\* The types proved part by part are the type invariant of the module.
LEMMA TypesAreOK == Types => TypeOK
  BY DEF Types, InboundTypes, TurnTypes, PostTypes, TypeOK, TurnRecord, Closing, Render, JobRecord

\* What the provers need to know of the numbers that name prompts, the echo and none.
LEMMA Prompts ==
  /\ Prompt \cup {Echo} = 1..Echo /\ Echo \notin Prompt /\ None \in 0..Echo
  /\ 1..Echo \subseteq 0..Echo /\ Echo \in Nat /\ None \notin 1..Echo /\ Prompt \subseteq 1..Echo
  <1>1. MaxPrompts \in Nat /\ Echo = MaxPrompts + 1 /\ Prompt = 1..MaxPrompts /\ None = 0
    BY DispatchAssumption DEF Echo, Prompt, None
  <1>2. Prompt \cup {Echo} = 1..Echo
    <2>1. \A n : n \in 1..Echo <=> n \in 1..MaxPrompts \/ n = Echo
      BY <1>1
    <2> QED BY <2>1, <1>1
  <1>3. Echo \notin Prompt /\ Echo \in Nat /\ None \notin 1..Echo /\ None \in 0..Echo
    BY <1>1
  <1>4. 1..Echo \subseteq 0..Echo /\ Prompt \subseteq 1..Echo
    BY <1>1
  <1> QED BY <1>2, <1>3, <1>4

\* The records made for no turn and for a new turn are turns without output.
LEMMA NoTurnIsATurn ==
  /\ NoTurn \in TurnRecord /\ ~NoTurn.settle /\ ~NoTurn.open /\ NoTurn.chunks = <<>>
  /\ \A p \in 1..Echo : /\ Turn(p) \in TurnRecord /\ Turn(p).chunks = <<>>
                         /\ Turn(p).prompt = p /\ ~Turn(p).settle
  <1>1. <<>> \in Seq(Output) /\ None \in 0..Echo /\ 1..Echo \subseteq 0..Echo
    BY Prompts
  <1>2. NoTurn \in TurnRecord /\ ~NoTurn.settle /\ ~NoTurn.open /\ NoTurn.chunks = <<>>
    BY <1>1 DEF NoTurn, TurnRecord
  <1>3. ASSUME NEW p \in 1..Echo, NEW t \in TurnRecord, t.chunks = <<>>, ~t.settle
        PROVE  /\ [t EXCEPT !.prompt = p, !.open = TRUE] \in TurnRecord
               /\ [t EXCEPT !.prompt = p, !.open = TRUE].chunks = <<>>
               /\ [t EXCEPT !.prompt = p, !.open = TRUE].prompt = p
               /\ ~[t EXCEPT !.prompt = p, !.open = TRUE].settle
    BY <1>1, <1>3 DEF TurnRecord
  <1>4. ASSUME NEW p \in 1..Echo
        PROVE  /\ Turn(p) \in TurnRecord /\ Turn(p).chunks = <<>>
               /\ Turn(p).prompt = p /\ ~Turn(p).settle
    BY <1>2, <1>3 DEF Turn
  <1> QED BY <1>2, <1>4

\* A write made of output is a write.
LEMMA JobTypes ==
  ASSUME NEW chunks \in Seq(Output), NEW p \in 0..Echo, NEW asImage \in BOOLEAN
  PROVE  Job(chunks, p, asImage) \in JobRecord
  BY DispatchAssumption DEF Job, JobRecord

(* What is posted, or rendered first. *)
LEMMA ReplyTypes ==
  ASSUME PostTypes, NEW chunks \in Seq(Output), NEW p \in 0..Echo,
         NEW asImage \in BOOLEAN, Reply(chunks, p, asImage)
  PROVE  jobs' \in Seq(JobRecord)
  BY JobTypes DEF PostTypes, Reply

\* Posting the output of a turn keeps the types of what is posted.
LEMMA FlushTypes ==
  ASSUME PostTypes, NEW chunks \in Seq(Output), NEW p \in 0..Echo,
         Flush(chunks, p), UNCHANGED written
  PROVE  PostTypes'
  <1>1. CASE UNCHANGED <<renders, jobs>>
    BY <1>1 DEF PostTypes
  <1>2. CASE renders' = renders \cup {[chunks |-> chunks, closes |-> p]} /\ UNCHANGED jobs
    BY <1>2 DEF PostTypes, Render
  <1>3. CASE Reply(chunks, p, FALSE) /\ UNCHANGED renders
    BY <1>3, ReplyTypes DEF PostTypes
  <1> QED BY <1>1, <1>2, <1>3 DEF Flush

\* So does posting a notice beside the turns.
LEMMA AsideTypes ==
  ASSUME PostTypes, PostsAside
  PROVE  PostTypes'
  <1>1. <<>> \in Seq(Output) /\ None \in 0..Echo
    BY Prompts
  <1>2. jobs' \in Seq(JobRecord)
    BY <1>1, ReplyTypes DEF PostsAside
  <1> QED BY <1>2 DEF PostTypes, PostsAside

\* The types of the variables that a step leaves alone are kept.
LEMMA FrameTypes ==
  ASSUME Types
  PROVE  /\ UNCHANGED <<inboundVars, submitted>> => InboundTypes'
         /\ UNCHANGED postVars => PostTypes'
         /\ UNCHANGED <<turnVars, emitted>> => TurnTypes'
  <1>1. UNCHANGED <<inboundVars, submitted>> => InboundTypes'
    BY DEF Types, InboundTypes, inboundVars
  <1>2. UNCHANGED postVars => PostTypes'
    BY DEF Types, PostTypes, postVars
  <1>3. UNCHANGED <<turnVars, emitted>> => TurnTypes'
    <2>1. UNCHANGED turnVars => UNCHANGED <<item, pending, ambient, timers, submitting, closing>>
      BY DEF turnVars
    <2> QED BY <2>1 DEF Types, TurnTypes
  <1> QED BY <1>1, <1>2, <1>3

(* A turn that is closed: its output goes to a post, and it to closing.    *)
LEMMA FinalizeTypes ==
  ASSUME Types, pending.open, FinalizeDispatch, timers' \subseteq timers
  PROVE  Types'
  <1>1. pending.chunks \in Seq(Output) /\ pending.prompt \in 1..Echo /\ pending.prompt \in 0..Echo
    BY Prompts DEF Types, TurnTypes, TurnRecord, None
  <1>2. PostTypes'
    BY <1>1, FlushTypes DEF FinalizeDispatch, Types
  <1>3. closing' \subseteq Closing
    BY <1>1 DEF Types, TurnTypes, FinalizeDispatch, Closing
  <1>4. UNCHANGED <<inboundVars, submitted, item, ambient, submitting, emitted>> /\ pending' = NoTurn
    BY DEF FinalizeDispatch, ghosts
  <1>5. TurnTypes'
    BY <1>3, <1>4, NoTurnIsATurn DEF Types, TurnTypes
  <1>6. InboundTypes'
    BY <1>4, FrameTypes
  <1> QED BY <1>2, <1>5, <1>6 DEF Types

\* Types: starting the next prompt and the answer to its submission.
LEMMA QueueTypes ==
  ASSUME Types
  PROVE  /\ ProcessDispatch => Types'
         /\ \A p \in Prompt \cup {Echo} : SubmitPromptReturns(p) \/ SubmitPromptFails(p) => Types'
  <1>1. ASSUME ProcessDispatch PROVE Types'
    <2>1. Head(queue) \in 1..Echo /\ Head(queue) \in 0..Echo /\ Tail(queue) \in Seq(Prompt \cup {Echo})
      BY <1>1, Prompts DEF ProcessDispatch, Calm, Types, InboundTypes
    <2>2. UNCHANGED <<binding, noticePosted, seen, ambient, closing, postVars, emitted>>
      BY <1>1 DEF ProcessDispatch
    <2>3. CASE binding # "online"
      <3>1. UNCHANGED <<item, pending, timers, submitting, submitted>> /\ queue' = Tail(queue)
        BY <1>1, <2>3 DEF ProcessDispatch
      <3> QED BY <2>1, <2>2, <3>1, FrameTypes DEF Types, InboundTypes, TurnTypes
    <2>4. CASE binding = "online"
      <3>1. /\ queue' = Tail(queue) /\ item' = Head(queue) /\ pending' = Turn(Head(queue))
            /\ timers' = timers \cup {Head(queue)} /\ submitting' = submitting \cup {Head(queue)}
            /\ submitted' = Append(submitted, Head(queue))
        BY <1>1, <2>4 DEF ProcessDispatch
      <3>2. /\ Turn(Head(queue)) \in TurnRecord /\ ~Turn(Head(queue)).settle
            /\ Turn(Head(queue)).prompt = Head(queue) /\ Head(queue) # None
        BY <2>1, NoTurnIsATurn, Prompts
      <3>3. InboundTypes'
        BY <2>1, <2>2, <3>1 DEF Types, InboundTypes
      <3>4. TurnTypes'
        BY <2>1, <2>2, <3>1, <3>2 DEF Types, TurnTypes
      <3> QED BY <2>2, <3>3, <3>4, FrameTypes DEF Types
    <2> QED BY <2>3, <2>4
  <1>2. ASSUME NEW p \in Prompt \cup {Echo}, SubmitPromptReturns(p) PROVE Types'
    <2>1. /\ UNCHANGED <<inboundVars, submitted, item, pending, ambient, timers, closing, postVars, emitted>>
          /\ submitting' = submitting \ {p}
      BY <1>2 DEF SubmitPromptReturns, ghosts
    <2>2. TurnTypes'
      BY <2>1 DEF Types, TurnTypes
    <2> QED BY <2>1, <2>2, FrameTypes DEF Types
  <1>3. ASSUME NEW p \in Prompt \cup {Echo}, SubmitPromptFails(p) PROVE Types'
    <2>1. /\ UNCHANGED <<inboundVars, submitted, ambient, timers, closing, postVars, emitted>>
          /\ submitting' = submitting \ {p} /\ pending' = NoTurn /\ item' = Resolved(p)
      BY <1>3 DEF SubmitPromptFails, ghosts
    <2>2. Resolved(p) \in 0..Echo
      BY Prompts DEF Types, TurnTypes, Resolved
    <2>3. TurnTypes'
      BY <2>1, <2>2, NoTurnIsATurn DEF Types, TurnTypes
    <2> QED BY <2>1, <2>3, FrameTypes DEF Types
  <1> QED BY <1>1, <1>2, <1>3

\* Types: the settle timers, the ten minutes and their notice.
LEMMA TimerTypes ==
  ASSUME Types
  PROVE  /\ SettleFires \/ StraySettleFires => Types'
         /\ \A p \in Prompt \cup {Echo} : TenMinutes(p) \/ Notified(p) => Types'
  <1>1. ASSUME SettleFires PROVE Types'
    BY <1>1, FinalizeTypes DEF SettleFires, Types, TurnTypes
  <1>2. ASSUME StraySettleFires PROVE Types'
    <2>1. CASE pending.open
      BY <1>2, <2>1, FinalizeTypes DEF StraySettleFires, ghosts
    <2>2. CASE ~pending.open
      <3>1. UNCHANGED <<inboundVars, submitted, item, pending, ambient, timers, submitting, closing, postVars, emitted>>
        BY <1>2, <2>2 DEF StraySettleFires, ghosts
      <3> QED BY <3>1, FrameTypes DEF Types, TurnTypes
    <2> QED BY <2>1, <2>2
  <1>3. ASSUME NEW p \in Prompt \cup {Echo}, TenMinutes(p) PROVE Types'
    <2>1. CASE TimerIsFor(p)
      BY <1>3, <2>1, FinalizeTypes DEF TenMinutes, TimerIsFor
    <2>2. CASE ~TimerIsFor(p)
      <3>1. /\ UNCHANGED <<inboundVars, submitted, item, pending, ambient, submitting, closing, postVars, emitted>>
            /\ timers' \subseteq timers
        BY <1>3, <2>2 DEF TenMinutes, ghosts
      <3> QED BY <3>1, FrameTypes DEF Types, TurnTypes
    <2> QED BY <2>1, <2>2
  <1>4. ASSUME NEW p \in Prompt \cup {Echo}, Notified(p) PROVE Types'
    <2>1. /\ UNCHANGED <<inboundVars, submitted, pending, ambient, timers, submitting, postVars, emitted>>
          /\ closing' \subseteq closing /\ item' = Resolved(p)
      BY <1>4 DEF Notified, ghosts
    <2>2. Resolved(p) \in 0..Echo
      BY Prompts DEF Types, TurnTypes, Resolved
    <2> QED BY <2>1, <2>2, FrameTypes DEF Types, TurnTypes
  <1> QED BY <1>1, <1>2, <1>3, <1>4

\* Types: the events of the agent.
LEMMA EventTypes ==
  ASSUME Types
  PROVE  TurnStart \/ Message \/ TurnEnd \/ ToolStart \/ UserMessage \/ AmbientSettles => Types'
  <1> USE DEF EventFrame
  <1>1. ASSUME TurnStart PROVE Types'
    <2>1. UNCHANGED <<inboundVars, submitted, item, timers, submitting, closing, postVars, emitted>>
      BY <1>1 DEF TurnStart
    <2>2. \/ pending.open /\ pending' = [pending EXCEPT !.settle = FALSE] /\ UNCHANGED ambient
          \/ ambient' = [ambient EXCEPT !.open = TRUE, !.settle = FALSE] /\ UNCHANGED pending
          \/ UNCHANGED <<ambient, pending>>
      BY <1>1 DEF TurnStart
    <2>3. TurnTypes'
      BY <2>1, <2>2 DEF Types, TurnTypes, TurnRecord
    <2> QED BY <2>1, <2>3, FrameTypes DEF Types
  <1>2. ASSUME Message PROVE Types'
    <2>1. UNCHANGED <<inboundVars, submitted, item, timers, submitting, closing, postVars>>
      BY <1>2 DEF Message
    <2>2. emitted' \in 0..MaxOutputs /\ emitted' \in Output
      BY <1>2, DispatchAssumption DEF Message, Types, TurnTypes, Output
    <2>3. Append(pending.chunks, emitted') \in Seq(Output) /\ Append(ambient.chunks, emitted') \in Seq(Output)
      BY <2>2 DEF Types, TurnTypes, TurnRecord
    <2>4. \/ /\ pending.open /\ UNCHANGED ambient
             /\ pending' = [pending EXCEPT !.chunks = Append(@, emitted'), !.settle = FALSE]
          \/ /\ UNCHANGED pending
             /\ ambient' = [ambient EXCEPT !.chunks = Append(@, emitted'), !.open = TRUE, !.settle = FALSE]
      BY <1>2 DEF Message
    <2>5. TurnTypes'
      BY <2>1, <2>2, <2>3, <2>4 DEF Types, TurnTypes, TurnRecord
    <2> QED BY <2>1, <2>5, FrameTypes DEF Types
  <1>3. ASSUME TurnEnd PROVE Types'
    <2>1. UNCHANGED <<inboundVars, submitted, item, timers, submitting, closing, written, emitted>>
      BY <1>3 DEF TurnEnd
    <2>2. <<>> \in Seq(Output) /\ None \in 0..Echo /\ pending.chunks \in Seq(Output) /\ ambient.chunks \in Seq(Output)
      BY Prompts DEF Types, TurnTypes, TurnRecord
    <2>3. \/ /\ pending.open /\ Flush(pending.chunks, None) /\ UNCHANGED ambient
             /\ pending' = [pending EXCEPT !.chunks = <<>>, !.settle = TRUE]
          \/ /\ Flush(ambient.chunks, None) /\ UNCHANGED pending
             /\ ambient' = [ambient EXCEPT !.chunks = <<>>, !.settle = TRUE]
          \/ UNCHANGED <<pending, ambient, renders, jobs>>
      BY <1>3 DEF TurnEnd
    <2>4. TurnTypes'
      BY <2>1, <2>2, <2>3 DEF Types, TurnTypes, TurnRecord
    <2>5. PostTypes'
      BY <2>1, <2>2, <2>3, FlushTypes DEF Types, PostTypes
    <2> QED BY <2>1, <2>4, <2>5, FrameTypes DEF Types
  <1>4. ASSUME ToolStart PROVE Types'
    <2>1. UNCHANGED <<inboundVars, submitted, item, timers, submitting, closing, ambient, emitted>>
      BY <1>4 DEF ToolStart
    <2>2. pending.open /\ pending' = [pending EXCEPT !.settle = FALSE]
      BY <1>4 DEF ToolStart
    <2>3. TurnTypes'
      BY <2>1, <2>2 DEF Types, TurnTypes, TurnRecord
    <2>4. PostsAside \/ UNCHANGED postVars
      BY <1>4 DEF ToolStart
    <2> QED BY <2>1, <2>3, <2>4, FrameTypes, AsideTypes DEF Types
  <1>5. ASSUME UserMessage PROVE Types'
    <2>1. UNCHANGED <<inboundVars, submitted, item, timers, submitting, closing, pending, ambient, emitted>> /\ PostsAside
      BY <1>5 DEF UserMessage
    <2> QED BY <2>1, FrameTypes, AsideTypes DEF Types, TurnTypes
  <1>6. ASSUME AmbientSettles PROVE Types'
    <2>1. /\ UNCHANGED <<inboundVars, submitted, item, timers, submitting, closing, pending, written, emitted>>
          /\ ambient' = NoTurn /\ Flush(ambient.chunks, None)
      BY <1>6 DEF AmbientSettles
    <2>2. ambient.chunks \in Seq(Output) /\ None \in 0..Echo
      BY Prompts DEF Types, TurnTypes, TurnRecord
    <2>3. PostTypes'
      BY <2>1, <2>2, FlushTypes DEF Types
    <2>4. TurnTypes'
      BY <2>1, NoTurnIsATurn DEF Types, TurnTypes
    <2> QED BY <2>1, <2>3, <2>4, FrameTypes DEF Types
  <1> QED BY <1>1, <1>2, <1>3, <1>4, <1>5, <1>6

\* Types: a turn that closes leaves fewer turns to close.
LEMMA ClosesTypes ==
  ASSUME closing \subseteq Closing, NEW p
  PROVE  Closes(p) \subseteq Closing
  <1>1. \A c \in Closing : [c EXCEPT !.stage = "notify"] \in Closing
    BY DEF Closing
  <1> QED BY <1>1 DEF Closes

\* Types: renders, and the writes with their retries and their fall back to text.
LEMMA WriteTypes ==
  ASSUME Types
  PROVE  Posts => Types'
  <1> USE DEF PostFrame
  <1>1. ASSUME NEW r \in renders, RenderEnds(r) PROVE Types'
    <2>1. UNCHANGED <<inboundVars, submitted, item, pending, ambient, timers, submitting, closing, emitted, written>>
          /\ renders' \subseteq renders
      BY <1>1 DEF RenderEnds
    <2>2. r.chunks \in Seq(Output) /\ r.closes \in 0..Echo
      BY DEF Types, PostTypes, Render
    <2>3. PICK asImage \in BOOLEAN : Reply(r.chunks, r.closes, asImage)
      BY <1>1 DEF RenderEnds
    <2>4. jobs' \in Seq(JobRecord)
      BY <2>2, <2>3, ReplyTypes DEF Types
    <2> QED BY <2>1, <2>4, FrameTypes DEF Types, TurnTypes, PostTypes
  <1>2. ASSUME IsStored PROVE Types'
    <2>1. UNCHANGED <<inboundVars, submitted, item, pending, ambient, timers, submitting, closing, emitted, renders>>
      BY <1>2 DEF IsStored
    <2>2. /\ jobs # <<>> /\ written' = written + 1
          /\ jobs' = [jobs EXCEPT ![1] = [@ EXCEPT !.stored = TRUE, !.id = written']]
      BY <1>2 DEF IsStored
    <2>3. written' \in Nat /\ jobs[1] \in JobRecord
      BY <2>2 DEF Types, PostTypes
    <2>4. [jobs[1] EXCEPT !.stored = TRUE, !.id = written'] \in JobRecord
      BY <2>3 DEF JobRecord
    <2>5. jobs' \in Seq(JobRecord)
      BY <2>2, <2>4 DEF Types, PostTypes
    <2> QED BY <2>1, <2>3, <2>5, FrameTypes DEF Types, TurnTypes, PostTypes
  <1>3. ASSUME IsAnswered PROVE Types'
    <2>1. /\ UNCHANGED <<inboundVars, submitted, item, pending, ambient, timers, submitting, emitted, renders, written>>
          /\ jobs # <<>> /\ jobs' = Tail(jobs) /\ closing' = Closes(Head(jobs).closes)
      BY <1>3 DEF IsAnswered
    <2>2. jobs' \in Seq(JobRecord)
      BY <2>1 DEF Types, PostTypes
    <2>3. closing' \subseteq Closing
      BY <2>1, ClosesTypes DEF Types, TurnTypes
    <2> QED BY <2>1, <2>2, <2>3, FrameTypes DEF Types, TurnTypes, PostTypes
  <1>4. ASSUME IsRefused PROVE Types'
    <2>1. /\ UNCHANGED <<inboundVars, submitted, item, pending, ambient, timers, submitting, emitted, renders, written>>
          /\ jobs # <<>>
      BY <1>4 DEF IsRefused
    <2>2. Head(jobs) = jobs[1] /\ jobs[1] \in JobRecord /\ Tail(jobs) \in Seq(JobRecord)
      BY <2>1 DEF Types, PostTypes
    <2>3. \/ jobs' = [jobs EXCEPT ![1].tries = @ + 1] /\ jobs[1].tries # MaxRetries /\ UNCHANGED closing
          \/ /\ jobs' = Append(Tail(jobs), Job(Head(jobs).chunks, Head(jobs).closes, FALSE))
             /\ UNCHANGED closing
          \/ jobs' = Tail(jobs) /\ closing' = Closes(Head(jobs).closes)
      BY <1>4, <2>2 DEF IsRefused, GivenUp
    <2>4. closing' \subseteq Closing
      BY <2>3, ClosesTypes DEF Types, TurnTypes
    <2>5. CASE jobs' = [jobs EXCEPT ![1].tries = @ + 1] /\ jobs[1].tries # MaxRetries
      <3>1. [jobs[1] EXCEPT !.tries = @ + 1] \in JobRecord
        <4>1. jobs[1].tries + 1 \in 0..MaxRetries
          <5>1. jobs[1].tries \in 0..MaxRetries
            BY <2>2 DEF JobRecord
          <5> QED BY <5>1, <2>5, DispatchAssumption
        <4> QED BY <2>2, <4>1 DEF JobRecord
      <3>2. jobs' \in Seq(JobRecord)
        BY <2>1, <2>5, <3>1 DEF Types, PostTypes
      <3> QED BY <2>1, <2>4, <3>2, FrameTypes DEF Types, TurnTypes, PostTypes
    <2>6. CASE jobs' = Append(Tail(jobs), Job(Head(jobs).chunks, Head(jobs).closes, FALSE))
      <3>1. Head(jobs).chunks \in Seq(Output) /\ Head(jobs).closes \in 0..Echo
        BY <2>2 DEF JobRecord
      <3>2. Job(Head(jobs).chunks, Head(jobs).closes, FALSE) \in JobRecord
        BY <3>1, JobTypes
      <3>3. jobs' \in Seq(JobRecord)
        BY <2>2, <2>6, <3>2, AppendProperties
      <3> QED BY <2>1, <2>4, <3>3, FrameTypes DEF Types, TurnTypes, PostTypes
    <2>7. CASE jobs' = Tail(jobs)
      <3>1. jobs' \in Seq(JobRecord)
        BY <2>2, <2>7
      <3> QED BY <2>1, <2>4, <3>1, FrameTypes DEF Types, TurnTypes, PostTypes
    <2> QED BY <2>3, <2>5, <2>6, <2>7
  <1> QED BY <1>1, <1>2, <1>3, <1>4 DEF Posts

\* Types: replies of a person, echoes, commands, going offline and coming back.
LEMMA ThreadTypes ==
  ASSUME Types
  PROVE  /\ \A p \in Prompt : Inbound(p) => Types'
         /\ \A id \in echoes : EchoArrives(id) => Types'
         /\ SlashCommand \/ GoesOffline \/ ComesBack => Types'
  <1> USE DEF InboundFrame
  <1>1. ASSUME NEW p \in Prompt, Inbound(p) PROVE Types'
    <2>1. UNCHANGED <<turnVars, emitted, binding, submitted>> /\ seen' = seen \cup {p}
      BY <1>1 DEF Inbound, ghosts
    <2>2. /\ queue' = Append(queue, p) \/ UNCHANGED queue
          /\ noticePosted' = TRUE \/ UNCHANGED noticePosted
          /\ PostsAside \/ UNCHANGED postVars
      BY <1>1 DEF Inbound, Accepts
    <2>3. queue' \in Seq(Prompt \cup {Echo})
      BY <2>2, AppendProperties DEF Types, InboundTypes
    <2>4. InboundTypes'
      BY <2>1, <2>2, <2>3 DEF Types, InboundTypes
    <2> QED BY <2>1, <2>2, <2>4, FrameTypes, AsideTypes DEF Types
  <1>2. ASSUME NEW id \in echoes, EchoArrives(id) PROVE Types'
    <2>1. UNCHANGED <<turnVars, emitted, binding, noticePosted, seen, submitted, renders, jobs, written>>
      BY <1>2 DEF EchoArrives, ghosts
    <2>2. queue' = Append(queue, Echo) \/ UNCHANGED queue
      BY <1>2 DEF EchoArrives, Accepts
    <2>3. InboundTypes'
      BY <2>1, <2>2 DEF Types, InboundTypes
    <2> QED BY <2>1, <2>3, FrameTypes DEF Types, PostTypes
  <1>3. ASSUME SlashCommand PROVE Types'
    <2>1. UNCHANGED <<turnVars, emitted, inboundVars, submitted>> /\ PostsAside
      BY <1>3 DEF SlashCommand, ghosts
    <2> QED BY <2>1, FrameTypes, AsideTypes DEF Types
  <1>4. ASSUME GoesOffline PROVE Types'
    <2>1. /\ UNCHANGED <<noticePosted, seen, timers, submitting, closing, postVars, emitted, submitted>>
          /\ binding' \in {"online", "paused", "gone"} /\ queue' = <<>> /\ pending' = NoTurn /\ ambient' = NoTurn
          /\ item' = Resolved(pending.prompt) \/ UNCHANGED item
      BY <1>4 DEF GoesOffline
    <2>2. Resolved(pending.prompt) \in 0..Echo
      BY Prompts DEF Types, TurnTypes, Resolved
    <2>3. InboundTypes'
      BY <2>1 DEF Types, InboundTypes
    <2>4. TurnTypes'
      BY <2>1, <2>2, NoTurnIsATurn DEF Types, TurnTypes
    <2> QED BY <2>1, <2>3, <2>4, FrameTypes DEF Types
  <1>5. ASSUME ComesBack PROVE Types'
    <2>1. /\ UNCHANGED <<noticePosted, seen, queue, turnVars, postVars, emitted, submitted>>
          /\ binding' = "online"
      BY <1>5 DEF ComesBack, ghosts
    <2>2. InboundTypes'
      BY <2>1 DEF Types, InboundTypes
    <2> QED BY <2>1, <2>2, FrameTypes DEF Types
  <1> QED BY <1>1, <1>2, <1>3, <1>4, <1>5

\* Every step keeps the types.
LEMMA TypesAreKept ==
  ASSUME Types, [Next]_dispatchVars
  PROVE  Types'
  <1>1. CASE UNCHANGED dispatchVars
    <2>1. UNCHANGED <<inboundVars, submitted, postVars, turnVars, emitted>>
      BY <1>1 DEF dispatchVars, ghosts
    <2> QED BY <2>1, FrameTypes DEF Types
  <1>2. CASE ProcessDispatch
    BY <1>2, QueueTypes
  <1>3. ASSUME NEW p \in Prompt \cup {Echo}, Timers(p) PROVE Types'
    BY <1>3, QueueTypes, TimerTypes DEF Timers
  <1>4. CASE SettleFires \/ StraySettleFires \/ AmbientSettles
    BY <1>4, TimerTypes, EventTypes
  <1>5. CASE Agent
    BY <1>5, EventTypes DEF Agent
  <1>6. CASE Posts
    BY <1>6, WriteTypes
  <1>7. CASE (\E p \in Prompt : Inbound(p)) \/ (\E id \in echoes : EchoArrives(id))
    BY <1>7, ThreadTypes
  <1>8. CASE SlashCommand \/ GoesOffline \/ ComesBack
    BY <1>8, ThreadTypes
  <1> QED BY <1>1, <1>2, <1>3, <1>4, <1>5, <1>6, <1>7, <1>8 DEF Next

(* The thread starts idle. *)
LEMMA FirstTypes ==
  ASSUME Init
  PROVE  Types
  <1>1. <<>> \in Seq(Prompt \cup {Echo}) /\ <<>> \in Seq(1..Echo) /\ <<>> \in Seq(JobRecord)
    OBVIOUS
  <1>2. 0 \in 0..MaxOutputs
    BY DispatchAssumption
  <1>3. InboundTypes
    BY <1>1 DEF Init, InboundTypes
  <1>4. TurnTypes
    BY <1>2, Prompts, NoTurnIsATurn DEF Init, TurnTypes
  <1>5. PostTypes
    BY <1>1 DEF Init, PostTypes
  <1> QED BY <1>3, <1>4, <1>5 DEF Types

(* Every variable of the thread keeps its type, whatever the numbers of    *)
(* prompts, of pieces of output and of retries: a prompt that is taken is  *)
(* one of those that wait, a turn that may settle is open, and a write is  *)
(* never tried more often than postWithRetry allows.                       *)
THEOREM DispatchTypes == Spec => []TypeOK
  <1>1. Init => Types
    BY FirstTypes
  <1>2. Types /\ [Next]_dispatchVars => Types'
    BY TypesAreKept
  <1> QED BY <1>1, <1>2, TypesAreOK, PTL DEF Spec

-----------------------------------------------------------------------------
(* Sequences without repetition. *)

\* The empty sequence holds nothing, and that once.
LEMMA NothingIsHeld == ToSet(<<>>) = {} /\ IsInjective(<<>>)
  BY DEF ToSet, IsInjective

\* Appending adds one element, and keeps a sequence without repetition so when the element is
\* new.
LEMMA OneMore ==
  ASSUME NEW S, NEW s \in Seq(S), NEW x \in S
  PROVE  /\ ToSet(Append(s, x)) = ToSet(s) \cup {x}
         /\ IsInjective(s) /\ x \notin ToSet(s) => IsInjective(Append(s, x))
  <1>1. /\ DOMAIN Append(s, x) = DOMAIN s \cup {Len(s) + 1} /\ Len(s) + 1 \notin DOMAIN s
        /\ \A i \in DOMAIN s : Append(s, x)[i] = s[i]
        /\ Append(s, x)[Len(s) + 1] = x
    OBVIOUS
  <1>2. ToSet(Append(s, x)) = ToSet(s) \cup {x}
    BY <1>1 DEF ToSet
  <1>3. ASSUME IsInjective(s), x \notin ToSet(s) PROVE IsInjective(Append(s, x))
    BY <1>1, <1>3 DEF ToSet, IsInjective
  <1> QED BY <1>2, <1>3

\* What the rest of a sequence holds and where, and that it lacks the first element when
\* nothing repeats.
LEMMA OneLess ==
  ASSUME NEW S, NEW s \in Seq(S), s # <<>>
  PROVE  /\ Head(s) = s[1] /\ 1 \in DOMAIN s /\ Head(s) \in ToSet(s)
         /\ Tail(s) \in Seq(S) /\ \A i \in DOMAIN Tail(s) : i + 1 \in DOMAIN s /\ i + 1 # 1 /\ Tail(s)[i] = s[i + 1]
         /\ \A i \in DOMAIN s : i # 1 => i - 1 \in DOMAIN Tail(s) /\ Tail(s)[i - 1] = s[i]
         /\ ToSet(s) = ToSet(Tail(s)) \cup {Head(s)}
         /\ IsInjective(s) => IsInjective(Tail(s)) /\ Head(s) \notin ToSet(Tail(s))
  <1>1. /\ Head(s) = s[1] /\ 1 \in DOMAIN s /\ Tail(s) \in Seq(S)
        /\ DOMAIN Tail(s) = 1..(Len(s) - 1) /\ DOMAIN s = 1..Len(s) /\ Len(s) \in Nat
        /\ \A i \in 1..(Len(s) - 1) : Tail(s)[i] = s[i + 1]
    OBVIOUS
  <1>2. \A i \in DOMAIN Tail(s) : i + 1 \in DOMAIN s /\ i + 1 # 1 /\ Tail(s)[i] = s[i + 1]
    BY <1>1
  <1>3. \A i \in DOMAIN s : i # 1 => i - 1 \in DOMAIN Tail(s) /\ Tail(s)[i - 1] = s[i]
    BY <1>1
  <1>4. Head(s) \in ToSet(s)
    BY <1>1 DEF ToSet
  <1>5. ToSet(s) \subseteq ToSet(Tail(s)) \cup {Head(s)}
    <2>1. ASSUME NEW i \in DOMAIN s PROVE s[i] \in ToSet(Tail(s)) \cup {Head(s)}
      <3>1. CASE i = 1
        BY <1>1, <3>1
      <3>2. CASE i # 1
        BY <1>3, <3>2 DEF ToSet
      <3> QED BY <3>1, <3>2
    <2> QED BY <2>1 DEF ToSet
  <1>6. ToSet(Tail(s)) \subseteq ToSet(s)
    BY <1>2 DEF ToSet
  <1>7. ASSUME IsInjective(s) PROVE IsInjective(Tail(s)) /\ Head(s) \notin ToSet(Tail(s))
    <2>1. \A i, k \in DOMAIN Tail(s) : Tail(s)[i] = Tail(s)[k] => i + 1 = k + 1
      BY <1>2, <1>7 DEF IsInjective
    <2>2. IsInjective(Tail(s))
      BY <2>1, <1>1 DEF IsInjective
    <2>3. Head(s) \notin ToSet(Tail(s))
      BY <1>1, <1>2, <1>7 DEF IsInjective, ToSet
    <2> QED BY <2>2, <2>3
  <1> QED BY <1>1, <1>2, <1>3, <1>4, <1>5, <1>6, <1>7

-----------------------------------------------------------------------------
(* What the filter has seen is what waits, what was submitted, or gone.    *)
SeenInv ==
    /\ IsInjective(queue) /\ IsInjective(submitted)
    /\ ToSet(queue) \cap ToSet(submitted) = {}
    /\ ToSet(queue) \cup ToSet(submitted) \subseteq seen

(* An echo is of a post that is remembered, or whose answer is on its way. *)
EchoInv ==
    \A id \in echoes : \/ id \in postedMessageIds
                       \/ \E i \in DOMAIN jobs : jobs[i].stored /\ jobs[i].id = id

(* What becomes of the thread's writes when something is posted.           *)
Posted == \E chunks, p, asImage : jobs' = Append(jobs, Job(chunks, p, asImage))

\* Posting the output of a turn adds at most one write.
LEMMA FlushPosts ==
  ASSUME NEW chunks, NEW p, Flush(chunks, p)
  PROVE  UNCHANGED jobs \/ Posted
  BY DEF Flush, Reply, Posted

\* A notice adds one write and touches nothing else of the posts.
LEMMA AsidePosts ==
  ASSUME PostsAside
  PROVE  Posted /\ UNCHANGED <<renders, echoes, written, postedMessageIds>>
  BY DEF PostsAside, Reply, Posted

\* Closing a turn adds at most one write and leaves the replies, the echoes and the output
\* already settled.
LEMMA FinalizePosts ==
  ASSUME FinalizeDispatch
  PROVE  /\ UNCHANGED jobs \/ Posted
         /\ UNCHANGED <<echoes, postedMessageIds, queue, submitted, seen, binding, emitted, settledOutput, cut>>
  BY FlushPosts DEF FinalizeDispatch, inboundVars, ghosts

(* The steps that say nothing about echoes, and those about the queue.     *)
Quiet == UNCHANGED <<echoes, postedMessageIds>> /\ (UNCHANGED jobs \/ Posted)
Still == UNCHANGED <<queue, submitted, seen>>

\* No step of the queue, the timers or the agent stores a write or delivers an echo; only the
\* queue submits.
LEMMA TurnStepsAreQuiet ==
  /\ ProcessDispatch => Quiet
  /\ \A p \in Prompt \cup {Echo} : Timers(p) => Quiet /\ Still
  /\ SettleFires \/ StraySettleFires \/ AmbientSettles => Quiet /\ Still
  /\ Agent => Quiet /\ Still
  <1> USE DEF Quiet, Still, postVars, inboundVars, ghosts
  <1>1. ProcessDispatch => Quiet
    BY DEF ProcessDispatch
  <1>2. ASSUME NEW p \in Prompt \cup {Echo}, Timers(p) PROVE Quiet /\ Still
    <2>1. CASE TenMinutes(p)
      BY <2>1, FinalizePosts DEF TenMinutes
    <2>2. CASE Notified(p)
      BY <2>2 DEF Notified
    <2>3. CASE SubmitPromptReturns(p)
      BY <2>3 DEF SubmitPromptReturns
    <2>4. CASE SubmitPromptFails(p)
      BY <2>4 DEF SubmitPromptFails
    <2> QED BY <1>2, <2>1, <2>2, <2>3, <2>4 DEF Timers
  <1>3. ASSUME SettleFires PROVE Quiet /\ Still
    BY <1>3, FinalizePosts DEF SettleFires
  <1>4. ASSUME StraySettleFires PROVE Quiet /\ Still
    BY <1>4, FinalizePosts DEF StraySettleFires
  <1>5. ASSUME AmbientSettles PROVE Quiet /\ Still
    BY <1>5, FlushPosts DEF AmbientSettles, EventFrame
  <1>6. ASSUME Agent PROVE Quiet /\ Still
    <2>1. CASE TurnStart
      BY <2>1 DEF TurnStart, EventFrame
    <2>2. CASE Message
      BY <2>2 DEF Message, EventFrame
    <2>3. CASE TurnEnd
      BY <2>3, FlushPosts DEF TurnEnd, EventFrame
    <2>4. CASE ToolStart
      BY <2>4, AsidePosts DEF ToolStart, EventFrame
    <2>5. CASE UserMessage
      BY <2>5, AsidePosts DEF UserMessage, EventFrame
    <2> QED BY <1>6, <2>1, <2>2, <2>3, <2>4, <2>5 DEF Agent
  <1> QED BY <1>1, <1>2, <1>3, <1>4, <1>5, <1>6

\* The same for replies, commands, going offline and coming back, while the writes submit
\* nothing.
LEMMA ThreadStepsAreQuiet ==
  /\ \A p \in Prompt : Inbound(p) => Quiet
  /\ SlashCommand => Quiet /\ Still
  /\ GoesOffline => Quiet /\ UNCHANGED <<submitted, seen>> /\ queue' = <<>>
  /\ ComesBack => Quiet /\ Still
  /\ Posts => Still
  <1> USE DEF Quiet, Still, postVars, inboundVars, ghosts
  <1>1. ASSUME NEW p \in Prompt, Inbound(p) PROVE Quiet
    <2>1. PostsAside \/ UNCHANGED postVars
      BY <1>1 DEF Inbound
    <2> QED BY <2>1, AsidePosts
  <1>2. SlashCommand => Quiet /\ Still
    BY AsidePosts DEF SlashCommand, InboundFrame
  <1>3. GoesOffline => Quiet /\ UNCHANGED <<submitted, seen>> /\ queue' = <<>>
    BY DEF GoesOffline
  <1>4. ComesBack => Quiet /\ Still
    BY DEF ComesBack
  <1>5. Posts => Still
    BY DEF Posts, RenderEnds, IsStored, IsAnswered, IsRefused, PostFrame
  <1> QED BY <1>1, <1>2, <1>3, <1>4, <1>5

\* The invariant on echoes survives a step that forgets no posted message and takes no stored
\* write away unrecorded.
LEMMA EchoCarries ==
  ASSUME EchoInv, echoes' \subseteq echoes, postedMessageIds \subseteq postedMessageIds',
         \A i \in DOMAIN jobs : jobs[i].stored =>
            \/ jobs[i].id \in postedMessageIds'
            \/ \E k \in DOMAIN jobs' : jobs'[k].stored /\ jobs'[k].id = jobs[i].id
  PROVE  EchoInv'
  BY DEF EchoInv

\* It survives a step that adds at most one write.
LEMMA QuietEchoes ==
  ASSUME Types, EchoInv, Quiet
  PROVE  EchoInv'
  <1>1. ASSUME Posted, NEW i \in DOMAIN jobs
        PROVE  i \in DOMAIN jobs' /\ jobs'[i] = jobs[i]
    <2>1. PICK job : jobs' = Append(jobs, job)
      BY <1>1 DEF Posted
    <2> QED BY <2>1 DEF Types, PostTypes
  <1> QED BY <1>1 DEF Quiet, EchoInv

\* It survives every step, as long as no echo overtakes the answer to its own post.
LEMMA EchoStep ==
  ASSUME Types, EchoInv, [Next]_dispatchVars, ~EarlyEchoes
  PROVE  EchoInv'
  <1> USE DEF Types, PostTypes
  <1>1. CASE Quiet
    BY <1>1, QuietEchoes
  <1>2. CASE UNCHANGED dispatchVars
    BY <1>1, <1>2 DEF dispatchVars, postVars, Quiet
  <1>3. ASSUME NEW r \in renders, RenderEnds(r) PROVE EchoInv'
    <2>1. Quiet
      BY <1>3 DEF RenderEnds, Reply, Quiet, Posted
    <2> QED BY <1>1, <2>1
  <1>4. ASSUME IsStored PROVE EchoInv'
    <2>1. /\ jobs # <<>> /\ ~jobs[1].stored /\ 1 \in DOMAIN jobs /\ jobs[1] \in JobRecord
          /\ UNCHANGED postedMessageIds /\ echoes' = echoes \cup {written'}
          /\ jobs' = [jobs EXCEPT ![1] = [@ EXCEPT !.stored = TRUE, !.id = written']]
      BY <1>4 DEF IsStored
    <2>2. jobs'[1].stored /\ jobs'[1].id = written' /\ DOMAIN jobs' = DOMAIN jobs
      BY <2>1 DEF JobRecord
    <2>3. \A i \in DOMAIN jobs : i # 1 => jobs'[i] = jobs[i]
      BY <2>1
    <2> QED BY <2>1, <2>2, <2>3 DEF EchoInv
  <1>5. ASSUME IsAnswered PROVE EchoInv'
    <2>1. /\ jobs # <<>> /\ jobs' = Tail(jobs) /\ UNCHANGED echoes
          /\ postedMessageIds' = postedMessageIds \cup {Head(jobs).id}
      BY <1>5 DEF IsAnswered, Remembered
    <2>2. /\ Head(jobs) = jobs[1]
          /\ \A i \in DOMAIN jobs : i # 1 => i - 1 \in DOMAIN jobs' /\ jobs'[i - 1] = jobs[i]
      BY <2>1, OneLess
    <2>3. ASSUME NEW i \in DOMAIN jobs, jobs[i].stored
          PROVE  \/ jobs[i].id \in postedMessageIds'
                 \/ \E k \in DOMAIN jobs' : jobs'[k].stored /\ jobs'[k].id = jobs[i].id
      BY <2>1, <2>2, <2>3
    <2> QED BY <2>1, <2>3, EchoCarries
  <1>6. ASSUME IsRefused PROVE EchoInv'
    <2>1. jobs # <<>> /\ ~Head(jobs).stored /\ UNCHANGED <<echoes, postedMessageIds>>
      BY <1>6 DEF IsRefused
    <2>2. /\ Head(jobs) = jobs[1] /\ jobs[1] \in JobRecord /\ Tail(jobs) \in Seq(JobRecord)
          /\ \A i \in DOMAIN jobs : i # 1 => i - 1 \in DOMAIN Tail(jobs) /\ Tail(jobs)[i - 1] = jobs[i]
      BY <2>1, OneLess
    <2>3. \A i \in DOMAIN jobs : jobs[i].stored => i # 1
      BY <2>1, <2>2
    <2>4. CASE jobs' = [jobs EXCEPT ![1].tries = @ + 1]
      <3>1. \A i \in DOMAIN jobs : i # 1 => i \in DOMAIN jobs' /\ jobs'[i] = jobs[i]
        BY <2>4
      <3> QED BY <2>1, <2>3, <3>1, EchoCarries
    <2>5. CASE jobs' = Tail(jobs)
      <3>1. \A i \in DOMAIN jobs : i # 1 => i - 1 \in DOMAIN jobs' /\ jobs'[i - 1] = jobs[i]
        BY <2>2, <2>5
      <3>2. ASSUME NEW i \in DOMAIN jobs, jobs[i].stored
            PROVE  \E k \in DOMAIN jobs' : jobs'[k].stored /\ jobs'[k].id = jobs[i].id
        BY <2>3, <3>1, <3>2
      <3> QED BY <2>1, <3>2, EchoCarries
    <2>6. CASE \E job : jobs' = Append(Tail(jobs), job)
      <3>1. PICK job : jobs' = Append(Tail(jobs), job)
        BY <2>6
      <3>2. \A i \in DOMAIN Tail(jobs) : i \in DOMAIN jobs' /\ jobs'[i] = Tail(jobs)[i]
        BY <2>2, <3>1
      <3>3. ASSUME NEW i \in DOMAIN jobs, jobs[i].stored
            PROVE  \E k \in DOMAIN jobs' : jobs'[k].stored /\ jobs'[k].id = jobs[i].id
        BY <2>2, <2>3, <3>2, <3>3
      <3> QED BY <2>1, <3>3, EchoCarries
    <2> QED BY <1>6, <2>4, <2>5, <2>6 DEF IsRefused
  <1>7. ASSUME NEW id \in echoes, EchoArrives(id) PROVE EchoInv'
    BY <1>7 DEF EchoArrives, EchoInv
  <1>8. CASE Posts
    BY <1>3, <1>4, <1>5, <1>6, <1>8 DEF Posts
  <1> QED BY <1>1, <1>2, <1>7, <1>8, TurnStepsAreQuiet, ThreadStepsAreQuiet DEF Next

\* Every step preserves the invariant on what was seen, queued and submitted.
LEMMA SeenStep ==
  ASSUME Types, SeenInv, EchoInv, [Next]_dispatchVars, ~EarlyEchoes
  PROVE  SeenInv'
  <1> USE DEF Types, InboundTypes
  <1>1. CASE Still
    BY <1>1 DEF Still, SeenInv
  <1>2. CASE UNCHANGED dispatchVars
    BY <1>1, <1>2 DEF dispatchVars, inboundVars, ghosts, Still
  <1>3. ASSUME ProcessDispatch PROVE SeenInv'
    <2>1. queue # <<>> /\ queue' = Tail(queue) /\ UNCHANGED seen
      BY <1>3 DEF ProcessDispatch, Calm
    <2>2. /\ ToSet(queue) = ToSet(queue') \cup {Head(queue)} /\ IsInjective(queue')
          /\ Head(queue) \notin ToSet(queue') /\ Head(queue) \in 1..Echo /\ Head(queue) \notin ToSet(submitted)
      BY <2>1, OneLess, Prompts DEF SeenInv
    <2>3. UNCHANGED submitted \/ submitted' = Append(submitted, Head(queue))
      BY <1>3 DEF ProcessDispatch
    <2>4. /\ ToSet(Append(submitted, Head(queue))) = ToSet(submitted) \cup {Head(queue)}
          /\ IsInjective(Append(submitted, Head(queue)))
      <3>1. PICK T : T = 1..Echo
        OBVIOUS
      <3>2. submitted \in Seq(T) /\ Head(queue) \in T /\ IsInjective(submitted)
        BY <2>2, <3>1 DEF SeenInv
      <3> QED BY <2>2, <3>2, OneMore
    <2> QED BY <2>1, <2>2, <2>3, <2>4 DEF SeenInv
  <1>4. ASSUME NEW p \in Prompt, Inbound(p) PROVE SeenInv'
    <2>1. /\ seen' = seen \cup {p} /\ UNCHANGED submitted
          /\ UNCHANGED queue \/ (p \notin seen /\ queue' = Append(queue, p))
      <3>1. seen' = seen \cup {p} /\ UNCHANGED submitted
        BY <1>4 DEF Inbound, InboundFrame, ghosts
      <3>2. UNCHANGED queue \/ (p \notin seen /\ queue' = Append(queue, p))
        BY <1>4 DEF Inbound, SeenBefore, Accepts
      <3> QED BY <3>1, <3>2
    <2>2. /\ ToSet(Append(queue, p)) = ToSet(queue) \cup {p}
          /\ p \notin ToSet(queue) => IsInjective(Append(queue, p))
      BY OneMore DEF SeenInv
    <2> QED BY <2>1, <2>2 DEF SeenInv
  <1>5. ASSUME NEW id \in echoes, EchoArrives(id) PROVE SeenInv'
    <2>1. id \in postedMessageIds
      BY <1>5 DEF EchoArrives, EchoInv
    <2>2. Still
      BY <1>5, <2>1 DEF EchoArrives, IsOwnEcho, InboundFrame, ghosts, Still
    <2> QED BY <1>1, <2>2
  <1>6. ASSUME GoesOffline PROVE SeenInv'
    BY <1>6, ThreadStepsAreQuiet, NothingIsHeld DEF SeenInv
  <1> QED BY <1>1, <1>2, <1>3, <1>4, <1>5, <1>6, TurnStepsAreQuiet, ThreadStepsAreQuiet DEF Next

-----------------------------------------------------------------------------
(* The open turn is that of the item the queue waits for, whose response   *)
(* is not being finished yet; a turn that is not open holds no output.     *)
LinkInv ==
    /\ pending.open => /\ item = pending.prompt /\ item \in ToSet(submitted)
                       /\ \A c \in closing : c.prompt # item
    /\ ~pending.open => pending.chunks = <<>>
    /\ \A c \in closing : c.prompt \in ToSet(submitted)

(* Steps that leave the item and its turn as they are. *)
SameTurn == /\ pending'.open = pending.open /\ pending'.prompt = pending.prompt
            /\ pending'.chunks = <<>> \/ (pending'.chunks = pending.chunks) \/ pending.open
            /\ UNCHANGED <<item, submitted>>

\* The link between a turn and its prompt survives a step that keeps the turn.
LEMMA SameTurnLinks ==
  ASSUME LinkInv, SameTurn, \A c \in closing' : \E d \in closing : d.prompt = c.prompt
  PROVE  LinkInv'
  BY DEF LinkInv, SameTurn

\* It survives the close of a turn,
LEMMA FinalizeLinks ==
  ASSUME Types, LinkInv, pending.open, FinalizeDispatch
  PROVE  LinkInv'
  <1>1. /\ pending' = NoTurn /\ UNCHANGED <<item, submitted>>
        /\ \A c \in closing' : c \in closing \/ c.prompt = pending.prompt
    BY DEF FinalizeDispatch, ghosts
  <1> QED BY <1>1, NoTurnIsATurn DEF LinkInv

\* the events of the agent,
LEMMA EventLinks ==
  ASSUME Types, LinkInv, Agent \/ AmbientSettles
  PROVE  LinkInv'
  <1> USE DEF Types, TurnTypes, TurnRecord, EventFrame
  <1>1. UNCHANGED <<item, submitted, closing>>
    BY DEF Agent, TurnStart, Message, TurnEnd, ToolStart, UserMessage, AmbientSettles
  <1>2. \/ UNCHANGED pending
        \/ pending.open /\ pending' = [pending EXCEPT !.settle = FALSE]
        \/ pending.open /\ pending' = [pending EXCEPT !.chunks = Append(@, emitted'), !.settle = FALSE]
        \/ pending.open /\ pending' = [pending EXCEPT !.chunks = <<>>, !.settle = TRUE]
    BY DEF Agent, TurnStart, Message, TurnEnd, ToolStart, UserMessage, AmbientSettles
  <1>3. SameTurn
    BY <1>1, <1>2 DEF SameTurn
  <1> QED BY <1>1, <1>3, SameTurnLinks

\* (the turns left to close are turns of prompts that were closing)
LEMMA ClosesPrompts ==
  ASSUME Types, NEW p, NEW c \in Closes(p)
  PROVE  \E d \in closing : d.prompt = c.prompt
  <1>1. \A d \in Closing : [d EXCEPT !.stage = "notify"].prompt = d.prompt
    BY DEF Closing
  <1> QED BY <1>1 DEF Closes, Types, TurnTypes

\* and every step.
LEMMA LinkStep ==
  ASSUME Types, SeenInv, LinkInv, [Next]_dispatchVars
  PROVE  LinkInv'
  <1> DEFINE Fixed == UNCHANGED <<item, pending, closing, submitted>>
  <1>1. CASE Fixed
    BY <1>1 DEF LinkInv
  <1>2. CASE UNCHANGED dispatchVars
    BY <1>1, <1>2 DEF dispatchVars, turnVars, ghosts
  <1>3. ASSUME ProcessDispatch PROVE LinkInv'
    <2>1. Head(queue) \in ToSet(queue) /\ Head(queue) \in 1..Echo
      BY <1>3, OneLess, Prompts DEF ProcessDispatch, Calm, Types, InboundTypes
    <2>2. CASE binding # "online"
      BY <1>1, <1>3, <2>2 DEF ProcessDispatch
    <2>3. CASE binding = "online"
      <3>1. /\ item' = Head(queue) /\ pending' = Turn(Head(queue)) /\ UNCHANGED closing
            /\ submitted' = Append(submitted, Head(queue))
        BY <1>3, <2>3 DEF ProcessDispatch
      <3>2. PICK T : T = 1..Echo
        OBVIOUS
      <3>3. submitted \in Seq(T) /\ Head(queue) \in T
        BY <2>1, <3>2 DEF Types, InboundTypes
      <3>4. ToSet(submitted') = ToSet(submitted) \cup {Head(queue)}
        BY <3>1, <3>3, OneMore
      <3>5. pending'.prompt = Head(queue) /\ pending'.chunks = <<>>
        BY <2>1, <3>1, NoTurnIsATurn
      <3>6. \A c \in closing : c.prompt # Head(queue)
        BY <2>1 DEF LinkInv, SeenInv
      <3> QED BY <3>1, <3>4, <3>5, <3>6 DEF LinkInv
    <2> QED BY <2>2, <2>3
  <1>4. ASSUME NEW p \in Prompt \cup {Echo}, Timers(p) PROVE LinkInv'
    <2>1. ASSUME TenMinutes(p) PROVE LinkInv'
      <3>1. CASE TimerIsFor(p)
        BY <2>1, <3>1, FinalizeLinks DEF TenMinutes, TimerIsFor
      <3>2. CASE ~TimerIsFor(p)
        BY <1>1, <2>1, <3>2 DEF TenMinutes, ghosts
      <3> QED BY <3>1, <3>2
    <2>2. ASSUME Notified(p) PROVE LinkInv'
      <3>1. /\ item' = Resolved(p) /\ closing' \subseteq closing /\ UNCHANGED <<pending, submitted>>
            /\ \E c \in closing : c.prompt = p
        BY <2>2 DEF Notified, ghosts
      <3>2. pending.open => UNCHANGED item
        BY <3>1 DEF LinkInv, Resolved
      <3> QED BY <3>1, <3>2 DEF LinkInv
    <2>3. ASSUME SubmitPromptReturns(p) PROVE LinkInv'
      BY <1>1, <2>3 DEF SubmitPromptReturns, ghosts
    <2>4. ASSUME SubmitPromptFails(p) PROVE LinkInv'
      <3>1. pending' = NoTurn /\ UNCHANGED <<closing, submitted>>
        BY <2>4 DEF SubmitPromptFails
      <3> QED BY <3>1, NoTurnIsATurn DEF LinkInv
    <2> QED BY <1>4, <2>1, <2>2, <2>3, <2>4 DEF Timers
  <1>5. ASSUME SettleFires \/ StraySettleFires PROVE LinkInv'
    <2>1. CASE pending.open /\ FinalizeDispatch
      BY <2>1, FinalizeLinks
    <2>2. \/ pending.open /\ FinalizeDispatch
          \/ Fixed
      BY <1>5 DEF SettleFires, StraySettleFires, Types, TurnTypes, ghosts
    <2> QED BY <1>1, <2>1, <2>2
  <1>6. ASSUME Posts PROVE LinkInv'
    <2>1. UNCHANGED <<item, pending, submitted>> /\ (UNCHANGED closing \/ \E p : closing' = Closes(p))
      BY <1>6 DEF Posts, RenderEnds, IsStored, IsAnswered, IsRefused, PostFrame
    <2>2. SameTurn
      BY <2>1 DEF SameTurn
    <2> QED BY <2>1, <2>2, ClosesPrompts, SameTurnLinks
  <1>7. CASE (\E p \in Prompt : Inbound(p)) \/ (\E id \in echoes : EchoArrives(id)) \/ SlashCommand \/ ComesBack
    BY <1>1, <1>7 DEF Inbound, EchoArrives, SlashCommand, ComesBack, InboundFrame, turnVars, ghosts
  <1>8. ASSUME GoesOffline PROVE LinkInv'
    <2>1. pending' = NoTurn /\ UNCHANGED <<closing, submitted>>
      BY <1>8 DEF GoesOffline
    <2> QED BY <2>1, NoTurnIsATurn DEF LinkInv
  <1> QED BY <1>2, <1>3, <1>4, <1>5, <1>6, <1>7, <1>8, EventLinks DEF Next

-----------------------------------------------------------------------------
(* Where the output is: in a turn, a render, a write, or settled or cut.   *)
InPending == ToSet(pending.chunks)
InAmbient == ToSet(ambient.chunks)
Rendered(rs) == UNION {ToSet(r.chunks) : r \in rs}
Held(js) == UNION {ToSet(js[i].chunks) : i \in DOMAIN js}
InPosts == Rendered(renders) \cup Held(jobs)
Gone == settledOutput \cup cut

RendersApart(rs) == \A q, r \in rs : q # r => ToSet(q.chunks) \cap ToSet(r.chunks) = {}
JobsApart(js) == \A i, k \in DOMAIN js : i # k => ToSet(js[i].chunks) \cap ToSet(js[k].chunks) = {}
PostsApart ==
    /\ RendersApart(renders) /\ JobsApart(jobs)
    /\ Rendered(renders) \cap Held(jobs) = {}

(* Each piece of output is in exactly one of these places.                 *)
Partition ==
    /\ IsInjective(pending.chunks) /\ IsInjective(ambient.chunks)
    /\ PostsApart
    /\ settledOutput \cap cut = {}
    /\ InPending \cap (InAmbient \cup InPosts \cup Gone) = {}
    /\ InAmbient \cap (InPosts \cup Gone) = {}
    /\ InPosts \cap Gone = {}
    /\ InPending \cup InAmbient \cup InPosts \cup Gone = 1..emitted

-----------------------------------------------------------------------------
(* How a write is added, taken or changed.                                 *)

\* A write put at the end adds its output to what the writes hold, and keeps the writes apart
\* when that output is new.
LEMMA AddedWrite ==
  ASSUME NEW js \in Seq(JobRecord), NEW job \in JobRecord
  PROVE  /\ Held(Append(js, job)) = Held(js) \cup ToSet(job.chunks)
         /\ (JobsApart(js) /\ ToSet(job.chunks) \cap Held(js) = {}) => JobsApart(Append(js, job))
  <1>1. /\ DOMAIN Append(js, job) = DOMAIN js \cup {Len(js) + 1} /\ Len(js) + 1 \notin DOMAIN js
        /\ \A i \in DOMAIN js : Append(js, job)[i] = js[i]
        /\ Append(js, job)[Len(js) + 1] = job
    OBVIOUS
  <1>2. Held(Append(js, job)) = Held(js) \cup ToSet(job.chunks)
    BY <1>1 DEF Held
  <1>3. \A i \in DOMAIN js : ToSet(js[i].chunks) \subseteq Held(js)
    BY DEF Held
  <1>4. ASSUME JobsApart(js), ToSet(job.chunks) \cap Held(js) = {} PROVE JobsApart(Append(js, job))
    BY <1>1, <1>3, <1>4 DEF JobsApart
  <1> QED BY <1>2, <1>4

\* The first write taken away takes exactly its own output with it.
LEMMA TakenWrite ==
  ASSUME NEW js \in Seq(JobRecord), js # <<>>, JobsApart(js)
  PROVE  /\ Held(js) = Held(Tail(js)) \cup ToSet(Head(js).chunks)
         /\ Held(Tail(js)) \cap ToSet(Head(js).chunks) = {}
         /\ JobsApart(Tail(js))
  <1>1. /\ Head(js) = js[1] /\ 1 \in DOMAIN js
        /\ \A i \in DOMAIN Tail(js) : i + 1 \in DOMAIN js /\ i + 1 # 1 /\ Tail(js)[i] = js[i + 1]
        /\ \A i \in DOMAIN js : i # 1 => i - 1 \in DOMAIN Tail(js) /\ Tail(js)[i - 1] = js[i]
    BY OneLess
  <1>2. \A i, k \in DOMAIN Tail(js) : i \in Nat /\ (i # k => i + 1 # k + 1)
    BY OneLess
  <1>3. JobsApart(Tail(js))
    <2>1. ASSUME NEW i \in DOMAIN Tail(js), NEW k \in DOMAIN Tail(js), i # k
          PROVE  ToSet(Tail(js)[i].chunks) \cap ToSet(Tail(js)[k].chunks) = {}
      <3>1. PICK m \in DOMAIN js : m = i + 1 /\ Tail(js)[i] = js[m]
        BY <1>1
      <3>2. PICK n \in DOMAIN js : n = k + 1 /\ Tail(js)[k] = js[n]
        BY <1>1
      <3>3. m # n
        BY <1>2, <2>1, <3>1, <3>2
      <3> QED BY <3>1, <3>2, <3>3 DEF JobsApart
    <2> QED BY <2>1 DEF JobsApart
  <1>4. Held(Tail(js)) \subseteq Held(js) /\ ToSet(Head(js).chunks) \subseteq Held(js)
    BY <1>1 DEF Held
  <1>5. Held(js) \subseteq Held(Tail(js)) \cup ToSet(Head(js).chunks)
    <2>1. ASSUME NEW i \in DOMAIN js PROVE ToSet(js[i].chunks) \subseteq Held(Tail(js)) \cup ToSet(Head(js).chunks)
      <3>1. CASE i = 1
        BY <1>1, <3>1
      <3>2. CASE i # 1
        BY <1>1, <3>2 DEF Held
      <3> QED BY <3>1, <3>2
    <2> QED BY <2>1 DEF Held
  <1>6. Held(Tail(js)) \cap ToSet(Head(js).chunks) = {}
    <2>1. ASSUME NEW i \in DOMAIN Tail(js) PROVE ToSet(Tail(js)[i].chunks) \cap ToSet(Head(js).chunks) = {}
      BY <1>1 DEF JobsApart
    <2> QED BY <2>1 DEF Held
  <1> QED BY <1>3, <1>4, <1>5, <1>6

\* A write changed in place, with its output kept, changes nothing of what the writes hold.
LEMMA ChangedWrite ==
  ASSUME NEW js \in Seq(JobRecord), NEW ks \in Seq(JobRecord), DOMAIN ks = DOMAIN js,
         \A i \in DOMAIN js : ks[i].chunks = js[i].chunks
  PROVE  Held(ks) = Held(js) /\ (JobsApart(js) => JobsApart(ks))
  BY DEF Held, JobsApart

\* A new render adds its output, and keeps the renders apart when that output is new.
LEMMA AddedRender ==
  ASSUME NEW rs, NEW r
  PROVE  /\ Rendered(rs \cup {r}) = Rendered(rs) \cup ToSet(r.chunks)
         /\ (RendersApart(rs) /\ ToSet(r.chunks) \cap Rendered(rs) = {}) => RendersApart(rs \cup {r})
  <1>1. Rendered(rs \cup {r}) = Rendered(rs) \cup ToSet(r.chunks)
    BY DEF Rendered
  <1>2. \A q \in rs : ToSet(q.chunks) \subseteq Rendered(rs)
    BY DEF Rendered
  <1>3. ASSUME RendersApart(rs), ToSet(r.chunks) \cap Rendered(rs) = {} PROVE RendersApart(rs \cup {r})
    BY <1>2, <1>3 DEF RendersApart
  <1> QED BY <1>1, <1>3

\* A render taken away takes exactly its own output with it.
LEMMA TakenRender ==
  ASSUME NEW rs, NEW r \in rs, RendersApart(rs)
  PROVE  /\ Rendered(rs) = Rendered(rs \ {r}) \cup ToSet(r.chunks)
         /\ Rendered(rs \ {r}) \cap ToSet(r.chunks) = {}
         /\ RendersApart(rs \ {r})
  BY DEF Rendered, RendersApart

(* What is posted, or rendered first, joins the posts as a whole. *)
LEMMA ReplyMoves ==
  ASSUME PostTypes, PostsApart, NEW chunks \in Seq(Output), NEW p \in 0..Echo,
         NEW asImage \in BOOLEAN, Reply(chunks, p, asImage), UNCHANGED renders,
         ToSet(chunks) \cap InPosts = {}
  PROVE  PostsApart' /\ InPosts' = InPosts \cup ToSet(chunks)
  <1>1. Job(chunks, p, asImage) \in JobRecord /\ Job(chunks, p, asImage).chunks = chunks
    BY JobTypes DEF Job
  <1>2. /\ Held(jobs') = Held(jobs) \cup ToSet(chunks)
        /\ JobsApart(jobs')
    BY <1>1, AddedWrite DEF Reply, PostTypes, PostsApart, InPosts
  <1> QED BY <1>2 DEF PostsApart, InPosts

\* Posting output that is not yet posted moves it, all of it, into the renders and writes.
LEMMA FlushMoves ==
  ASSUME PostTypes, PostsApart, NEW chunks \in Seq(Output), NEW p \in 0..Echo,
         Flush(chunks, p), ToSet(chunks) \cap InPosts = {}
  PROVE  PostsApart' /\ InPosts' = InPosts \cup ToSet(chunks)
  <1>1. CASE chunks = <<>>
    BY <1>1, NothingIsHeld DEF Flush, PostsApart, InPosts
  <1>2. CASE renders' = renders \cup {[chunks |-> chunks, closes |-> p]} /\ UNCHANGED jobs
    <2>1. PICK r : r = [chunks |-> chunks, closes |-> p]
      OBVIOUS
    <2>2. r.chunks = chunks /\ renders' = renders \cup {r}
      BY <1>2, <2>1
    <2>3. Rendered(renders') = Rendered(renders) \cup ToSet(chunks) /\ RendersApart(renders')
      BY <2>2, AddedRender DEF PostsApart, InPosts
    <2> QED BY <1>2, <2>3 DEF PostsApart, InPosts
  <1>3. CASE Reply(chunks, p, FALSE) /\ UNCHANGED renders
    BY <1>3, ReplyMoves
  <1> QED BY <1>1, <1>2, <1>3 DEF Flush

\* A notice moves no output.
LEMMA AsideMoves ==
  ASSUME PostTypes, PostsApart, PostsAside
  PROVE  PostsApart' /\ InPosts' = InPosts
  <1>1. <<>> \in Seq(Output) /\ None \in 0..Echo
    BY Prompts
  <1> QED BY <1>1, ReplyMoves, NothingIsHeld DEF PostsAside

-----------------------------------------------------------------------------
(* Each step keeps the partition.                                          *)

\* The partition of the output survives a step that touches none of its parts,
LEMMA NothingMoves ==
  ASSUME Partition, UNCHANGED <<pending, ambient, renders, jobs, emitted, settledOutput, cut>>
  PROVE  Partition'
  BY DEF Partition, PostsApart, InPending, InAmbient, InPosts, Gone

\* and one that only moves output between renders and writes.
LEMMA OnlyPostsMove ==
  ASSUME Partition, PostsApart', InPosts' = InPosts, UNCHANGED <<emitted, settledOutput, cut>>,
         pending'.chunks = pending.chunks, ambient'.chunks = ambient.chunks
  PROVE  Partition'
  BY DEF Partition, InPending, InAmbient, Gone

\* It survives the posting of the output of the turn of the thread,
LEMMA PendingIsPosted ==
  ASSUME Types, Partition, NEW p \in 0..Echo, Flush(pending.chunks, p),
         pending'.chunks = <<>>, UNCHANGED <<ambient, emitted, settledOutput, cut>>
  PROVE  Partition'
  <1>1. pending.chunks \in Seq(Output) /\ ToSet(pending.chunks) \cap InPosts = {}
    BY DEF Types, TurnTypes, TurnRecord, Partition, InPending
  <1>2. PostsApart' /\ InPosts' = InPosts \cup InPending
    BY <1>1, FlushMoves DEF Partition, InPending, Types
  <1>3. InPending' = {} /\ IsInjective(pending'.chunks)
    BY NothingIsHeld DEF InPending
  <1> QED BY <1>2, <1>3 DEF Partition, InAmbient, Gone

\* that of the turn of the app,
LEMMA AmbientIsPosted ==
  ASSUME Types, Partition, NEW p \in 0..Echo, Flush(ambient.chunks, p),
         ambient'.chunks = <<>>, UNCHANGED <<pending, emitted, settledOutput, cut>>
  PROVE  Partition'
  <1>1. ambient.chunks \in Seq(Output) /\ ToSet(ambient.chunks) \cap InPosts = {}
    BY DEF Types, TurnTypes, TurnRecord, Partition, InAmbient
  <1>2. PostsApart' /\ InPosts' = InPosts \cup InAmbient
    BY <1>1, FlushMoves DEF Partition, InAmbient, Types
  <1>3. InAmbient' = {} /\ IsInjective(ambient'.chunks)
    BY NothingIsHeld DEF InAmbient
  <1> QED BY <1>2, <1>3 DEF Partition, InPending, Gone

\* the close of a turn,
LEMMA FinalizeKeeps ==
  ASSUME Types, Partition, pending.open, FinalizeDispatch
  PROVE  Partition'
  <1>1. pending.prompt \in 0..Echo /\ Flush(pending.chunks, pending.prompt)
    BY DEF Types, TurnTypes, TurnRecord, FinalizeDispatch
  <1>2. pending'.chunks = <<>> /\ UNCHANGED <<ambient, emitted, settledOutput, cut>>
    BY NoTurnIsATurn DEF FinalizeDispatch, ghosts
  <1> QED BY <1>1, <1>2, PendingIsPosted

\* the start of the next prompt and the answer to its submission,
LEMMA QueueKeeps ==
  ASSUME Types, LinkInv, Partition, NEW p
  PROVE  ProcessDispatch \/ SubmitPromptReturns(p) \/ SubmitPromptFails(p) => Partition'
  <1>1. ASSUME ProcessDispatch, item = None PROVE Partition'
    <2>1. UNCHANGED <<ambient, renders, jobs, emitted, settledOutput, cut>>
      BY <1>1 DEF ProcessDispatch, postVars
    <2>2. CASE binding # "online"
      BY <1>1, <2>1, <2>2, NothingMoves DEF ProcessDispatch
    <2>3. CASE binding = "online"
      <3>1. pending.chunks = <<>>
        BY <1>1 DEF LinkInv, Types, TurnTypes
      <3>2. Head(queue) \in 1..Echo /\ pending' = Turn(Head(queue))
        BY <1>1, <2>3, Prompts DEF ProcessDispatch, Calm, Types, InboundTypes
      <3>3. pending'.chunks = pending.chunks
        BY <3>1, <3>2, NoTurnIsATurn
      <3>4. PostsApart' /\ InPosts' = InPosts
        BY <2>1 DEF Partition, PostsApart, InPosts
      <3> QED BY <2>1, <3>3, <3>4, OnlyPostsMove
    <2> QED BY <2>2, <2>3
  <1>2. ASSUME SubmitPromptReturns(p) PROVE Partition'
    BY <1>2, NothingMoves DEF SubmitPromptReturns, postVars, ghosts
  <1>3. ASSUME SubmitPromptFails(p) PROVE Partition'
    <2>1. /\ UNCHANGED <<ambient, renders, jobs, emitted, settledOutput>>
          /\ pending' = NoTurn /\ cut' = cut \cup InPending
      BY <1>3 DEF SubmitPromptFails, postVars, InPending, Set
    <2>2. InPending' = {} /\ IsInjective(pending'.chunks)
      BY <2>1, NoTurnIsATurn, NothingIsHeld DEF InPending
    <2>3. PostsApart' /\ InPosts' = InPosts /\ InAmbient' = InAmbient /\ IsInjective(ambient'.chunks)
      BY <2>1 DEF Partition, PostsApart, InPosts, InAmbient
    <2> QED BY <2>1, <2>2, <2>3 DEF Partition, Gone
  <1> QED BY <1>1, <1>2, <1>3 DEF ProcessDispatch, Calm

\* the timers,
LEMMA TimersKeep ==
  ASSUME Types, Partition, NEW p
  PROVE  SettleFires \/ StraySettleFires \/ TenMinutes(p) \/ Notified(p) => Partition'
  <1> USE DEF postVars, ghosts
  <1>1. ASSUME SettleFires PROVE Partition'
    BY <1>1, FinalizeKeeps DEF SettleFires, Types, TurnTypes
  <1>2. ASSUME StraySettleFires PROVE Partition'
    <2>1. CASE pending.open
      BY <1>2, <2>1, FinalizeKeeps DEF StraySettleFires
    <2>2. CASE ~pending.open
      BY <1>2, <2>2, NothingMoves DEF StraySettleFires
    <2> QED BY <2>1, <2>2
  <1>3. ASSUME TenMinutes(p) PROVE Partition'
    <2>1. CASE TimerIsFor(p)
      BY <1>3, <2>1, FinalizeKeeps DEF TenMinutes, TimerIsFor
    <2>2. CASE ~TimerIsFor(p)
      BY <1>3, <2>2, NothingMoves DEF TenMinutes
    <2> QED BY <2>1, <2>2
  <1>4. ASSUME Notified(p) PROVE Partition'
    BY <1>4, NothingMoves DEF Notified
  <1> QED BY <1>1, <1>2, <1>3, <1>4

\* a new piece of output,
LEMMA MessageKeeps ==
  ASSUME Types, Partition, Message
  PROVE  Partition'
  <1> USE DEF EventFrame, postVars
  <1>1. emitted \in Nat /\ emitted' = emitted + 1 /\ emitted' \in Output
    BY DispatchAssumption DEF Message, Types, TurnTypes, Output
  <1>2. 1..emitted' = (1..emitted) \cup {emitted'} /\ emitted' \notin 1..emitted
    <2>1. \A n : n \in 1..emitted' <=> n \in 1..emitted \/ n = emitted'
      BY <1>1
    <2> QED BY <1>1, <2>1
  <1>3. emitted' \notin InPending \cup InAmbient \cup InPosts \cup Gone
    BY <1>2 DEF Partition
  <1>4. UNCHANGED <<renders, jobs, settledOutput, cut>>
    BY DEF Message
  <1>5. PostsApart' /\ InPosts' = InPosts /\ Gone' = Gone
    BY <1>4 DEF Partition, PostsApart, InPosts, Gone
  <1>6. CASE pending.open
    <2>1. UNCHANGED ambient /\ pending'.chunks = Append(pending.chunks, emitted')
      BY <1>6 DEF Message, Types, TurnTypes, TurnRecord
    <2>2. pending.chunks \in Seq(Output)
      BY DEF Types, TurnTypes, TurnRecord
    <2>3. PICK T : T = Output
      OBVIOUS
    <2>4. InPending' = InPending \cup {emitted'} /\ IsInjective(pending'.chunks)
      BY <1>1, <1>3, <2>1, <2>2, <2>3, OneMore DEF InPending, Partition
    <2> QED BY <1>2, <1>3, <1>4, <1>5, <2>1, <2>4 DEF Partition, InAmbient
  <1>7. CASE ~pending.open
    <2>1. UNCHANGED pending /\ ambient'.chunks = Append(ambient.chunks, emitted')
      BY <1>7 DEF Message, Types, TurnTypes, TurnRecord
    <2>2. ambient.chunks \in Seq(Output)
      BY DEF Types, TurnTypes, TurnRecord
    <2>3. PICK T : T = Output
      OBVIOUS
    <2>4. InAmbient' = InAmbient \cup {emitted'} /\ IsInjective(ambient'.chunks)
      BY <1>1, <1>3, <2>1, <2>2, <2>3, OneMore DEF InAmbient, Partition
    <2> QED BY <1>2, <1>3, <1>4, <1>5, <2>1, <2>4 DEF Partition, InPending
  <1> QED BY <1>6, <1>7

\* the other events of the agent,
LEMMA EventsKeep ==
  ASSUME Types, LinkInv, Partition
  PROVE  TurnStart \/ TurnEnd \/ ToolStart \/ UserMessage \/ AmbientSettles => Partition'
  <1> USE DEF EventFrame
  <1>0. None \in 0..Echo
    BY Prompts
  <1>1. ASSUME TurnStart PROVE Partition'
    <2>1. UNCHANGED <<renders, jobs, emitted, settledOutput, cut>>
      BY <1>1 DEF TurnStart, postVars
    <2>2. pending'.chunks = pending.chunks /\ ambient'.chunks = ambient.chunks
      BY <1>1 DEF TurnStart, Types, TurnTypes, TurnRecord
    <2>3. PostsApart' /\ InPosts' = InPosts
      BY <2>1 DEF Partition, PostsApart, InPosts
    <2> QED BY <2>1, <2>2, <2>3, OnlyPostsMove
  <1>2. ASSUME TurnEnd PROVE Partition'
    <2>1. UNCHANGED <<emitted, settledOutput, cut>>
      BY <1>2 DEF TurnEnd
    <2>2. \/ /\ Flush(pending.chunks, None) /\ UNCHANGED ambient
             /\ pending' = [pending EXCEPT !.chunks = <<>>, !.settle = TRUE]
          \/ /\ Flush(ambient.chunks, None) /\ UNCHANGED pending
             /\ ambient' = [ambient EXCEPT !.chunks = <<>>, !.settle = TRUE]
          \/ UNCHANGED <<pending, ambient, renders, jobs>>
      BY <1>2 DEF TurnEnd
    <2>3. \/ Flush(pending.chunks, None) /\ UNCHANGED ambient /\ pending'.chunks = <<>>
          \/ Flush(ambient.chunks, None) /\ UNCHANGED pending /\ ambient'.chunks = <<>>
          \/ UNCHANGED <<pending, ambient, renders, jobs>>
      BY <2>2 DEF Types, TurnTypes, TurnRecord
    <2> QED BY <1>0, <2>1, <2>3, PendingIsPosted, AmbientIsPosted, NothingMoves
  <1>3. ASSUME ToolStart PROVE Partition'
    <2>1. UNCHANGED <<ambient, emitted, settledOutput, cut>> /\ (PostsAside \/ UNCHANGED <<renders, jobs>>)
      BY <1>3 DEF ToolStart, postVars
    <2>2. pending'.chunks = pending.chunks
      BY <1>3 DEF ToolStart, Types, TurnTypes, TurnRecord
    <2>3. CASE PostsAside
      BY <2>1, <2>2, <2>3, AsideMoves, OnlyPostsMove DEF Types, Partition
    <2>4. CASE UNCHANGED <<renders, jobs>>
      <3>1. PostsApart' /\ InPosts' = InPosts
        BY <2>4 DEF Partition, PostsApart, InPosts
      <3> QED BY <2>1, <2>2, <3>1, OnlyPostsMove
    <2> QED BY <2>1, <2>3, <2>4
  <1>4. ASSUME UserMessage PROVE Partition'
    <2>1. UNCHANGED <<pending, ambient, emitted, settledOutput, cut>> /\ PostsAside
      BY <1>4 DEF UserMessage
    <2> QED BY <2>1, AsideMoves, OnlyPostsMove DEF Types, Partition
  <1>5. ASSUME AmbientSettles PROVE Partition'
    <2>1. Flush(ambient.chunks, None) /\ ambient' = NoTurn /\ UNCHANGED <<pending, emitted, settledOutput, cut>>
      BY <1>5 DEF AmbientSettles
    <2> QED BY <1>0, <2>1, AmbientIsPosted, NoTurnIsATurn
  <1> QED BY <1>1, <1>2, <1>3, <1>4, <1>5

\* the end of a render,
LEMMA RenderKeeps ==
  ASSUME Types, Partition, NEW r \in renders, RenderEnds(r)
  PROVE  Partition'
  <1>1. /\ UNCHANGED <<pending, ambient, emitted, settledOutput, cut>> /\ renders' = renders \ {r}
        /\ \E asImage \in BOOLEAN : Reply(r.chunks, r.closes, asImage)
    BY DEF RenderEnds, PostFrame
  <1>2. PICK asImage \in BOOLEAN : Reply(r.chunks, r.closes, asImage)
    BY <1>1
  <1>3. r.chunks \in Seq(Output) /\ r.closes \in 0..Echo
    BY DEF Types, PostTypes, Render
  <1>4. Job(r.chunks, r.closes, asImage) \in JobRecord /\ Job(r.chunks, r.closes, asImage).chunks = r.chunks
    BY <1>3, JobTypes DEF Job
  <1>5. ToSet(r.chunks) \subseteq Rendered(renders)
    BY DEF Rendered
  <1>6. Held(jobs') = Held(jobs) \cup ToSet(r.chunks) /\ JobsApart(jobs')
    BY <1>2, <1>4, <1>5, AddedWrite DEF Reply, Types, PostTypes, Partition, PostsApart
  <1>7. /\ Rendered(renders) = Rendered(renders') \cup ToSet(r.chunks)
        /\ Rendered(renders') \cap ToSet(r.chunks) = {} /\ RendersApart(renders')
    BY <1>1, TakenRender DEF Partition, PostsApart
  <1>8. PostsApart' /\ InPosts' = InPosts
    BY <1>6, <1>7 DEF Partition, PostsApart, InPosts
  <1> QED BY <1>1, <1>8, OnlyPostsMove

\* a write that is stored, answered or refused,
LEMMA WritesKeep ==
  ASSUME Types, Partition
  PROVE  IsStored \/ IsAnswered \/ IsRefused => Partition'
  <1> USE DEF PostFrame
  <1> SUFFICES ASSUME IsStored \/ IsAnswered \/ IsRefused PROVE Partition'
    OBVIOUS
  <1>1. jobs # <<>> /\ jobs \in Seq(JobRecord) /\ JobsApart(jobs)
    BY DEF IsStored, IsAnswered, IsRefused, Types, PostTypes, Partition, PostsApart
  <1>2. UNCHANGED <<pending, ambient, renders, emitted, cut>>
    BY DEF IsStored, IsAnswered, IsRefused
  <1>3. /\ Head(jobs) = jobs[1] /\ jobs[1] \in JobRecord /\ Tail(jobs) \in Seq(JobRecord)
        /\ Held(jobs) = Held(Tail(jobs)) \cup ToSet(Head(jobs).chunks)
        /\ Held(Tail(jobs)) \cap ToSet(Head(jobs).chunks) = {} /\ JobsApart(Tail(jobs))
    BY <1>1, TakenWrite
  <1>4. jobs' \in Seq(JobRecord)
    BY WriteTypes DEF Posts, Types, PostTypes
  <1>5. ASSUME DOMAIN jobs' = DOMAIN jobs, \A i \in DOMAIN jobs : jobs'[i].chunks = jobs[i].chunks,
               UNCHANGED settledOutput
        PROVE  Partition'
    <2>1. Held(jobs') = Held(jobs) /\ JobsApart(jobs')
      BY <1>1, <1>4, <1>5, ChangedWrite
    <2>2. PostsApart' /\ InPosts' = InPosts
      BY <1>2, <2>1 DEF Partition, PostsApart, InPosts
    <2> QED BY <1>2, <1>5, <2>2, OnlyPostsMove
  <1>6. ASSUME IsStored PROVE Partition'
    <2>1. jobs' = [jobs EXCEPT ![1] = [@ EXCEPT !.stored = TRUE, !.id = written']] /\ UNCHANGED settledOutput
      BY <1>6 DEF IsStored
    <2>2. [jobs[1] EXCEPT !.stored = TRUE, !.id = written'].chunks = jobs[1].chunks
      BY <1>3 DEF JobRecord
    <2>3. DOMAIN jobs' = DOMAIN jobs /\ \A i \in DOMAIN jobs : jobs'[i].chunks = jobs[i].chunks
      BY <1>1, <2>1, <2>2
    <2> QED BY <1>5, <2>1, <2>3
  <1>7. ASSUME jobs' = Tail(jobs), settledOutput' = settledOutput \cup ToSet(Head(jobs).chunks)
        PROVE  Partition'
    <2>1. ToSet(Head(jobs).chunks) \subseteq InPosts /\ Held(jobs) \subseteq InPosts
      BY <1>3 DEF InPosts
    <2>2. InPosts = InPosts' \cup ToSet(Head(jobs).chunks) /\ InPosts' \cap ToSet(Head(jobs).chunks) = {}
      BY <1>2, <1>3, <1>7 DEF InPosts, Partition, PostsApart
    <2>3. PostsApart'
      BY <1>2, <1>3, <1>7 DEF Partition, PostsApart
    <2>4. Gone' = Gone \cup ToSet(Head(jobs).chunks)
      BY <1>2, <1>7 DEF Gone
    <2>5. ToSet(Head(jobs).chunks) \cap cut = {}
      BY <2>1 DEF Partition, Gone
    <2>6. UNCHANGED <<InPending, InAmbient>>
      BY <1>2 DEF InPending, InAmbient
    <2> QED BY <1>2, <1>7, <2>1, <2>2, <2>3, <2>4, <2>5, <2>6 DEF Partition
  <1>8. ASSUME IsAnswered PROVE Partition'
    BY <1>7, <1>8 DEF IsAnswered, Set
  <1>9. ASSUME IsRefused PROVE Partition'
    <2>1. CASE jobs' = [jobs EXCEPT ![1].tries = @ + 1] /\ UNCHANGED settledOutput
      <3>1. [jobs[1] EXCEPT !.tries = @ + 1].chunks = jobs[1].chunks
        BY <1>3 DEF JobRecord
      <3>2. DOMAIN jobs' = DOMAIN jobs /\ \A i \in DOMAIN jobs : jobs'[i].chunks = jobs[i].chunks
        BY <1>1, <2>1, <3>1
      <3> QED BY <1>5, <2>1, <3>2
    <2>2. CASE /\ jobs' = Append(Tail(jobs), Job(Head(jobs).chunks, Head(jobs).closes, FALSE))
               /\ UNCHANGED settledOutput
      <3>1. Head(jobs).chunks \in Seq(Output) /\ Head(jobs).closes \in 0..Echo
        BY <1>3 DEF JobRecord
      <3>2. /\ Job(Head(jobs).chunks, Head(jobs).closes, FALSE) \in JobRecord
            /\ Job(Head(jobs).chunks, Head(jobs).closes, FALSE).chunks = Head(jobs).chunks
        BY <3>1, JobTypes DEF Job
      <3>3. Held(jobs') = Held(jobs) /\ JobsApart(jobs')
        BY <1>3, <2>2, <3>2, AddedWrite
      <3>4. PostsApart' /\ InPosts' = InPosts
        BY <1>2, <3>3 DEF Partition, PostsApart, InPosts
      <3> QED BY <1>2, <2>2, <3>4, OnlyPostsMove
    <2>3. CASE jobs' = Tail(jobs) /\ settledOutput' = settledOutput \cup ToSet(Head(jobs).chunks)
      BY <1>7, <2>3
    <2> QED BY <1>9, <2>1, <2>2, <2>3 DEF IsRefused, Set
  <1> QED BY <1>6, <1>8, <1>9

\* what happens in the thread,
LEMMA ThreadKeeps ==
  ASSUME Types, Partition
  PROVE  /\ \A p \in Prompt : Inbound(p) => Partition'
         /\ \A id \in echoes : EchoArrives(id) => Partition'
         /\ SlashCommand \/ GoesOffline \/ ComesBack => Partition'
  <1> USE DEF InboundFrame
  <1>1. ASSUME UNCHANGED <<pending, ambient, emitted, settledOutput, cut>>, PostsAside \/ UNCHANGED postVars
        PROVE  Partition'
    <2>1. CASE PostsAside
      BY <1>1, <2>1, AsideMoves, OnlyPostsMove DEF Types, Partition
    <2>2. CASE UNCHANGED postVars
      BY <1>1, <2>2, NothingMoves DEF postVars
    <2> QED BY <1>1, <2>1, <2>2
  <1>2. ASSUME NEW p \in Prompt, Inbound(p) PROVE Partition'
    BY <1>1, <1>2 DEF Inbound, turnVars, ghosts
  <1>3. ASSUME NEW id \in echoes, EchoArrives(id) PROVE Partition'
    BY <1>3, NothingMoves DEF EchoArrives, turnVars, ghosts
  <1>4. ASSUME SlashCommand PROVE Partition'
    BY <1>1, <1>4 DEF SlashCommand, turnVars, ghosts
  <1>5. ASSUME GoesOffline PROVE Partition'
    <2>1. /\ UNCHANGED <<renders, jobs, emitted, settledOutput>> /\ pending' = NoTurn /\ ambient' = NoTurn
          /\ cut' = (cut \cup InPending) \cup InAmbient
      BY <1>5 DEF GoesOffline, postVars, InPending, InAmbient, Set
    <2>2. /\ InPending' = {} /\ InAmbient' = {}
          /\ IsInjective(pending'.chunks) /\ IsInjective(ambient'.chunks)
      BY <2>1, NoTurnIsATurn, NothingIsHeld DEF InPending, InAmbient
    <2>3. PostsApart' /\ InPosts' = InPosts
      BY <2>1 DEF Partition, PostsApart, InPosts
    <2> QED BY <2>1, <2>2, <2>3 DEF Partition, Gone
  <1>6. ASSUME ComesBack PROVE Partition'
    BY <1>6, NothingMoves DEF ComesBack, turnVars, postVars, ghosts
  <1> QED BY <1>2, <1>3, <1>4, <1>5, <1>6

\* and so every step.
LEMMA PartitionStep ==
  ASSUME Types, LinkInv, Partition, [Next]_dispatchVars
  PROVE  Partition'
  <1>1. CASE UNCHANGED dispatchVars
    BY <1>1, NothingMoves DEF dispatchVars, turnVars, postVars, ghosts
  <1>2. CASE ProcessDispatch \/ \E p \in Prompt \cup {Echo} : Timers(p)
    BY <1>2, QueueKeeps, TimersKeep DEF Timers
  <1>3. CASE SettleFires \/ StraySettleFires \/ AmbientSettles
    BY <1>3, TimersKeep, EventsKeep
  <1>4. CASE Agent
    BY <1>4, EventsKeep, MessageKeeps DEF Agent
  <1>5. CASE Posts
    BY <1>5, WritesKeep, RenderKeeps DEF Posts
  <1>6. CASE (\E p \in Prompt : Inbound(p)) \/ (\E id \in echoes : EchoArrives(id))
    BY <1>6, ThreadKeeps
  <1>7. CASE SlashCommand \/ GoesOffline \/ ComesBack
    BY <1>7, ThreadKeeps
  <1> QED BY <1>1, <1>2, <1>3, <1>4, <1>5, <1>6, <1>7 DEF Next

-----------------------------------------------------------------------------
IInv == Types /\ SeenInv /\ EchoInv /\ LinkInv /\ Partition

\* The invariant holds before the first prompt.
LEMMA Start ==
  ASSUME Init
  PROVE  IInv
  <1>1. Types
    BY FirstTypes
  <1>2. SeenInv /\ EchoInv
    BY NothingIsHeld DEF Init, SeenInv, EchoInv
  <1>3. LinkInv
    BY NoTurnIsATurn DEF Init, LinkInv
  <1>4. Partition
    <2>1. InPending = {} /\ InAmbient = {} /\ IsInjective(pending.chunks) /\ IsInjective(ambient.chunks)
      BY NoTurnIsATurn, NothingIsHeld DEF Init, InPending, InAmbient
    <2>2. Rendered(renders) = {} /\ Held(jobs) = {} /\ RendersApart(renders) /\ JobsApart(jobs)
      BY DEF Init, Rendered, Held, RendersApart, JobsApart
    <2>3. 1..emitted = {} /\ Gone = {}
      BY DEF Init, Gone
    <2> QED BY <2>1, <2>2, <2>3 DEF Init, Partition, PostsApart, InPosts
  <1> QED BY <1>1, <1>2, <1>3, <1>4 DEF IInv

\* It holds in every reachable state, as long as no echo overtakes the answer to its own
\* post.
LEMMA Invariance ==
  ASSUME ~EarlyEchoes
  PROVE  Spec => []IInv
  <1>1. Init => IInv
    BY Start
  <1>2. IInv /\ [Next]_dispatchVars => IInv'
    BY TypesAreKept, SeenStep, EchoStep, LinkStep, PartitionStep DEF IInv
  <1> QED BY <1>1, <1>2, PTL DEF Spec

(* The agent is sent every reply of a person at most once, however often   *)
(* Teams delivers it, and never a post of the app itself: handleInbound    *)
(* asks the message filter before it enqueues, drain() takes a prompt out  *)
(* of the queue before processDispatch submits it, and safeReply records   *)
(* the id of a post before its write leaves the thread's chain.  It        *)
(* supposes that no echo overtakes the answer to its own post.             *)
THEOREM SubmittedOnce ==
  ASSUME ~EarlyEchoes
  PROVE  Spec => []PromptsAreSubmittedOnce
  <1>1. IInv => PromptsAreSubmittedOnce
    BY Prompts DEF IInv, Types, InboundTypes, SeenInv, PromptsAreSubmittedOnce, Set
  <1> QED BY <1>1, Invariance, PTL

(* Each piece of output that the agent emitted is in exactly one place: a  *)
(* turn, a render, a write, or what was posted, refused or cut.  Closing a *)
(* turn twice, by its settle timer, its ten minutes or a stray timer, going*)
(* offline, retrying a throttled write and falling back from an image to   *)
(* text neither lose nor double it.                                        *)
THEOREM EachPieceIsKept ==
  ASSUME ~EarlyEchoes
  PROVE  Spec => []OutputIsKept
  <1>1. ASSUME IInv, NEW c \in 1..emitted
        PROVE  \E place \in Places(c) : Places(c) = {place}
    <2>1. Partition
      BY <1>1 DEF IInv
    <2> DEFINE InTurn == {<<"pending", i>> : i \in {i \in DOMAIN pending.chunks : pending.chunks[i] = c}}
               InOwn == {<<"ambient", i>> : i \in {i \in DOMAIN ambient.chunks : ambient.chunks[i] = c}}
               InRender == {<<"render", r>> : r \in {r \in renders : c \in Set(r.chunks)}}
               InJob == {<<"job", i>> : i \in {i \in DOMAIN jobs : c \in Set(jobs[i].chunks)}}
               InSettled == IF c \in settledOutput THEN {<<"settled", 0>>} ELSE {}
               InCut == IF c \in cut THEN {<<"cut", 0>>} ELSE {}
    <2>2. Places(c) = InTurn \cup InOwn \cup InRender \cup InJob \cup InSettled \cup InCut
      BY DEF Places
    <2>3. /\ c \notin InPending => InTurn = {}
          /\ c \notin InAmbient => InOwn = {}
          /\ c \notin Rendered(renders) => InRender = {}
          /\ c \notin Held(jobs) => InJob = {}
      BY DEF InPending, InAmbient, Rendered, Held, ToSet, Set
    <2>4. c \in InPending => \E place : InTurn = {place}
      <3> SUFFICES ASSUME c \in InPending PROVE \E place : InTurn = {place}
        OBVIOUS
      <3>1. PICK i \in DOMAIN pending.chunks : pending.chunks[i] = c
        BY DEF InPending, ToSet
      <3>2. InTurn = {<<"pending", i>>}
        BY <2>1, <3>1 DEF Partition, IsInjective
      <3> QED BY <3>2
    <2>5. c \in InAmbient => \E place : InOwn = {place}
      <3> SUFFICES ASSUME c \in InAmbient PROVE \E place : InOwn = {place}
        OBVIOUS
      <3>1. PICK i \in DOMAIN ambient.chunks : ambient.chunks[i] = c
        BY DEF InAmbient, ToSet
      <3>2. InOwn = {<<"ambient", i>>}
        BY <2>1, <3>1 DEF Partition, IsInjective
      <3> QED BY <3>2
    <2>6. c \in Rendered(renders) => \E place : InRender = {place}
      <3> SUFFICES ASSUME c \in Rendered(renders) PROVE \E place : InRender = {place}
        OBVIOUS
      <3>1. PICK r \in renders : c \in Set(r.chunks)
        BY DEF Rendered, Set
      <3>2. InRender = {<<"render", r>>}
        BY <2>1, <3>1 DEF Partition, PostsApart, RendersApart, Set
      <3> QED BY <3>2
    <2>7. c \in Held(jobs) => \E place : InJob = {place}
      <3> SUFFICES ASSUME c \in Held(jobs) PROVE \E place : InJob = {place}
        OBVIOUS
      <3>1. PICK i \in DOMAIN jobs : c \in Set(jobs[i].chunks)
        BY DEF Held, Set
      <3>2. InJob = {<<"job", i>>}
        BY <2>1, <3>1 DEF Partition, PostsApart, JobsApart, Set
      <3> QED BY <3>2
    <2>8. /\ c \in settledOutput => InSettled = {<<"settled", 0>>}
          /\ c \notin settledOutput => InSettled = {}
          /\ c \in cut => InCut = {<<"cut", 0>>}
          /\ c \notin cut => InCut = {}
      OBVIOUS
    <2>9. /\ c \in InPending \cup InAmbient \cup Rendered(renders) \cup Held(jobs) \cup settledOutput \cup cut
          /\ c \in InPending => c \notin InAmbient \cup Rendered(renders) \cup Held(jobs) \cup settledOutput \cup cut
          /\ c \in InAmbient => c \notin Rendered(renders) \cup Held(jobs) \cup settledOutput \cup cut
          /\ c \in Rendered(renders) => c \notin Held(jobs) \cup settledOutput \cup cut
          /\ c \in Held(jobs) => c \notin settledOutput \cup cut
          /\ c \in settledOutput => c \notin cut
      <3>1. c \in InPending \cup InAmbient \cup InPosts \cup Gone
        BY <2>1 DEF Partition
      <3> QED BY <2>1, <3>1 DEF Partition, PostsApart, InPosts, Gone
    <2> HIDE DEF InTurn, InOwn, InRender, InJob, InSettled, InCut
    <2>10. \E place : Places(c) = {place}
      <3>1. CASE c \in InPending
        <4>1. InOwn = {} /\ InRender = {} /\ InJob = {} /\ InSettled = {} /\ InCut = {}
          BY <2>3, <2>8, <2>9, <3>1
        <4> QED BY <2>2, <2>4, <3>1, <4>1
      <3>2. CASE c \in InAmbient
        <4>1. InTurn = {} /\ InRender = {} /\ InJob = {} /\ InSettled = {} /\ InCut = {}
          BY <2>3, <2>8, <2>9, <3>2
        <4> QED BY <2>2, <2>5, <3>2, <4>1
      <3>3. CASE c \in Rendered(renders)
        <4>1. InTurn = {} /\ InOwn = {} /\ InJob = {} /\ InSettled = {} /\ InCut = {}
          BY <2>3, <2>8, <2>9, <3>3
        <4> QED BY <2>2, <2>6, <3>3, <4>1
      <3>4. CASE c \in Held(jobs)
        <4>1. InTurn = {} /\ InOwn = {} /\ InRender = {} /\ InSettled = {} /\ InCut = {}
          BY <2>3, <2>8, <2>9, <3>4
        <4> QED BY <2>2, <2>7, <3>4, <4>1
      <3>5. CASE c \in settledOutput
        <4>1. InTurn = {} /\ InOwn = {} /\ InRender = {} /\ InJob = {} /\ InCut = {}
          BY <2>3, <2>8, <2>9, <3>5
        <4> QED BY <2>2, <2>8, <3>5, <4>1
      <3>6. CASE c \in cut
        <4>1. InTurn = {} /\ InOwn = {} /\ InRender = {} /\ InJob = {} /\ InSettled = {}
          BY <2>3, <2>8, <2>9, <3>6
        <4> QED BY <2>2, <2>8, <3>6, <4>1
      <3> QED BY <2>9, <3>1, <3>2, <3>3, <3>4, <3>5, <3>6
    <2> QED BY <2>10
  <1>2. IInv => OutputIsKept
    BY <1>1 DEF OutputIsKept
  <1> QED BY <1>2, Invariance, PTL

-----------------------------------------------------------------------------
(***************************************************************************)
(* AgentOperations.                                                        *)
(*                                                                         *)
(* An operation on an agent reports and routes what somebody waits for,    *)
(* and none undoes a disconnect that was answered: one step is awaited at  *)
(* a time, the one of the stage (LiveInv), what a stage is for and where a *)
(* step came from are known (StageInv, OriginInv), and once Teams is not   *)
(* wanted every registration under way is cancelled (WishInv).             *)
(***************************************************************************)

(* One step of the operation is awaited at a time, the one of its stage.    *)
LiveInv ==
    /\ \A t \in tasks : Live(t) => t.kind = op.stage
    /\ \A t, u \in tasks : Live(t) /\ Live(u) => t = u

(* What an operation that has come to a stage is for.                       *)
StageInv ==
    /\ op.intent = "none" <=> op.stage = "none"
    /\ op.intent = "disconnect" <=> op.stage = "stop"
    /\ op.stage = "register" => WantsTeams(op.intent)
    /\ op.stage = "register" /\ RequiresInactive(op.intent) => op.activated

(* A step that is no operation's is the stop of a call; an operation that   *)
(* asks for a new agent does not join a start.                              *)
OriginInv ==
    \A t \in tasks :
        /\ t.caller # Lifecycle => t.kind = "stop" /\ calls[t.caller].intent = "disconnect"
        /\ Live(t) /\ t.phase = "joined" => ~RequiresInactive(op.intent)

(* Once Teams is not wanted, every registration under way is cancelled, and *)
(* so is the operation that would begin another.                            *)
WishInv ==
    wish \in {"off", "settled"} =>
        /\ WantsTeams(op.intent) => op.cancelled
        /\ \A t \in tasks : t.kind = "register" => RegistrationCancelled(t)

OperationsInv ==
    OperationsTypeOK /\ LiveInv /\ StageInv /\ OriginInv /\ WishInv /\ DisconnectSticks

(* What a step may report, and when it may enable routing.                  *)
ReportsOwn ==
    \A c \in Caller :
        calls'[c].told = "done" /\ Waiting(c) /\ RequiresInactive(calls[c].intent)
           => op.activated \/ \E t \in tasks : Live(t) /\ t.phase = "mine"
RoutesWanted == teamsState = "off" /\ teamsState' = "on" => WantsTeams(op.intent)

USE OperationsAssumption

-----------------------------------------------------------------------------
(* The ways a step may leave the operation and its tasks.                   *)

(* An operation that ends: its callers are told, and no live step of it is  *)
(* left.                                                                    *)
LEMMA Ends ==
  ASSUME OperationsInv, NEW answer \in {"failed", "done", "active", "unavailable"}, OpEnds(answer),
         tasks' \subseteq AnyTask,
         \A t \in tasks' : ~Live(t) /\ \E u \in tasks : /\ u.kind = t.kind /\ u.caller = t.caller
                                                        /\ u.late => t.late
                                                        /\ u.stale => t.stale,
         wish' \in {"off", "settled"} => wish \in {"off", "settled"}
  PROVE  /\ op' \in AnyOp /\ calls' \in [Caller -> AnyCall]
         /\ LiveInv' /\ StageInv' /\ OriginInv' /\ WishInv'
         /\ \A c \in Caller : calls'[c].intent = calls[c].intent
  <1> USE DEF OperationsInv, OperationsTypeOK
  <1>1. op' = NoOp /\ NoOp \in AnyOp
    BY DEF OpEnds, NoOp, AnyOp
  <1>2. \A c \in Caller : calls[c] \in AnyCall
    OBVIOUS
  <1>3. \A c \in Caller : [calls[c] EXCEPT !.told = answer] \in AnyCall
                          /\ [calls[c] EXCEPT !.told = answer].intent = calls[c].intent
    BY <1>2 DEF AnyCall
  <1>4. calls' \in [Caller -> AnyCall] /\ \A c \in Caller : calls'[c].intent = calls[c].intent
    BY <1>2, <1>3 DEF OpEnds
  <1>5. LiveInv' /\ StageInv'
    BY <1>1 DEF LiveInv, StageInv, Live, NoOp, WantsTeams
  <1>6. OriginInv'
    <2> SUFFICES ASSUME NEW t \in tasks', t.caller # Lifecycle
                 PROVE  t.kind = "stop" /\ calls'[t.caller].intent = "disconnect"
      BY DEF OriginInv, Live
    <2>1. t.caller \in Caller
      BY DEF AnyTask, Caller, Lifecycle
    <2> QED BY <1>4, <2>1 DEF OriginInv
  <1>7. WishInv'
    BY <1>1 DEF WishInv, NoOp, WantsTeams, RegistrationCancelled
  <1> QED BY <1>1, <1>4, <1>5, <1>6, <1>7

(* An operation that comes to its next stage, and its new task.             *)
LEMMA Advances ==
  ASSUME OperationsInv, NEW stage \in {"seat", "session", "register"}, NEW rest \in SUBSET tasks,
         \A t \in rest : ~Live(t),
         op' \in AnyOp, op'.stage = stage, op'.intent = op.intent, op'.cancelled = op.cancelled,
         op.intent \notin {"none", "disconnect"},
         tasks' = rest \cup {Task(stage, Lifecycle)}, UNCHANGED calls,
         wish' \in {"off", "settled"} => wish \in {"off", "settled"},
         stage = "register" => /\ WantsTeams(op.intent) /\ ~op.cancelled
                               /\ RequiresInactive(op.intent) => op'.activated
  PROVE  tasks' \subseteq AnyTask /\ LiveInv' /\ StageInv' /\ OriginInv' /\ WishInv'
  <1> USE DEF OperationsInv, OperationsTypeOK
  <1> DEFINE new == Task(stage, Lifecycle)
  <1>1. /\ new \in AnyTask /\ new.kind = stage /\ new.caller = Lifecycle /\ new.phase = "sent"
        /\ ~new.late /\ ~new.stale
    BY DEF Task, AnyTask, Lifecycle
  <1> HIDE DEF new
  <1>2. tasks' = rest \cup {new}
    BY DEF new
  <1>3. tasks' \subseteq AnyTask
    BY <1>1, <1>2
  <1>4. LiveInv'
    BY <1>1, <1>2 DEF LiveInv, Live
  <1>5. StageInv'
    BY DEF StageInv, WantsTeams, RequiresInactive
  <1>6. OriginInv'
    BY <1>1, <1>2 DEF OriginInv, Live
  <1>7. WishInv'
    BY <1>1, <1>2 DEF WishInv, RegistrationCancelled
  <1> QED BY <1>3, <1>4, <1>5, <1>6, <1>7

(* A step is not a report nor does it enable routing.                       *)
LEMMA NothingReported ==
  ASSUME OperationsInv, \A c \in Caller : calls'[c].told = "done" => ~Waiting(c)
  PROVE  ReportsOwn
  BY DEF ReportsOwn

\* A step that leaves the state of Teams alone routes nothing it should not.
LEMMA NothingRouted ==
  ASSUME UNCHANGED teamsState
  PROVE  RoutesWanted
  BY DEF RoutesWanted

(* Who is told that an operation failed, or was not needed, is not told     *)
(* that it is done.                                                         *)
LEMMA EndsWithout ==
  ASSUME OperationsInv, NEW answer \in {"failed", "active", "unavailable"}, OpEnds(answer)
  PROVE  ReportsOwn
  <1> SUFFICES ASSUME NEW c \in Caller, calls'[c].told = "done", Waiting(c) PROVE FALSE
    BY DEF ReportsOwn
  <1>1. calls[c] \in AnyCall
    BY DEF OperationsInv, OperationsTypeOK
  <1>2. calls[c].told = "nothing"
    BY DEF Waiting
  <1>3. calls'[c] \in {[calls[c] EXCEPT !.told = answer], calls[c]}
    BY DEF OpEnds
  <1> QED BY <1>1, <1>2, <1>3 DEF AnyCall

-----------------------------------------------------------------------------
(* The first state and the calls.                                           *)
LEMMA OperationsStart == OperationsInit => OperationsInv
  <1> SUFFICES ASSUME OperationsInit PROVE OperationsInv
    OBVIOUS
  <1>1. op \in AnyOp /\ tasks \subseteq AnyTask
    BY DEF OperationsInit, NoOp, AnyOp
  <1>2. calls \in [Caller -> AnyCall]
    BY DEF OperationsInit, AnyCall
  <1>3. OperationsTypeOK
    BY <1>1, <1>2 DEF OperationsInit, OperationsTypeOK
  <1>4. LiveInv /\ StageInv /\ OriginInv /\ WishInv /\ DisconnectSticks
    BY DEF OperationsInit, NoOp, LiveInv, StageInv, OriginInv, WishInv, DisconnectSticks, WantsTeams,
           RequiresInactive
  <1> QED BY <1>3, <1>4 DEF OperationsInv

(* goOffline begins: every registration under way is cancelled.             *)
LEMMA StopBeginning ==
  ASSUME OperationsInv, NEW caller \in 0..MaxCalls, StopBegins(caller)
  PROVE  /\ tasks' \subseteq AnyTask
         /\ \A t \in tasks' :
               \/ t = Task("stop", caller)
               \/ /\ t.kind = "register" => t.stale
                  /\ \E u \in tasks : /\ t.kind = u.kind /\ t.caller = u.caller /\ t.phase = u.phase
                                      /\ t.late = u.late
                                      /\ t = IF u.kind = "register" THEN [u EXCEPT !.stale = TRUE]
                                             ELSE u
  <1>1. Task("stop", caller) \in AnyTask
    BY DEF Task, AnyTask
  <1>2. ASSUME NEW u \in tasks
        PROVE  LET t == IF u.kind = "register" THEN [u EXCEPT !.stale = TRUE] ELSE u
               IN  /\ t \in AnyTask /\ t.kind = u.kind /\ t.caller = u.caller /\ t.phase = u.phase
                   /\ t.late = u.late /\ (t.kind = "register" => t.stale)
    <2>1. u \in AnyTask
      BY DEF OperationsInv, OperationsTypeOK
    <2> QED BY <2>1 DEF AnyTask
  <1> QED BY <1>1, <1>2 DEF StopBegins

(* A call that joins, is refused, or cancels what is under way.             *)
LEMMA RunKeeps ==
  ASSUME OperationsInv, NEW c \in Caller, NEW intent \in Intents, Run(c, intent)
  PROVE  OperationsInv' /\ ReportsOwn /\ RoutesWanted
  <1> USE DEF OperationsInv, OperationsTypeOK
  <1> DEFINE asked == [calls EXCEPT ![c].intent = intent]
  <1>0. calls[c] \in AnyCall /\ calls[c].intent = "none" /\ UNCHANGED <<agentSession, starter, teamsState>>
        /\ wish' = (IF WantsTeams(intent) THEN "on" ELSE IF intent = "disconnect" THEN "off" ELSE wish)
    BY DEF Run
  <1>1. /\ asked \in [Caller -> AnyCall] /\ asked[c].intent = intent
        /\ \A b \in Caller : /\ asked[b].told = calls[b].told
                             /\ b # c => asked[b] = calls[b]
    BY <1>0 DEF AnyCall
  <1>2. /\ [asked EXCEPT ![c].told = "failed"] \in [Caller -> AnyCall]
        /\ \A b \in Caller : /\ [asked EXCEPT ![c].told = "failed"][b].intent = asked[b].intent
                             /\ b # c => [asked EXCEPT ![c].told = "failed"][b] = calls[b]
        /\ [asked EXCEPT ![c].told = "failed"][c].told = "failed"
    <2> DEFINE turned == [asked[c] EXCEPT !.told = "failed"]
    <2>1. asked[c] \in AnyCall
      BY <1>1
    <2> HIDE DEF asked
    <2>2. turned \in AnyCall /\ turned.told = "failed" /\ turned.intent = asked[c].intent
      BY <2>1 DEF AnyCall
    <2>3. [asked EXCEPT ![c].told = "failed"] = [asked EXCEPT ![c] = turned]
      OBVIOUS
    <2> HIDE DEF turned
    <2> QED BY <1>1, <2>2, <2>3
  <1> HIDE DEF asked
  <1>3. ~\E t \in tasks : t.caller = c
    <2>1. c # Lifecycle
      BY DEF Caller, Lifecycle
    <2> QED BY <1>0, <2>1 DEF OriginInv
  <1>10. \A t \in tasks : t.caller # Lifecycle =>
            /\ t.kind = "stop" /\ asked[t.caller].intent = "disconnect"
            /\ [asked EXCEPT ![c].told = "failed"][t.caller].intent = "disconnect"
    <2> SUFFICES ASSUME NEW t \in tasks, t.caller # Lifecycle
                 PROVE  /\ t.kind = "stop" /\ asked[t.caller].intent = "disconnect"
                        /\ [asked EXCEPT ![c].told = "failed"][t.caller].intent = "disconnect"
      OBVIOUS
    <2>1. t.caller \in Caller
      BY DEF AnyTask, Caller, Lifecycle
    <2>2. t.kind = "stop" /\ calls[t.caller].intent = "disconnect" /\ t.caller # c
      BY <1>3 DEF OriginInv
    <2> QED BY <1>1, <1>2, <2>1, <2>2
  <1>4. DisconnectSticks' /\ RoutesWanted
    BY <1>0, NothingRouted DEF DisconnectSticks, WantsTeams, Intents
  <1>5. wish' \in {"none", "on", "off", "settled"}
    BY <1>0
  <1>6. CASE op.intent = intent /\ calls' = asked /\ op' = op /\ UNCHANGED tasks
    <2>1. LiveInv' /\ StageInv'
      BY <1>6 DEF LiveInv, StageInv, Live
    <2>2. OriginInv'
      BY <1>6, <1>10 DEF OriginInv, Live
    <2>3. WishInv'
      <3>1. CASE intent = "disconnect"
        <4>1. \A t \in tasks : t.kind = "register" => RegistrationCancelled(t)
          <5> SUFFICES ASSUME NEW t \in tasks, t.kind = "register" PROVE t.late
            BY DEF RegistrationCancelled
          <5>1. op.stage = "stop"
            BY <1>6, <3>1 DEF StageInv
          <5>2. ~Live(t) /\ t.caller = Lifecycle
            BY <5>1 DEF LiveInv, OriginInv
          <5> QED BY <5>2 DEF Live
        <4> QED BY <1>6, <3>1, <4>1 DEF WishInv, WantsTeams, RegistrationCancelled
      <3>2. CASE intent # "disconnect"
        BY <1>0, <1>6, <3>2 DEF WishInv, WantsTeams, RegistrationCancelled
      <3> QED BY <3>1, <3>2
    <2>4. ReportsOwn
      BY <1>1, <1>6 DEF ReportsOwn, Waiting
    <2> QED BY <1>0, <1>1, <1>4, <1>5, <1>6, <2>1, <2>2, <2>3, <2>4
  <1>7. CASE /\ op.intent = "none" /\ calls' = asked
             /\ op' = [NoOp EXCEPT !.intent = intent,
                                   !.stage = IF intent = "disconnect" THEN "stop"
                                             ELSE IF WantsTeams(intent) THEN "preflight" ELSE "status"]
             /\ IF intent = "disconnect" THEN StopBegins(Lifecycle) ELSE UNCHANGED tasks
    <2>1. /\ op' \in AnyOp /\ op'.intent = intent
          /\ op'.stage = IF intent = "disconnect" THEN "stop"
                         ELSE IF WantsTeams(intent) THEN "preflight" ELSE "status"
      BY <1>7 DEF NoOp, AnyOp
    <2>2. \A t \in tasks : ~Live(t)
      BY <1>7 DEF LiveInv, StageInv, AnyTask
    <2>3. StageInv'
      BY <2>1 DEF StageInv, WantsTeams, Intents
    <2>4. ReportsOwn
      BY <1>1, <1>7 DEF ReportsOwn, Waiting
    <2>5. CASE intent # "disconnect"
      <3>1. tasks' = tasks
        BY <1>7, <2>5
      <3>2. LiveInv'
        BY <2>2, <3>1 DEF LiveInv, Live
      <3>3. OriginInv'
        BY <1>7, <1>10, <2>2, <3>1 DEF OriginInv, Live
      <3>4. WishInv'
        BY <1>0, <2>1, <2>5, <3>1 DEF WishInv, WantsTeams, RegistrationCancelled
      <3> QED BY <1>0, <1>1, <1>4, <1>5, <1>7, <2>1, <2>3, <2>4, <3>1, <3>2, <3>3, <3>4
    <2>6. CASE intent = "disconnect"
      <3> DEFINE new == Task("stop", Lifecycle)
      <3>1. StopBegins(Lifecycle) /\ Lifecycle \in 0..MaxCalls
        BY <1>7, <2>6 DEF Lifecycle
      <3>2. new.kind = "stop" /\ new.caller = Lifecycle /\ new.phase = "sent"
        BY DEF Task
      <3>3. /\ tasks' \subseteq AnyTask
            /\ \A t \in tasks' :
                  \/ t = new
                  \/ /\ t.kind = "register" => t.stale
                     /\ \E u \in tasks : /\ t.kind = u.kind /\ t.caller = u.caller
                                         /\ t.phase = u.phase /\ t.late = u.late
        BY <3>1, StopBeginning
      <3> HIDE DEF new
      <3>4. \A t \in tasks' : Live(t) => t = new
        BY <2>2, <3>3 DEF Live
      <3>5. LiveInv'
        BY <2>1, <2>6, <3>2, <3>4 DEF LiveInv, Live
      <3>6. OriginInv'
        <4> SUFFICES ASSUME NEW t \in tasks'
                     PROVE  /\ t.caller # Lifecycle => t.kind = "stop" /\ calls'[t.caller].intent = "disconnect"
                            /\ t.phase = "joined" => ~Live(t)
          BY DEF OriginInv, Live
        <4>1. CASE t = new
          BY <3>2, <4>1
        <4>2. CASE t # new
          BY <1>7, <1>10, <3>3, <3>4, <4>2
        <4> QED BY <4>1, <4>2
      <3>7. WishInv'
        BY <2>1, <2>6, <3>2, <3>3 DEF WishInv, WantsTeams, RegistrationCancelled
      <3> QED BY <1>0, <1>1, <1>4, <1>5, <1>7, <2>1, <2>3, <2>4, <3>3, <3>5, <3>6, <3>7
    <2> QED BY <2>5, <2>6
  <1>8. CASE op.intent \notin {"none", intent} /\ intent = "disconnect"
             /\ op' = Cancelled /\ StopBegins(c) /\ calls' = asked
    <2>1. /\ op' \in AnyOp /\ op'.intent = op.intent /\ op'.stage = op.stage /\ op'.cancelled
          /\ op'.activated = op.activated
      BY <1>8 DEF Cancelled, AnyOp
    <2> DEFINE new == Task("stop", c)
    <2>2. c \in 0..MaxCalls /\ c # Lifecycle
      BY DEF Caller, Lifecycle
    <2>3. new.kind = "stop" /\ new.caller = c /\ new.phase = "sent"
      BY DEF Task
    <2>4. /\ tasks' \subseteq AnyTask
          /\ \A t \in tasks' :
                \/ t = new
                \/ /\ t.kind = "register" => t.stale
                   /\ \E u \in tasks : /\ t.kind = u.kind /\ t.caller = u.caller
                                       /\ t.phase = u.phase /\ t.late = u.late
                                       /\ t = IF u.kind = "register" THEN [u EXCEPT !.stale = TRUE]
                                              ELSE u
      BY <1>8, <2>2, StopBeginning
    <2> HIDE DEF new
    <2>5. StageInv'
      BY <2>1 DEF StageInv, WantsTeams, RequiresInactive
    <2>6. LiveInv'
      <3> DEFINE Staled(u) == IF u.kind = "register" THEN [u EXCEPT !.stale = TRUE] ELSE u
      <3>1. ASSUME NEW t \in tasks', Live(t)
            PROVE  t.kind = op.stage /\ \E u \in tasks : Live(u) /\ t = Staled(u)
        <4>1. t # new
          BY <2>2, <2>3, <3>1 DEF Live
        <4>2. PICK u \in tasks : /\ t.kind = u.kind /\ t.caller = u.caller
                                 /\ t.late = u.late /\ t = Staled(u)
          BY <2>4, <4>1
        <4>3. Live(u)
          BY <3>1, <4>2 DEF Live
        <4> HIDE DEF Staled
        <4> QED BY <4>2, <4>3 DEF LiveInv
      <3> HIDE DEF Staled
      <3>2. \A t, u \in tasks' : Live(t) /\ Live(u) => t = u
        BY <3>1 DEF LiveInv
      <3> QED BY <2>1, <3>1, <3>2 DEF LiveInv, Live
    <2>7. OriginInv'
      <3> SUFFICES ASSUME NEW t \in tasks'
                   PROVE  /\ t.caller # Lifecycle => t.kind = "stop" /\ calls'[t.caller].intent = "disconnect"
                          /\ Live(t) /\ t.phase = "joined" => ~RequiresInactive(op.intent)
        BY <2>1 DEF OriginInv, Live, RequiresInactive
      <3>1. CASE t = new
        BY <1>1, <1>8, <2>3, <3>1
      <3>2. CASE t # new
        <4>1. PICK u \in tasks : /\ t.kind = u.kind /\ t.caller = u.caller
                                 /\ t.phase = u.phase /\ t.late = u.late
          BY <2>4, <3>2
        <4>2. Live(t) <=> Live(u)
          BY <4>1 DEF Live
        <4> QED BY <1>8, <1>10, <4>1, <4>2 DEF OriginInv
      <3> QED BY <3>1, <3>2
    <2>8. WishInv'
      BY <2>1, <2>3, <2>4 DEF WishInv, RegistrationCancelled
    <2>9. ReportsOwn
      BY <1>1, <1>8 DEF ReportsOwn, Waiting
    <2> QED BY <1>0, <1>1, <1>4, <1>5, <1>8, <2>1, <2>4, <2>5, <2>6, <2>7, <2>8, <2>9
  <1>9. CASE op.intent \notin {"none", intent} /\ intent # "disconnect"
             /\ calls' = [asked EXCEPT ![c].told = "failed"] /\ UNCHANGED <<op, tasks>>
    <2>1. LiveInv' /\ StageInv'
      BY <1>9 DEF LiveInv, StageInv, Live
    <2>2. OriginInv'
      BY <1>9, <1>10 DEF OriginInv, Live
    <2>3. WishInv'
      BY <1>0, <1>9 DEF WishInv, WantsTeams, RegistrationCancelled
    <2>4. ReportsOwn
      BY <1>2, <1>9 DEF ReportsOwn, Waiting
    <2> QED BY <1>0, <1>2, <1>4, <1>5, <1>9, <2>1, <2>2, <2>3, <2>4
  <1> QED BY <1>6, <1>7, <1>8, <1>9 DEF Run, asked

-----------------------------------------------------------------------------
(* The stages of an operation.                                              *)

(* A step of the operation that is not about sessions or routing.           *)
LEMMA Rest ==
  ASSUME OperationsInv, UNCHANGED <<teamsState, wish>>,
         op' \in AnyOp, tasks' \subseteq AnyTask, calls' \in [Caller -> AnyCall],
         agentSession' \in {"none", "starting", "ready"}, starter' \in {"none", "user", "op"},
         LiveInv', StageInv', OriginInv', WishInv'
  PROVE  OperationsInv' /\ RoutesWanted
  BY NothingRouted DEF OperationsInv, OperationsTypeOK, DisconnectSticks

(* Before the first awaited step there is none.                             *)
LEMMA EarlyStages ==
  ASSUME OperationsInv, op.stage \in {"none", "preflight", "status"}
  PROVE  \A t \in tasks : ~Live(t)
  BY DEF OperationsInv, OperationsTypeOK, LiveInv, AnyTask

\* The preflight and the status of an operation preserve the invariant, report their own
\* operation and route nothing unwanted.
LEMMA StagesKeep ==
  ASSUME OperationsInv, Preflight \/ Status
  PROVE  OperationsInv' /\ ReportsOwn /\ RoutesWanted
  <1> USE DEF OperationsInv, OperationsTypeOK
  <1>1. /\ op.stage \in {"preflight", "status"} /\ UNCHANGED <<agentSession, starter, teamsState, wish>>
        /\ \/ \E answer \in {"failed", "unavailable", "active"} : OpEnds(answer) /\ UNCHANGED tasks
           \/ \E stage \in {"status", "seat", "session"} :
                 ~op.cancelled /\ Enter(stage) /\ (stage # "status" => op.stage = "status")
    BY DEF Preflight, Status, Enter
  <1>2. \A t \in tasks : ~Live(t)
    BY <1>1, EarlyStages
  <1>3. op.intent \notin {"none", "disconnect"}
    BY <1>1 DEF StageInv
  <1>4. ASSUME NEW answer \in {"failed", "unavailable", "active"}, OpEnds(answer), UNCHANGED tasks
        PROVE  OperationsInv' /\ ReportsOwn /\ RoutesWanted
    <2>1. /\ op' \in AnyOp /\ calls' \in [Caller -> AnyCall]
          /\ LiveInv' /\ StageInv' /\ OriginInv' /\ WishInv'
      BY <1>1, <1>2, <1>4, Ends
    <2> QED BY <1>1, <1>4, <2>1, EndsWithout, Rest
  <1>5. ASSUME NEW stage \in {"status", "seat", "session"}, ~op.cancelled, Enter(stage)
        PROVE  OperationsInv' /\ ReportsOwn /\ RoutesWanted
    <2>1. /\ op' \in AnyOp /\ op'.stage = stage /\ op'.intent = op.intent
          /\ op'.cancelled = op.cancelled /\ op'.activated = op.activated /\ UNCHANGED calls
      BY <1>5 DEF Enter, AnyOp
    <2>2. ReportsOwn
      BY <2>1 DEF ReportsOwn, Waiting
    <2>3. CASE stage = "status"
      <3>1. tasks' = tasks
        BY <1>5, <2>3 DEF Enter
      <3>2. LiveInv' /\ StageInv' /\ OriginInv' /\ WishInv'
        BY <1>1, <1>2, <1>3, <2>1, <2>3, <3>1 DEF LiveInv, StageInv, OriginInv, WishInv, Live,
           WantsTeams, RequiresInactive, RegistrationCancelled
      <3> QED BY <1>1, <2>1, <2>2, <3>1, <3>2, Rest
    <2>4. CASE stage \in {"seat", "session"}
      <3>1. tasks' = tasks \cup {Task(stage, Lifecycle)}
        BY <1>5, <2>4 DEF Enter
      <3>2. tasks' \subseteq AnyTask /\ LiveInv' /\ StageInv' /\ OriginInv' /\ WishInv'
        BY <1>1, <1>2, <1>3, <2>1, <2>4, <3>1, Advances
      <3> QED BY <1>1, <2>1, <2>2, <3>2, Rest
    <2> QED BY <2>3, <2>4
  <1> QED BY <1>1, <1>4, <1>5

(* What is left when a live step settles.                                   *)
LEMMA Settled ==
  ASSUME OperationsInv, NEW t \in tasks, Live(t)
  PROVE  /\ \A u \in tasks \ {t} : ~Live(u)
         /\ t.kind = op.stage /\ t \in AnyTask /\ op.intent # "none"
  BY DEF OperationsInv, OperationsTypeOK, LiveInv, StageInv, AnyTask

(* The next stage, or the end.                                              *)
LEMMA Continues ==
  ASSUME OperationsInv, NEW t \in tasks, NEW succeeded \in BOOLEAN,
         NEW stage \in {"session", "register", "end"}, Continue(t, succeeded, stage),
         wish' \in {"off", "settled"} => wish \in {"off", "settled"},
         Live(t) /\ succeeded => /\ stage # "end" => op.intent \notin {"none", "disconnect"}
                                 /\ stage = "register" =>
                                       /\ t.kind = "session" /\ t.phase # "sent"
                                       /\ WantsTeams(op.intent)
                                 /\ stage = "end" /\ t.kind = "session" => t.phase # "sent"
                                 /\ stage = "end" => t.kind # "seat"
  PROVE  /\ op' \in AnyOp /\ tasks' \subseteq AnyTask /\ calls' \in [Caller -> AnyCall]
         /\ LiveInv' /\ StageInv' /\ OriginInv' /\ WishInv' /\ ReportsOwn
  <1> USE DEF OperationsInv, OperationsTypeOK
  <1>0. tasks \ {t} \subseteq AnyTask
    OBVIOUS
  <1>1. CASE ~Live(t)
    <2>1. tasks' = tasks \ {t} /\ UNCHANGED <<op, calls>>
      BY <1>1 DEF Continue, Settles
    <2>2. LiveInv' /\ StageInv' /\ OriginInv' /\ WishInv'
      BY <2>1 DEF LiveInv, StageInv, OriginInv, WishInv, Live
    <2>3. ReportsOwn
      BY <2>1 DEF ReportsOwn, Waiting
    <2> QED BY <1>0, <2>1, <2>2, <2>3
  <1>2. ASSUME Live(t), tasks' = tasks \ {t}, NEW answer \in {"failed", "done"}, OpEnds(answer)
        PROVE  /\ op' \in AnyOp /\ tasks' \subseteq AnyTask /\ calls' \in [Caller -> AnyCall]
               /\ LiveInv' /\ StageInv' /\ OriginInv' /\ WishInv'
    <2>1. \A u \in tasks' : ~Live(u)
      BY <1>2, Settled
    <2> QED BY <1>0, <1>2, <2>1, Ends
  <1>3. CASE Live(t) /\ (~succeeded \/ (stage # "end" /\ op.cancelled))
    <2>1. tasks' = tasks \ {t} /\ OpEnds("failed")
      BY <1>3 DEF Continue, Settles
    <2> QED BY <1>2, <1>3, <2>1, EndsWithout
  <1>4. CASE Live(t) /\ succeeded /\ stage = "end"
    <2>1. tasks' = tasks \ {t} /\ OpEnds("done")
      BY <1>4 DEF Continue, Settles
    <2>2. ReportsOwn
      <3> SUFFICES ASSUME NEW c \in Caller, calls'[c].told = "done", Waiting(c),
                          RequiresInactive(calls[c].intent)
                   PROVE  op.activated \/ t.phase = "mine"
        BY <1>4 DEF ReportsOwn
      <3>1. op.intent = calls[c].intent
        <4>1. calls[c].told # "done"
          BY DEF Waiting
        <4>2. c \in Joined
          BY <2>1, <4>1 DEF OpEnds
        <4> QED BY <4>2 DEF Joined
      <3>2. t.kind = op.stage /\ t \in AnyTask
        BY <1>4, Settled
      <3>3. t.kind \in {"session", "register"}
        BY <1>4, <3>1, <3>2 DEF StageInv, RequiresInactive, AnyTask
      <3>4. CASE t.kind = "register"
        BY <3>1, <3>2, <3>4 DEF StageInv
      <3>5. CASE t.kind = "session"
        BY <1>4, <3>1, <3>2, <3>5 DEF OriginInv, AnyTask
      <3> QED BY <3>3, <3>4, <3>5
    <2> QED BY <1>2, <1>4, <2>1, <2>2
  <1>5. CASE Live(t) /\ succeeded /\ stage # "end" /\ ~op.cancelled
    <2>1. /\ op' = [op EXCEPT !.stage = stage, !.activated = (t.phase = "mine")] /\ UNCHANGED calls
          /\ tasks' = (tasks \ {t}) \cup {Task(stage, Lifecycle)}
      BY <1>5 DEF Continue
    <2>2. /\ op' \in AnyOp /\ op'.stage = stage /\ op'.intent = op.intent
          /\ op'.cancelled = op.cancelled /\ op'.activated = (t.phase = "mine")
      BY <1>5, <2>1 DEF AnyOp
    <2>3. stage = "register" => WantsTeams(op.intent) /\ (RequiresInactive(op.intent) => op'.activated)
      BY <1>5, <2>2, Settled DEF OriginInv, AnyTask
    <2>4. \A u \in tasks \ {t} : ~Live(u)
      BY <1>5, Settled
    <2>5. tasks' \subseteq AnyTask /\ LiveInv' /\ StageInv' /\ OriginInv' /\ WishInv'
      BY <1>5, <2>1, <2>2, <2>3, <2>4, Advances
    <2>6. ReportsOwn
      BY <2>1 DEF ReportsOwn, Waiting
    <2> QED BY <2>1, <2>2, <2>5, <2>6
  <1> QED BY <1>1, <1>3, <1>4, <1>5

-----------------------------------------------------------------------------
(* The awaited steps.                                                       *)

\* So does the answer about a seat.
LEMMA SeatKeeps ==
  ASSUME OperationsInv, NEW t \in tasks, SeatSettles(t)
  PROVE  OperationsInv' /\ ReportsOwn /\ RoutesWanted
  <1>1. /\ t.kind = "seat" /\ UNCHANGED <<agentSession, starter, userActs, teamsState, wish>>
        /\ \E succeeded \in BOOLEAN : Continue(t, succeeded, "session")
    BY DEF SeatSettles
  <1>2. Live(t) => op.intent \notin {"none", "disconnect"}
    BY <1>1, Settled DEF OperationsInv, StageInv
  <1>3. /\ op' \in AnyOp /\ tasks' \subseteq AnyTask /\ calls' \in [Caller -> AnyCall]
        /\ LiveInv' /\ StageInv' /\ OriginInv' /\ WishInv' /\ ReportsOwn
    BY <1>1, <1>2, Continues
  <1> QED BY <1>1, <1>3, Rest DEF OperationsInv, OperationsTypeOK

(* A start arrives: it is late, refused, joined, or the operation's own.    *)
LEMMA ArrivesKeeps ==
  ASSUME OperationsInv, NEW t \in tasks, SessionArrives(t)
  PROVE  OperationsInv' /\ ReportsOwn /\ RoutesWanted
  <1> USE DEF OperationsInv, OperationsTypeOK
  <1>1. /\ t.kind = "session" /\ t.phase = "sent" /\ UNCHANGED <<userActs, teamsState, wish>>
        /\ t \in AnyTask /\ t.caller = Lifecycle /\ tasks \ {t} \subseteq AnyTask
    BY DEF SessionArrives, OriginInv
  <1>2. CASE t.late
    <2>1. tasks' = tasks \ {t} /\ UNCHANGED <<op, calls, agentSession, starter>>
      BY <1>2 DEF SessionArrives, Settles
    <2>2. LiveInv' /\ StageInv' /\ OriginInv' /\ WishInv'
      BY <2>1, <1>1 DEF LiveInv, StageInv, OriginInv, WishInv, Live
    <2>3. ReportsOwn
      BY <2>1 DEF ReportsOwn, Waiting
    <2> QED BY <1>1, <2>1, <2>2, <2>3, Rest
  <1>3. CASE ~t.late /\ Refused(op.intent)
    <2>1. tasks' = tasks \ {t} /\ OpEnds("active") /\ UNCHANGED <<agentSession, starter>>
      BY <1>3 DEF SessionArrives, Settles
    <2>2. \A u \in tasks' : ~Live(u)
      BY <1>1, <1>3, <2>1, Settled DEF Live
    <2>3. /\ op' \in AnyOp /\ calls' \in [Caller -> AnyCall]
          /\ LiveInv' /\ StageInv' /\ OriginInv' /\ WishInv'
      BY <1>1, <2>1, <2>2, Ends
    <2> QED BY <1>1, <2>1, <2>3, EndsWithout, Rest
  <1>4. CASE ~t.late /\ ~Refused(op.intent)
    <2> DEFINE mine == agentSession = "none"
               new == [t EXCEPT !.phase = IF mine THEN "mine" ELSE "joined"]
    <2>1. /\ tasks' = (tasks \ {t}) \cup {new} /\ UNCHANGED <<op, calls>>
          /\ agentSession' \in {"starting", agentSession} /\ starter' \in {"op", starter}
      BY <1>4 DEF SessionArrives
    <2>2. /\ new \in AnyTask /\ new.kind = "session" /\ new.caller = Lifecycle /\ ~new.late
          /\ new.phase = "joined" => ~RequiresInactive(op.intent)
      BY <1>1, <1>4 DEF AnyTask, Refused
    <2> HIDE DEF mine, new
    <2>3. Live(t)
      BY <1>1, <1>4 DEF Live
    <2>4. \A u \in tasks \ {t} : ~Live(u)
      BY <2>3, Settled
    <2>5. op.stage = "session"
      BY <1>1, <2>3, Settled
    <2>6. LiveInv' /\ StageInv'
      BY <2>1, <2>2, <2>4, <2>5 DEF LiveInv, StageInv, Live
    <2>7. OriginInv'
      BY <2>1, <2>2, <2>4 DEF OriginInv, Live
    <2>8. WishInv'
      BY <1>1, <2>1, <2>2 DEF WishInv, RegistrationCancelled
    <2>9. ReportsOwn
      BY <2>1 DEF ReportsOwn, Waiting
    <2>10. tasks' \subseteq AnyTask
      BY <1>1, <2>1, <2>2
    <2>11. agentSession' \in {"none", "starting", "ready"} /\ starter' \in {"none", "user", "op"}
      BY <2>1
    <2> QED BY <1>1, <2>1, <2>6, <2>7, <2>8, <2>9, <2>10, <2>11, Rest
  <1> QED BY <1>2, <1>3, <1>4

\* So does the answer about a session.
LEMMA SessionKeeps ==
  ASSUME OperationsInv, NEW t \in tasks, SessionSettles(t)
  PROVE  OperationsInv' /\ ReportsOwn /\ RoutesWanted
  <1>1. /\ t.kind = "session" /\ t.phase # "sent" /\ UNCHANGED <<userActs, teamsState, wish>>
        /\ \/ Continue(t, TRUE, IF WantsTeams(op.intent) THEN "register" ELSE "end")
           \/ Continue(t, FALSE, "end")
    BY DEF SessionSettles
  <1>2. agentSession' \in {"none", agentSession} /\ starter' \in {"none", starter}
    BY DEF SessionSettles
  <1>3. Live(t) => op.intent \notin {"none", "disconnect"}
    BY <1>1, Settled DEF OperationsInv, StageInv
  <1>4. /\ op' \in AnyOp /\ tasks' \subseteq AnyTask /\ calls' \in [Caller -> AnyCall]
        /\ LiveInv' /\ StageInv' /\ OriginInv' /\ WishInv' /\ ReportsOwn
    <2>1. CASE Continue(t, FALSE, "end")
      BY <1>1, <2>1, Continues
    <2>2. CASE WantsTeams(op.intent) /\ Continue(t, TRUE, "register")
      BY <1>1, <1>3, <2>2, Continues
    <2>3. CASE ~WantsTeams(op.intent) /\ Continue(t, TRUE, "end")
      BY <1>1, <1>3, <2>3, Continues
    <2> QED BY <1>1, <2>1, <2>2, <2>3
  <1> QED BY <1>1, <1>2, <1>4, Rest DEF OperationsInv, OperationsTypeOK

(* A registration enables routing for the operation that awaits it.         *)
LEMMA RegisterKeeps ==
  ASSUME OperationsInv, NEW t \in tasks, RegisterSettles(t)
  PROVE  OperationsInv' /\ ReportsOwn /\ RoutesWanted
  <1> USE DEF OperationsInv, OperationsTypeOK
  <1>1. t.kind = "register" /\ UNCHANGED <<agentSession, starter, userActs, wish>>
        /\ t.caller = Lifecycle
    BY DEF RegisterSettles, OriginInv
  <1>2. Live(t) => op.intent \notin {"none", "disconnect"}
    BY <1>1, Settled DEF StageInv
  <1>3. CASE ~RegistrationCancelled(t) /\ teamsState' = "on" /\ Continue(t, TRUE, "end")
    <2>1. Live(t)
      BY <1>1, <1>3 DEF Live, RegistrationCancelled
    <2>2. WantsTeams(op.intent)
      BY <1>1, <2>1, Settled DEF StageInv
    <2>3. wish \notin {"off", "settled"}
      BY <1>1, <1>3 DEF WishInv
    <2>4. /\ op' \in AnyOp /\ tasks' \subseteq AnyTask /\ calls' \in [Caller -> AnyCall]
          /\ LiveInv' /\ StageInv' /\ OriginInv' /\ WishInv' /\ ReportsOwn
      BY <1>1, <1>3, Continues
    <2>5. RoutesWanted /\ DisconnectSticks'
      BY <1>1, <2>2, <2>3 DEF RoutesWanted, DisconnectSticks
    <2> QED BY <1>1, <1>3, <2>4, <2>5
  <1>4. CASE UNCHANGED teamsState /\ Continue(t, FALSE, "end")
    <2>1. /\ op' \in AnyOp /\ tasks' \subseteq AnyTask /\ calls' \in [Caller -> AnyCall]
          /\ LiveInv' /\ StageInv' /\ OriginInv' /\ WishInv' /\ ReportsOwn
      BY <1>1, <1>4, Continues
    <2> QED BY <1>1, <1>4, <2>1, Rest
  <1> QED BY <1>3, <1>4 DEF RegisterSettles

(* A stop ends, for an operation or for the call that cancelled one.        *)
LEMMA StopKeeps ==
  ASSUME OperationsInv, NEW t \in tasks, StopSettles(t)
  PROVE  OperationsInv' /\ ReportsOwn /\ RoutesWanted
  <1> USE DEF OperationsInv, OperationsTypeOK
  <1>1. /\ t.kind = "stop" /\ teamsState' = "off" /\ UNCHANGED <<agentSession, starter, userActs>>
        /\ wish' = IF wish = "off" THEN "settled" ELSE wish
    BY DEF StopSettles
  <1>2. RoutesWanted /\ DisconnectSticks' /\ wish' \in {"none", "on", "off", "settled"}
    BY <1>1 DEF RoutesWanted, DisconnectSticks
  <1>3. CASE t.caller = Lifecycle
    <2>1. Continue(t, TRUE, "end")
      BY <1>3 DEF StopSettles
    <2>2. /\ op' \in AnyOp /\ tasks' \subseteq AnyTask /\ calls' \in [Caller -> AnyCall]
          /\ LiveInv' /\ StageInv' /\ OriginInv' /\ WishInv' /\ ReportsOwn
      BY <1>1, <2>1, Continues
    <2> QED BY <1>1, <1>2, <2>2
  <1>4. CASE t.caller # Lifecycle
    <2>1. /\ tasks' = tasks \ {t} /\ calls' = [calls EXCEPT ![t.caller].told = "done"] /\ UNCHANGED op
          /\ t.caller \in Caller /\ calls[t.caller].intent = "disconnect"
      BY <1>4 DEF StopSettles, Settles, Told, OriginInv, AnyTask, Caller, Lifecycle
    <2>2. calls[t.caller] \in AnyCall
      BY <2>1
    <2>3. /\ calls' \in [Caller -> AnyCall]
          /\ \A c \in Caller : /\ calls'[c].intent = calls[c].intent
                               /\ c # t.caller => calls'[c] = calls[c]
      BY <2>1, <2>2 DEF AnyCall
    <2>4. LiveInv' /\ StageInv'
      BY <2>1 DEF LiveInv, StageInv, Live
    <2>5. OriginInv'
      <3>1. \A u \in tasks : u.caller # Lifecycle => u.caller \in Caller
        BY DEF AnyTask, Caller, Lifecycle
      <3> QED BY <2>1, <2>3, <3>1 DEF OriginInv, Live
    <2>6. WishInv'
      BY <1>1, <2>1 DEF WishInv, RegistrationCancelled
    <2>7. ReportsOwn
      BY <2>1, <2>3 DEF ReportsOwn, Waiting, RequiresInactive
    <2> QED BY <1>1, <1>2, <2>1, <2>3, <2>4, <2>5, <2>6, <2>7
  <1> QED BY <1>3, <1>4

(* The deadline: what was awaited goes on by itself.                        *)
LEMMA ExpiresKeeps ==
  ASSUME OperationsInv, Expires
  PROVE  OperationsInv' /\ ReportsOwn /\ RoutesWanted
  <1> USE DEF OperationsInv, OperationsTypeOK
  <1> DEFINE Left(t) == IF t.caller = Lifecycle THEN [t EXCEPT !.late = TRUE] ELSE t
  <1>1. /\ OpEnds("failed") /\ tasks' = {Left(t) : t \in tasks}
        /\ UNCHANGED <<agentSession, starter, userActs, teamsState, wish>>
    BY DEF Expires
  <1>2. \A t \in tasks : /\ Left(t) \in AnyTask /\ ~Live(Left(t))
                         /\ Left(t).kind = t.kind /\ Left(t).caller = t.caller
                         /\ t.late => Left(t).late
                         /\ t.stale => Left(t).stale
    BY DEF AnyTask, Live
  <1> HIDE DEF Left
  <1>3. tasks' \subseteq AnyTask
    BY <1>1, <1>2
  <1>4. \A t \in tasks' : ~Live(t) /\ \E u \in tasks : /\ u.kind = t.kind /\ u.caller = t.caller
                                                       /\ u.late => t.late
                                                       /\ u.stale => t.stale
    BY <1>1, <1>2
  <1>5. /\ op' \in AnyOp /\ calls' \in [Caller -> AnyCall]
        /\ LiveInv' /\ StageInv' /\ OriginInv' /\ WishInv'
    BY <1>1, <1>3, <1>4, Ends
  <1> QED BY <1>1, <1>3, <1>5, EndsWithout, Rest

(* The session comes and goes beside the operation.                         *)
LEMMA OthersKeep ==
  ASSUME OperationsInv, BecomesReady \/ UserStarts \/ UserEnds \/ UNCHANGED operationVars
  PROVE  OperationsInv' /\ ReportsOwn /\ RoutesWanted
  <1> USE DEF OperationsInv, OperationsTypeOK
  <1>1. /\ UNCHANGED <<op, tasks, calls, teamsState, wish>>
        /\ agentSession' \in {"none", "starting", "ready"} /\ starter' \in {"none", "user", "op"}
    BY DEF BecomesReady, UserStarts, UserEnds, operationVars
  <1>2. LiveInv' /\ StageInv' /\ OriginInv' /\ WishInv'
    BY <1>1 DEF LiveInv, StageInv, OriginInv, WishInv
  <1>3. ReportsOwn
    BY <1>1 DEF ReportsOwn, Waiting
  <1> QED BY <1>1, <1>2, <1>3, Rest

-----------------------------------------------------------------------------
(* Every step keeps the invariant, reports what it did and routes for       *)
(* somebody.                                                                *)
LEMMA OperationsStep ==
  ASSUME OperationsInv, [OperationsNext]_operationVars
  PROVE  OperationsInv' /\ ReportsOwn /\ RoutesWanted
  BY RunKeeps, StagesKeep, SeatKeeps, ArrivesKeeps, SessionKeeps, RegisterKeeps, StopKeeps,
     ExpiresKeeps, OthersKeep
     DEF OperationsNext, Stages, TaskSettles, StopDone

(* An operation that nobody waits for enables nothing, what is reported as  *)
(* new is the operation's own, and once a disconnect has been answered      *)
(* nothing under way brings the agent online: for any number of calls that  *)
(* join, cancel and outlive each other (AgentLifecycle).                    *)
THEOREM DisconnectsLast == OperationsSpec => OperationsAreWanted
  <1>1. OperationsInv /\ [OperationsNext]_operationVars
           => /\ OperationsInv'
              /\ [ReportsOwn]_operationVars /\ [RoutesWanted]_operationVars
              /\ [DisconnectSticks']_operationVars
    BY OperationsStep DEF OperationsInv
  <1>2. OperationsSpec => [][ReportsOwn]_operationVars /\ [][RoutesWanted]_operationVars
                          /\ [][DisconnectSticks']_operationVars
    BY <1>1, OperationsStart, PTL DEF OperationsSpec
  <1> QED BY <1>2 DEF OperationsAreWanted, NoLateRouting, NewAgentsAreNew, ReportsOwn, RoutesWanted
=============================================================================
