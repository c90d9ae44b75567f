---------------------------- MODULE ServerRelay ----------------------------
(***************************************************************************)
(* The Electron main process and the terminal server it forks: requests    *)
(* that wait for a server, a crash and the respawn, the hard reload that   *)
(* replaces the server, the shutdown before the app quits, and the         *)
(* pseudo-terminals a dead server leaves behind.                           *)
(*                                                                         *)
(* Servers are numbered as they are forked.  A message to a server waits   *)
(* in its channel until it listens; what a dead server had sent may be     *)
(* delivered before its exit is noticed, or lost.  What a request asks for *)
(* is left out, and so are the events, which go through unchanged.         *)
(***************************************************************************)
EXTENDS Naturals, Sequences, PtyRegistry

CONSTANTS
    Request,     \* requests of the renderer and of the main process
    Pid,         \* process ids that pseudo-terminals get
    MaxCrashes,  \* bound: servers that crash
    MaxReloads,  \* bound: hard reloads
    MaxPtys,     \* bound: pseudo-terminals spawned
    MaxFailures  \* bound: kills of a pseudo-terminal that fail

VARIABLES
    phase,             \* of the app: "starting", "running", "quitting", "gone"
    window,            \* mainWindow: "none", "open", "closed"
    pendingHardReload,
    server,            \* this.server, 0 if null
    procs,             \* every server forked
    pendingRequests, queuedRequests, shuttingDown,   \* the queue without its order
    req,               \* what has become of each request
    handed,            \* ghost: how often each request reached a server
    dropped,           \* ghost: requests that a shutdown forgot
    ptys,              \* every pseudo-terminal spawned: its pid and its server
    os,                \* what runs under each pid: 0, a pseudo-terminal, or Other
    registry,          \* the records of PtyRegistry
    unrelated,         \* ghost: whether a reap killed what the office had not spawned
    budget             \* crashes, reloads and failures so far

appVars == <<phase, window, pendingHardReload>>
relayFields == <<server, pendingRequests, queuedRequests, shuttingDown>>
callVars == <<req, handed, dropped>>
ptyVars == <<ptys, os, registry, unrelated>>
relayVars == <<appVars, relayFields, procs, callVars, ptyVars, budget>>

ASSUME RelayAssumption == MaxPtys \in Nat

NoServer == 0
Free == 0              \* a pid that nothing runs under
Other == MaxPtys + 1   \* a process that is not the office's
Server == DOMAIN procs
MaxServers == 1 + MaxCrashes + MaxReloads

Outcome == {"result", "crashed", "shut down", "timed out"}

NewServer == [state |-> "booting", watched |-> TRUE, linked |-> TRUE, gone |-> FALSE,
              promise |-> "pending", inbox |-> {}, told |-> FALSE, out |-> <<>>,
              awaits |-> "none"]

Process == [state : {"booting", "up", "dead"}, watched : BOOLEAN, linked : BOOLEAN,
            gone : BOOLEAN, promise : {"pending", "resolved", "rejected", "dropped"},
            inbox : SUBSET Request, told : BOOLEAN, out : Seq(Request \cup {"ready"}),
            awaits : {"none", "reload", "quit"}]
Terminal == [pid : Pid, server : Nat, recorded : BOOLEAN]
RelayTypeOK ==
    /\ phase \in {"starting", "running", "quitting", "gone"}
    /\ window \in {"none", "open", "closed"}
    /\ pendingHardReload \in BOOLEAN /\ shuttingDown \in BOOLEAN
    /\ procs \in Seq(Process) /\ server \in Server \cup {NoServer}
    /\ pendingRequests \subseteq Request /\ queuedRequests \subseteq Request
    /\ req \in [Request -> {"idle", "waiting"} \cup Outcome]
    /\ handed \in [Request -> Nat] /\ dropped \subseteq Request
    /\ ptys \in Seq(Terminal) /\ Len(ptys) <= MaxPtys
    /\ os \in [Pid -> 0..Other] /\ unrelated \in BOOLEAN
    /\ registry \subseteq [pid : Pid, of : 1..MaxPtys]
    /\ budget \in [crashes : Nat, reloads : Nat, failures : Nat]

RelayInit ==
    /\ phase = "starting" /\ window = "none" /\ pendingHardReload = FALSE
    /\ server = NoServer /\ procs = <<>>
    /\ pendingRequests = {} /\ queuedRequests = {} /\ shuttingDown = FALSE
    /\ req = [r \in Request |-> "idle"] /\ handed = [r \in Request |-> 0]
    /\ dropped = {}
    /\ ptys = <<>> /\ os = [pid \in Pid |-> Free] /\ registry = {} /\ unrelated = FALSE
    /\ budget = [crashes |-> 0, reloads |-> 0, failures |-> 0]

(* The server that messages reach: this.server while it is connected.      *)
Connected == server # NoServer /\ procs[server].linked
Listening(s) == procs[s].state # "dead"

(* send(): the requests rs are sent to this.server, if it is connected.    *)
WithSent(ps, rs) ==
    IF Connected /\ Listening(server) THEN [ps EXCEPT ![server].inbox = @ \cup rs] ELSE ps
HandedOver(rs) ==
    [r \in Request |-> handed[r] + (IF r \in rs /\ Connected /\ Listening(server) THEN 1 ELSE 0)]

AnswerAll(outcome) ==
    [r \in Request |-> IF r \in pendingRequests THEN outcome ELSE req[r]]

(* reapRegisteredPtys: what it may leave is what the system refuses.       *)
ReapRegisteredPtys ==
    \E failed \in SUBSET {r.pid : r \in Reapable(registry, os, Free)} :
        /\ failed = {} \/ budget.failures < MaxFailures
        /\ LET reaped == Reaped(registry, os, Free, failed) IN
           /\ registry' = reaped.registry
           /\ os' = reaped.os
           /\ unrelated' = (unrelated \/ \E pid \in Pid : os[pid] = Other /\ os'[pid] = Free)
        /\ budget' = [budget EXCEPT !.failures = @ + IF failed = {} THEN 0 ELSE 1]
        /\ UNCHANGED ptys

SpawnServer(ps) == /\ procs' = Append(ps, NewServer)
                   /\ server' = Len(ps) + 1

-----------------------------------------------------------------------------
(* The app and its window.                                                 *)

(* app.whenReady: orphans of an earlier run are reaped, the server forked. *)
Launch ==
    /\ phase = "starting" /\ procs = <<>>
    /\ ReapRegisteredPtys
    /\ SpawnServer(procs)
    /\ UNCHANGED <<appVars, pendingRequests, queuedRequests, shuttingDown, callVars>>

(* request-hard-reload, and the navigation that follows.                   *)
RequestHardReload ==
    /\ phase = "running" /\ window = "open" /\ pendingHardReload = FALSE
    /\ budget.reloads < MaxReloads
    /\ pendingHardReload' = TRUE
    /\ budget' = [budget EXCEPT !.reloads = @ + 1]
    /\ UNCHANGED <<phase, window, relayFields, procs, callVars, ptyVars>>

(* shutdown(), and what follows it: a fork, or the end of the app.         *)
Shutdown(then) ==
    /\ shuttingDown' = TRUE
    /\ pendingRequests' = {} /\ queuedRequests' = {}
    /\ IF server = NoServer
       THEN /\ IF then = "reload" THEN SpawnServer(procs) ELSE UNCHANGED <<procs, server>>
            /\ phase' = IF then = "quit" THEN "gone" ELSE phase
            /\ dropped' = dropped \cup pendingRequests
            /\ UNCHANGED req
       ELSE /\ procs' = [procs EXCEPT ![server] =
                  [@ EXCEPT !.watched = FALSE, !.told = procs[server].told \/ procs[server].linked,
                            !.awaits = then]]
            /\ server' = NoServer
            /\ req' = AnswerAll("shut down")
            /\ UNCHANGED <<phase, dropped>>
    /\ UNCHANGED <<handed, ptyVars, budget>>

Navigate ==
    /\ phase = "running" /\ pendingHardReload
    /\ pendingHardReload' = FALSE
    /\ Shutdown("reload")
    /\ UNCHANGED window

(* Except on macOS, the app quits with its last window.                    *)
CloseWindow ==
    /\ phase = "running" /\ window = "open"
    /\ window' = "closed"
    /\ phase' \in {phase, "quitting"}
    /\ UNCHANGED <<pendingHardReload, relayFields, procs, callVars, ptyVars, budget>>

Activate ==
    /\ phase = "running" /\ window = "closed"
    /\ window' = "open"
    /\ UNCHANGED <<phase, pendingHardReload, relayFields, procs, callVars, ptyVars, budget>>

(* before-quit: the Teams service is stopped first, then the relay.        *)
BeforeQuit ==
    /\ phase = "running"
    /\ phase' = "quitting"
    /\ UNCHANGED <<window, pendingHardReload, relayFields, procs, callVars, ptyVars, budget>>

StopRelay ==
    /\ phase = "quitting"
    /\ ~\E s \in Server : procs[s].awaits = "quit"
    /\ Shutdown("quit")
    /\ UNCHANGED <<window, pendingHardReload>>

-----------------------------------------------------------------------------
(* A server as its parent sees it.                                         *)

BootTimesOut(s) ==
    /\ procs[s].promise = "pending" /\ procs[s].watched
    /\ procs' = [procs EXCEPT ![s].promise = "rejected"]
    /\ UNCHANGED <<appVars, relayFields, callVars, ptyVars, budget>>

(* A bug: the queue is flushed with what is answered already.              *)
WholeQueue == queuedRequests

(* A bug: the mark of a deliberate shutdown stays.                         *)
NeverCleared == shuttingDown

ShuttingDownOnceReady == FALSE

(* handleServerMessage of "ready": the queue is flushed to this.server.    *)
FlushedRequests == pendingRequests \cap queuedRequests

HeardReady(proc) == [proc EXCEPT !.out = Tail(@),
                                 !.promise = IF @ = "pending" THEN "resolved" ELSE @]
IsReady(s) ==
    /\ procs[s].watched /\ procs[s].out # <<>> /\ Head(procs[s].out) = "ready"
    /\ shuttingDown' = ShuttingDownOnceReady
    /\ queuedRequests' = {}
    /\ procs' = WithSent([procs EXCEPT ![s] = HeardReady(@)], FlushedRequests)
    /\ handed' = HandedOver(FlushedRequests)
    /\ IF phase = "starting" /\ s = 1 /\ procs[s].promise = "pending"
       THEN phase' = "running" /\ window' = "open"
       ELSE UNCHANGED <<phase, window>>
    /\ UNCHANGED <<pendingHardReload, server, pendingRequests, req, dropped, ptyVars, budget>>

Response(s) ==
    /\ procs[s].watched /\ procs[s].out # <<>> /\ Head(procs[s].out) # "ready"
    /\ LET r == Head(procs[s].out) IN
       /\ req' = IF r \in pendingRequests THEN [req EXCEPT ![r] = "result"] ELSE req
       /\ pendingRequests' = pendingRequests \ {r}
    /\ procs' = [procs EXCEPT ![s].out = Tail(@)]
    /\ UNCHANGED <<appVars, server, queuedRequests, shuttingDown, handed, dropped, ptyVars, budget>>

LinkLost(s) ==
    /\ ~Listening(s) /\ procs[s].linked
    /\ procs' = [procs EXCEPT ![s].linked = FALSE]
    /\ UNCHANGED <<appVars, relayFields, callVars, ptyVars, budget>>

Exited(proc) ==
    [proc EXCEPT !.gone = TRUE, !.linked = FALSE, !.awaits = "none", !.out = <<>>,
                 !.promise = IF @ = "pending" THEN "dropped" ELSE @]
Closed(s) == [procs EXCEPT ![s] = Exited(@)]

(* The exit handler of spawnServer, of a server nobody shut down.          *)
Respawns == ~shuttingDown /\ window = "open"
ExitSeen(s) ==
    /\ ~Listening(s) /\ ~procs[s].gone /\ procs[s].watched
    /\ req' = AnswerAll("crashed")
    /\ pendingRequests' = {}
    /\ IF Respawns
       THEN ReapRegisteredPtys /\ SpawnServer(Closed(s))
       ELSE procs' = Closed(s) /\ server' = NoServer /\ UNCHANGED <<ptyVars, budget>>
    /\ UNCHANGED <<appVars, queuedRequests, shuttingDown, handed, dropped>>

(* The end of a shutdown(): the exit came, or three seconds went by and    *)
(* the server was killed.                                                  *)
ShutdownEnds(s) ==
    /\ procs[s].awaits # "none"
    /\ LET ended == [Closed(s) EXCEPT ![s].state = "dead", ![s].inbox = {}] IN
       IF procs[s].awaits = "reload"
       THEN SpawnServer(ended) /\ UNCHANGED phase
       ELSE procs' = ended /\ phase' = "gone" /\ UNCHANGED server
    /\ UNCHANGED <<window, pendingHardReload, pendingRequests, queuedRequests, shuttingDown,
                   callVars, ptyVars, budget>>

-----------------------------------------------------------------------------
(* Requests.                                                               *)

(* request(): of ipcMain.handle or of a main... method.                    *)
Ask(r) ==
    /\ phase \in {"running", "quitting"} /\ req[r] = "idle"
    /\ req' = [req EXCEPT ![r] = "waiting"]
    /\ pendingRequests' = pendingRequests \cup {r}
    /\ IF Connected
       THEN procs' = WithSent(procs, {r}) /\ handed' = HandedOver({r}) /\ UNCHANGED queuedRequests
       ELSE queuedRequests' = queuedRequests \cup {r} /\ UNCHANGED <<procs, handed>>
    /\ UNCHANGED <<appVars, server, shuttingDown, dropped, ptyVars, budget>>

TimesOut(r) ==
    /\ r \in pendingRequests
    /\ pendingRequests' = pendingRequests \ {r}
    /\ queuedRequests' = queuedRequests \ {r}
    /\ req' = [req EXCEPT ![r] = "timed out"]
    /\ UNCHANGED <<appVars, server, procs, shuttingDown, handed, dropped, ptyVars, budget>>

-----------------------------------------------------------------------------
(* A server as it runs.                                                    *)

Says(proc, message) == [proc EXCEPT !.out = Append(@, message)]

(* main(): it listens to its parent and says that it is ready.             *)
Boots(s) ==
    /\ procs[s].state = "booting"
    /\ procs' = [procs EXCEPT ![s] = [Says(@, "ready") EXCEPT !.state = "up"]]
    /\ UNCHANGED <<appVars, relayFields, callVars, ptyVars, budget>>

Responds(s, r) ==
    /\ procs[s].state = "up" /\ r \in procs[s].inbox
    /\ procs' = [procs EXCEPT ![s] = [Says(@, r) EXCEPT !.inbox = procs[s].inbox \ {r}]]
    /\ UNCHANGED <<appVars, relayFields, callVars, ptyVars, budget>>

(* Nothing else runs in the server once it exits.                          *)
Crash(s) ==
    /\ Listening(s) /\ budget.crashes < MaxCrashes
    /\ procs' = [procs EXCEPT ![s] = [@ EXCEPT !.state = "dead", !.inbox = {}]]
    /\ budget' = [budget EXCEPT !.crashes = @ + 1]
    /\ UNCHANGED <<appVars, relayFields, callVars, ptyVars>>

OwnPtys(s) == {p \in DOMAIN ptys : ptys[p].server = s /\ os[ptys[p].pid] = p}

(* The message "shutdown": killAllPtyProcesses, and the exit.  A kill that *)
(* fails leaves the record.                                                *)
KillAllPtyProcesses(s, failed) ==
    LET killed == {ptys[p].pid : p \in OwnPtys(s) \ failed}
    IN /\ os' = [pid \in Pid |-> IF pid \in killed THEN Free ELSE os[pid]]
       /\ registry' = {r \in registry : r.pid \notin killed}
       /\ UNCHANGED <<ptys, unrelated>>
HandlesShutdown(s) ==
    /\ procs[s].state = "up" /\ procs[s].told
    /\ \E failed \in SUBSET OwnPtys(s) :
          /\ failed = {} \/ budget.failures < MaxFailures
          /\ KillAllPtyProcesses(s, failed)
          /\ budget' = [budget EXCEPT !.failures = @ + IF failed = {} THEN 0 ELSE 1]
    /\ procs' = [procs EXCEPT ![s] = [@ EXCEPT !.state = "dead", !.inbox = {}]]
    /\ UNCHANGED <<appVars, relayFields, callVars>>

(* The back end spawns a terminal, which is registered after an await.     *)
SpawnPty(s, pid) ==
    /\ procs[s].state = "up" /\ Len(ptys) < MaxPtys /\ os[pid] = Free
    /\ ptys' = Append(ptys, [pid |-> pid, server |-> s, recorded |-> FALSE])
    /\ os' = [os EXCEPT ![pid] = Len(ptys) + 1]
    /\ UNCHANGED <<appVars, relayFields, procs, callVars, registry, unrelated, budget>>

RegistersPty(p) ==
    /\ procs[ptys[p].server].state = "up" /\ ~ptys[p].recorded
    /\ ptys' = [ptys EXCEPT ![p].recorded = TRUE]
    /\ registry' = RegisterPty(registry, ptys[p].pid, p)
    /\ UNCHANGED <<appVars, relayFields, procs, callVars, os, unrelated, budget>>

(* A terminal exits; its server, if it is up, unregisters it.              *)
PtyExits(p) ==
    /\ os[ptys[p].pid] = p /\ (procs[ptys[p].server].state = "up" => ptys[p].recorded)
    /\ os' = [os EXCEPT ![ptys[p].pid] = Free]
    /\ registry' = IF procs[ptys[p].server].state = "up"
                   THEN UnregisterPty(registry, ptys[p].pid) ELSE registry
    /\ UNCHANGED <<appVars, relayFields, procs, callVars, ptys, unrelated, budget>>

(* The system gives a free pid to some other program.                      *)
PidIsReused(pid) ==
    /\ os[pid] = Free
    /\ os' = [os EXCEPT ![pid] = Other]
    /\ UNCHANGED <<appVars, relayFields, procs, callVars, ptys, registry, unrelated, budget>>
-----------------------------------------------------------------------------
AppMoves == \/ Launch \/ RequestHardReload \/ Navigate \/ CloseWindow \/ Activate
            \/ BeforeQuit \/ StopRelay
RelayMoves(s) == BootTimesOut(s) \/ IsReady(s) \/ Response(s) \/ LinkLost(s) \/ ExitSeen(s)
                 \/ ShutdownEnds(s)
RequestMoves(r) == Ask(r) \/ TimesOut(r)
ServerMoves(s) == Boots(s) \/ HandlesShutdown(s) \/ \E r \in Request : Responds(s, r)
PtyMoves == \/ \E s \in Server, pid \in Pid : SpawnPty(s, pid)
            \/ \E p \in DOMAIN ptys : RegistersPty(p) \/ PtyExits(p)
            \/ \E pid \in Pid : PidIsReused(pid)
RelayNext ==
    /\ phase # "gone"
    /\ \/ AppMoves
       \/ \E s \in Server : RelayMoves(s) \/ ServerMoves(s) \/ Crash(s)
       \/ \E r \in Request : RequestMoves(r)
       \/ PtyMoves

(* Timers go off, exits and messages are delivered, and a server that is   *)
(* not killed gets through its start.                                      *)
RequestExpires(r) == phase # "gone" /\ TimesOut(r)
Delivers(s) == phase # "gone" /\ s \in Server /\ (Boots(s) \/ IsReady(s) \/ ExitSeen(s))
RelayFairness ==
    /\ \A r \in Request : WF_relayVars(RequestExpires(r))
    /\ \A s \in 1..MaxServers : WF_relayVars(Delivers(s))
RelaySpec == RelayInit /\ [][RelayNext]_relayVars /\ RelayFairness

-----------------------------------------------------------------------------
(* A request reaches at most one server, once, and only while its caller   *)
(* waits: what was answered "crashed" or timed out in the queue is not     *)
(* done later by the next server.                                          *)
HandedOverWhileWanted ==
    [][\A r \in Request : handed'[r] # handed[r] => handed'[r] = 1 /\ req'[r] = "waiting"]_relayVars

(* Every caller gets an answer, however servers come and go, except those  *)
(* that a shutdown() without a server forgets: it clears pendingRequests   *)
(* without an answer, and their timeout then finds nothing.                *)
CallersAreAnswered ==
    \A r \in Request : req[r] = "waiting" ~> \/ req[r] \in Outcome
                                             \/ r \in dropped \/ phase = "gone"

(* A crash of a server that had been ready, with the window open, ends     *)
(* with a server that is ready, unless the user reloads, closes or quits,  *)
(* or the next one crashes before it is.                                   *)
Repaired == \/ server # NoServer /\ procs[server].state = "up"
            \/ pendingHardReload \/ window # "open" \/ phase # "running"
            \/ \E s \in Server : \/ procs[s].awaits # "none"
                                 \/ procs[s].state = "dead" /\ procs[s].promise # "resolved"
CrashIsRepaired ==
    \A s \in 1..MaxServers :
        (/\ s = server /\ s \in Server /\ procs[s].promise = "resolved"
         /\ procs[s].state = "dead" /\ window = "open") ~> Repaired

(* A terminal that outlived its server and had been registered can still   *)
(* be found by a reap, and no reap kills a process the office did not      *)
(* spawn, whoever has the pid by then.                                     *)
OrphansAreReapable ==
    /\ ~unrelated
    /\ \A p \in DOMAIN ptys :
          (/\ os[ptys[p].pid] = p /\ ptys[p].recorded
           /\ procs[ptys[p].server].state = "dead")
          => [pid |-> ptys[p].pid, of |-> p] \in registry

(* A server is forked for the launch, for a crash or for a reload, and for  *)
(* none of them twice.                                                      *)
ForksAreCounted == Len(procs) <= 1 + budget.crashes + budget.reloads

(* A crash costs the requests under way and nothing else: the next server   *)
(* does none of them, and what the dead one left running can be cleared     *)
(* away without harm to others.                                             *)
CrashesAreContained == HandedOverWhileWanted /\ [][OrphansAreReapable']_relayVars
=============================================================================
