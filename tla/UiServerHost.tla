---------------------------- MODULE UiServerHost ----------------------------
(***************************************************************************)
(* The ui-server back end: one Copilot host for the agents of all offices, *)
(* reached over a control connection, and what the terminal server does    *)
(* with it.                                                                *)
(*                                                                         *)
(* Hosts and starts are numbered as they are made.  A start that has       *)
(* returned is the process the server keeps.  A call over the connection   *)
(* fails when its host is gone, and may fail while it is there; calls that *)
(* set the host's foreground arrive in the order they were made.  A start  *)
(* that fails goes on with node-pty, which is not seen here, and so is     *)
(* what the terminals show and are told.  A host that was told to end      *)
(* prints no port any more.                                                *)
(***************************************************************************)
EXTENDS Naturals, Sequences, FiniteSets

CONSTANTS
    Agent,
    NoAgent,
    MaxStarts,     \* bound: starts
    MaxHosts,      \* bound: hosts launched
    MaxFailures,   \* bound: crashes, and calls that fail on a host that is there
    MaxViews,      \* bound: times the user turns to an agent
    MaxToggles,    \* bound: changes of the permission setting
    MaxRefreshes   \* bound: refreshes

VARIABLES
    hosts,      \* the runtimes, each with its control client and its office entry
    offices,    \* the host of the current entry, 0 if there is none
    starts,     \* the starts, and the processes they have returned
    ptyProcesses,   \* the process registered for each agent, 0 if none
    officeForegroundCk,
    yoloEnabled,
    toggled,    \* ghost: the number of set-yolo messages, and the last one's answer
    viewing,    \* ghost: the process the user turned to last, 0 if it has gone
    refresh,    \* the refresh under way
    budget      \* failures and views so far

hostVars == <<hosts, offices>>
serverVars == <<ptyProcesses, officeForegroundCk>>
yoloVars == <<yoloEnabled, toggled>>
vars == <<hostVars, starts, serverVars, yoloVars, viewing, refresh, budget>>

None == 0
Host == DOMAIN hosts
Start == DOMAIN starts

Update == [only : 0..MaxStarts, toggle : 0..MaxToggles, seen : SUBSET (1..MaxStarts),
           asked : 0..MaxStarts, mode : BOOLEAN, failed : BOOLEAN]

TypeOK ==
    /\ hosts \in Seq([status : {"launching", "listening", "ready", "crashed", "stopped"},
                      process : {"up", "dying", "gone"}, dialed : BOOLEAN,
                      sessions : SUBSET Start, updates : Seq(Update),
                      claimed : BOOLEAN, calls : Seq(Start), foreground : Start \cup {None}])
    /\ Len(hosts) <= MaxHosts
    /\ offices \in Host \cup {None}
    /\ starts \in Seq([agent : Agent, host : Host, allowed : BOOLEAN, late : BOOLEAN, heard : Nat,
                       step : {"connecting", "creating", "synchronizing", "claiming", "running",
                               "closing", "over", "failed"}])
    /\ Len(starts) <= MaxStarts
    /\ ptyProcesses \in [Agent -> Start \cup {None}]
    /\ \A a \in Agent : ptyProcesses[a] # None =>
         starts[ptyProcesses[a]].agent = a /\ starts[ptyProcesses[a]].step = "running"
    /\ officeForegroundCk \in Agent \cup {NoAgent}
    /\ yoloEnabled \in BOOLEAN
    /\ toggled \in [number : 0..MaxToggles, answer : {"none", "pending", "success", "failure"}]
    /\ viewing \in Start \cup {None}
    /\ refresh \in [step : {"idle", "stopping", "restarting"}, host : Host \cup {None},
                    targets : SUBSET Agent, current : Agent \cup {NoAgent},
                    number : 0..MaxRefreshes]
    /\ budget \in [failures : 0..MaxFailures, views : 0..MaxViews]

Init ==
    /\ hosts = <<>>
    /\ offices = None
    /\ starts = <<>>
    /\ ptyProcesses = [a \in Agent |-> None]
    /\ officeForegroundCk = NoAgent
    /\ yoloEnabled \in BOOLEAN
    /\ toggled = [number |-> 0, answer |-> "none"]
    /\ viewing = None
    /\ refresh = [step |-> "idle", host |-> None, targets |-> {}, current |-> NoAgent,
                number |-> 0]
    /\ budget = [failures |-> 0, views |-> 0]

-----------------------------------------------------------------------------
On(h, step) == {p \in Start : starts[p].host = h /\ starts[p].step = step}
Under(p) == starts[p].step \in {"connecting", "creating", "synchronizing", "claiming"}
InFlight(a) == \E p \in Start : starts[p].agent = a /\ Under(p)
Moved(P, step) == [p \in Start |-> IF p \in P THEN [starts[p] EXCEPT !.step = step] ELSE starts[p]]

(* A call over the connection of h fails.                                  *)
Failing(h) == IF hosts[h].process = "up"
              THEN /\ budget.failures < MaxFailures
                   /\ budget' = [budget EXCEPT !.failures = @ + 1]
              ELSE UNCHANGED budget

(* runtime.stop().                                                         *)
Stopped(h) ==
    [hosts EXCEPT ![h].status = "stopped", ![h].process = IF @ = "up" THEN "dying" ELSE @]

(* start() could not reach the host.  Only the start that finds its entry  *)
(* still the current one tears it down.                                    *)
(* A bug: whichever entry is the current one is torn down.                 *)
TornDownUnchecked(h) == /\ offices' = None
                        /\ hosts' = Stopped(h)

TornDown(h) == /\ offices' = IF offices = h THEN None ELSE offices
               /\ hosts' = IF offices = h THEN Stopped(h) ELSE hosts

(* The exit listeners of the processes in P, and what the server's own     *)
(* listener forgets of a process that is still registered.                 *)
Exited(P, now) ==
    [p \in Start |-> IF p \in P THEN [now[p] EXCEPT !.heard = @ + 1,
                                           !.step = IF @ = "running" THEN "over" ELSE @]
                    ELSE now[p]]
Forgets(P) ==
    /\ ptyProcesses' = [a \in Agent |-> IF ptyProcesses[a] \in P THEN None ELSE ptyProcesses[a]]
    /\ officeForegroundCk' = IF \E p \in P : /\ starts[p].agent = officeForegroundCk
                                             /\ ptyProcesses[officeForegroundCk] = p
                             THEN NoAgent ELSE officeForegroundCk
    /\ viewing' = IF viewing \in P THEN None ELSE viewing

(* The processes that listen to the exit of h: kill() disposes of that.    *)
(* A bug: kill() keeps the listeners.                                      *)
ListeningStill(h) == {p \in On(h, "running") \cup On(h, "closing") : ~starts[p].late}
Listening(h) == {p \in On(h, "running") : ~starts[p].late}

-----------------------------------------------------------------------------
(* Starts.                                                                 *)

Usable(h) == h # None /\ hosts[h].status \notin {"crashed", "stopped"}

(* startTerminalForAgent, for an agent without a terminal and without a    *)
(* start under way, and getOrCreateOfficeEntry.                            *)
Begin(a) ==
    LET h == IF Usable(offices) THEN offices ELSE Len(hosts) + 1
    IN  /\ Len(starts) < MaxStarts
        /\ h <= MaxHosts
        /\ ~InFlight(a) /\ ptyProcesses[a] = None
        /\ hosts' = IF h \in Host THEN hosts
                    ELSE Append(hosts, [status |-> "launching", process |-> "up",
                                        dialed |-> FALSE, sessions |-> {}, updates |-> <<>>,
                                        claimed |-> FALSE, calls |-> <<>>, foreground |-> None])
        /\ offices' = h
        /\ starts' = Append(starts,
               [agent |-> a, host |-> h, allowed |-> FALSE, late |-> FALSE, heard |-> 0,
                step |-> IF h \in Host /\ hosts[h].status = "ready"
                         THEN "creating" ELSE "connecting"])

StartTerminal(a) ==
    /\ Begin(a)
    /\ UNCHANGED <<serverVars, yoloVars, viewing, refresh, budget>>

(* The host prints its port, and the client dials it.                      *)
Port(h) ==
    /\ hosts[h].status = "launching" /\ hosts[h].process = "up"
    /\ hosts' = [hosts EXCEPT ![h].status = "listening", ![h].dialed = TRUE]
    /\ UNCHANGED <<offices, starts, serverVars, yoloVars, viewing, refresh, budget>>

(* The timer for the port, and spawning that fails later.                  *)
TimesOut(h) ==
    /\ hosts[h].status = "launching"
    /\ starts' = Moved(On(h, "connecting"), "failed")
    /\ TornDown(h)
    /\ UNCHANGED <<serverVars, yoloVars, viewing, refresh, budget>>

Connected(h) ==
    /\ hosts[h].status = "listening" /\ hosts[h].process = "up"
    /\ hosts' = [hosts EXCEPT ![h].status = "ready"]
    /\ starts' = Moved(On(h, "connecting"), "creating")
    /\ UNCHANGED <<offices, serverVars, yoloVars, viewing, refresh, budget>>

ConnectFails(h) ==
    /\ hosts[h].dialed /\ hosts[h].status # "ready"
    /\ On(h, "connecting") # {}
    /\ Failing(h)
    /\ starts' = Moved(On(h, "connecting"), "failed")
    /\ TornDown(h)
    /\ UNCHANGED <<serverVars, yoloVars, viewing, refresh>>

(* createOrResumeSession: the session joins the client's map, and its own  *)
(* permission update is queued behind those that wait.                     *)
Queued(h, only, n) ==
    Append(hosts[h].updates, [only |-> only, toggle |-> n, seen |-> {}, asked |-> None,
                              mode |-> FALSE, failed |-> FALSE])
Created(p) ==
    LET h == starts[p].host
    IN  /\ starts[p].step = "creating" /\ hosts[h].process = "up"
        /\ hosts' = [hosts EXCEPT ![h].sessions = @ \cup {p}, ![h].updates = Queued(h, p, 0)]
        /\ starts' = Moved({p}, "synchronizing")
        /\ UNCHANGED <<offices, serverVars, yoloVars, viewing, refresh, budget>>

(* A bug: one session that cannot be created costs all theirs.             *)
TornDownToo(h) == TornDown(h)
HostStays(h) == UNCHANGED hostVars
CreateFails(p) ==
    /\ starts[p].step = "creating"
    /\ Failing(starts[p].host)
    /\ HostStays(starts[p].host)
    /\ starts' = Moved({p}, "failed")
    /\ UNCHANGED <<serverVars, yoloVars, viewing, refresh>>

(* The server registers what start() returned.  It puts the foreground     *)
(* back to the agent in front, and a start claims it only if nobody has it.*)
(* A bug: the claim of a start is final.                                   *)
NotReasserted(p, now) == now
Reasserted(p, now) ==
    LET a == officeForegroundCk
        q == IF a = NoAgent THEN None ELSE ptyProcesses[a]
    IN  IF a \notin {NoAgent, starts[p].agent} /\ q # None
        THEN [now EXCEPT ![starts[q].host].calls = Append(@, q)] ELSE now

Returned(p, now) ==
    /\ starts' = [starts EXCEPT ![p].step = "running",
                                ![p].late = hosts[starts[p].host].process = "gone"]
    /\ ptyProcesses' = [ptyProcesses EXCEPT ![starts[p].agent] = p]
    /\ officeForegroundCk' = IF officeForegroundCk = NoAgent
                             THEN starts[p].agent ELSE officeForegroundCk
    /\ hosts' = Reasserted(p, now)

-----------------------------------------------------------------------------
(* synchronizePermissions: one update at a time, session by session, each  *)
(* with the setting as it is when its turn comes.                          *)

(* A bug: a session joins the map when its own update is over.             *)
MissingReturned(h) == LET u == Head(hosts[h].updates)
                      IN  {p \in hosts[h].sessions \ u.seen :
                             u.only = p \/ (u.only = None /\ starts[p].step = "running")}
Missing(h) == LET u == Head(hosts[h].updates)
              IN  {p \in hosts[h].sessions \ u.seen : u.only \in {None, p}}
Waiting(h) == hosts[h].updates # <<>>
Asked(h) == Head(hosts[h].updates).asked

Ask(h) ==
    /\ Waiting(h) /\ Asked(h) = None
    /\ \E p \in Missing(h) :
         hosts' = [hosts EXCEPT ![h].updates[1].asked = p,
                                ![h].updates[1].mode = yoloEnabled]
    /\ UNCHANGED <<offices, starts, serverVars, yoloVars, viewing, refresh, budget>>

Answered(h) ==
    LET p == Asked(h)
    IN  /\ Waiting(h) /\ p # None
        /\ \/ /\ hosts[h].process = "up"
              /\ starts' = [starts EXCEPT ![p].allowed = Head(hosts[h].updates).mode]
              /\ hosts' = [hosts EXCEPT ![h].updates[1].asked = None,
                                        ![h].updates[1].seen = @ \cup {p}]
              /\ UNCHANGED budget
           \/ /\ Failing(h)
              /\ hosts' = [hosts EXCEPT ![h].updates[1].asked = None,
                                        ![h].updates[1].failed = TRUE,
                                        ![h].updates[1].seen = @ \cup {p}]
              /\ UNCHANGED starts
        /\ UNCHANGED <<offices, serverVars, yoloVars, viewing, refresh>>

Dequeued(h) == [hosts EXCEPT ![h].updates = Tail(@)]
Dropped(p, now) == [now EXCEPT ![starts[p].host].sessions = @ \ {p}]

UpdateEnds(h) ==
    LET u == Head(hosts[h].updates)
    IN  /\ Waiting(h) /\ Asked(h) = None /\ Missing(h) = {}
        /\ \/ /\ u.only = None        \* set-yolo is answered
              /\ hosts' = Dequeued(h)
              /\ toggled' = IF u.toggle = toggled.number
                            THEN [toggled EXCEPT !.answer = IF u.failed THEN "failure"
                                                            ELSE "success"]
                            ELSE toggled
              /\ UNCHANGED <<starts, serverVars>>
           \/ /\ u.only # None /\ u.failed
              /\ hosts' = Dropped(u.only, Dequeued(h))
              /\ starts' = Moved({u.only}, "failed")
              /\ UNCHANGED <<serverVars, toggled>>
           \/ /\ u.only # None /\ ~u.failed /\ hosts[h].claimed
              /\ Returned(u.only, Dequeued(h))
              /\ UNCHANGED toggled
           \/ /\ u.only # None /\ ~u.failed /\ ~hosts[h].claimed
              /\ hosts' = [Dequeued(h) EXCEPT ![h].claimed = TRUE,
                                              ![h].calls = Append(@, u.only)]
              /\ starts' = Moved({u.only}, "claiming")
              /\ UNCHANGED <<serverVars, toggled>>
        /\ UNCHANGED <<offices, yoloEnabled, viewing, refresh, budget>>

-----------------------------------------------------------------------------
(* setForegroundSessionId, for a start's claim, a viewer or a re-assertion.*)
CallDone(h) ==
    LET p == Head(hosts[h].calls)
        now == [hosts EXCEPT ![h].calls = Tail(@), ![h].foreground = p]
    IN  /\ hosts[h].calls # <<>> /\ hosts[h].process = "up"
        /\ IF starts[p].step = "claiming"
           THEN Returned(p, now)
           ELSE /\ hosts' = now
                /\ UNCHANGED <<starts, serverVars>>
        /\ UNCHANGED <<offices, yoloVars, viewing, refresh, budget>>

(* A claim that fails is given back, with its session; any other failure   *)
(* is logged.                                                              *)
CallFails(h) ==
    LET p == Head(hosts[h].calls)
        now == [hosts EXCEPT ![h].calls = Tail(@)]
    IN  /\ hosts[h].calls # <<>>
        /\ \/ starts[p].step \in {"closing", "over"} /\ UNCHANGED budget
           \/ Failing(h)
        /\ IF starts[p].step = "claiming"
           THEN /\ hosts' = Dropped(p, [now EXCEPT ![h].claimed = FALSE])
                /\ starts' = Moved({p}, "failed")
                /\ UNCHANGED viewing
           ELSE /\ hosts' = now
                /\ viewing' = IF viewing = p THEN None ELSE viewing
                /\ UNCHANGED starts
        /\ UNCHANGED <<offices, serverVars, yoloVars, refresh>>

(* attach and activate with foreground.                                    *)
View(a) ==
    LET p == ptyProcesses[a]
    IN  /\ p # None
        /\ budget.views < MaxViews
        /\ budget' = [budget EXCEPT !.views = @ + 1]
        /\ officeForegroundCk' = a
        /\ viewing' = p
        /\ hosts' = [hosts EXCEPT ![starts[p].host].calls = Append(@, p)]
        /\ UNCHANGED <<offices, starts, ptyProcesses, yoloVars, refresh>>

-----------------------------------------------------------------------------
(* kill: the session leaves the map, nobody listens to the host for it any *)
(* more, and its exit is reported when it has been disconnected.           *)
Killed(P) == /\ starts' = Moved(P, "closing")
             /\ Forgets(P)
WithoutSessions(P) == [h \in Host |-> [hosts[h] EXCEPT !.sessions = @ \ P]]

KillTerminal(a) ==
    LET p == ptyProcesses[a]
    IN  /\ p # None
        /\ Killed({p})
        /\ hosts' = WithoutSessions({p})
        /\ UNCHANGED <<offices, yoloVars, refresh, budget>>

Disconnected(p) ==
    /\ starts[p].step = "closing"
    /\ starts' = [Exited({p}, starts) EXCEPT ![p].step = "over"]
    /\ Forgets({p})
    /\ UNCHANGED <<hostVars, yoloVars, refresh, budget>>

(* The host dies by itself, or has done so after stop().                   *)
HostExits(h) ==
    /\ \/ /\ hosts[h].process = "dying"
          /\ UNCHANGED budget
          /\ hosts' = [hosts EXCEPT ![h].process = "gone"]
          /\ starts' = Exited(Listening(h), starts)
          /\ UNCHANGED offices
       \/ /\ hosts[h].process = "up"
          /\ Failing(h)
          /\ LET waiting == IF hosts[h].status = "launching" THEN On(h, "connecting") ELSE {}
             IN  /\ starts' = Exited(Listening(h), Moved(waiting, "failed"))
                 /\ hosts' = [hosts EXCEPT ![h].process = "gone",
                                           ![h].status = IF waiting = {} THEN "crashed"
                                                         ELSE "stopped"]
                 /\ offices' = IF waiting = {} \/ offices # h THEN offices ELSE None
    /\ Forgets(Listening(h))
    /\ UNCHANGED <<yoloVars, refresh>>

(* set-yolo: the sessions of the current host are told.                    *)
SetYolo ==
    LET n == toggled.number + 1
    IN  /\ n <= MaxToggles
        /\ yoloEnabled' = ~yoloEnabled
        /\ toggled' = [number |-> n, answer |-> IF offices = None THEN "success" ELSE "pending"]
        /\ hosts' = IF offices = None THEN hosts
                    ELSE [hosts EXCEPT ![offices].updates = Queued(offices, None, n)]
        /\ UNCHANGED <<offices, starts, serverVars, viewing, refresh, budget>>

-----------------------------------------------------------------------------
(* refresh-office-backend: every terminal is killed, the host stopped when *)
(* its client has been, and then they are started again one by one.        *)
Refresh ==
    LET P == {ptyProcesses[a] : a \in Agent} \ {None}
        h == offices
        without == [g \in Host |-> [hosts[g] EXCEPT !.sessions = IF g = h THEN {} ELSE @ \ P]]
        waits == h # None /\ hosts[h].dialed
    IN  /\ refresh.step = "idle" /\ refresh.number < MaxRefreshes
        /\ Killed(P)
        /\ offices' = None
        /\ refresh' = [step |-> IF waits THEN "stopping" ELSE "restarting",
                       host |-> IF waits THEN h ELSE None,
                       targets |-> {starts[p].agent : p \in P}, current |-> NoAgent,
                       number |-> refresh.number + 1]
        /\ hosts' = IF h = None \/ waits THEN without
                    ELSE [without EXCEPT ![h].status = "stopped",
                                         ![h].process = IF @ = "up" THEN "dying" ELSE @]
        /\ UNCHANGED <<yoloVars, budget>>

(* client.stop() is over; if it throws, nothing is started again.          *)
ClientStopped ==
    /\ refresh.step = "stopping"
    /\ hosts' = Stopped(refresh.host)
    /\ \/ /\ refresh' = [refresh EXCEPT !.step = "restarting", !.host = None]
          /\ UNCHANGED budget
       \/ /\ Failing(refresh.host)
          /\ refresh' = [refresh EXCEPT !.step = "idle", !.host = None, !.targets = {}]
    /\ UNCHANGED <<offices, starts, serverVars, yoloVars, viewing>>

(* One after the other is started, unless it runs again or a start is      *)
(* under way already, and that is waited for.                              *)
Restart(a) ==
    /\ refresh.step = "restarting" /\ refresh.current = NoAgent /\ a \in refresh.targets
    /\ \/ /\ InFlight(a) \/ ptyProcesses[a] # None
          /\ UNCHANGED <<hostVars, starts>>
       \/ Begin(a)
    /\ refresh' = [refresh EXCEPT !.current = a]
    /\ UNCHANGED <<serverVars, yoloVars, viewing, budget>>

RestartGoesOn ==
    /\ refresh.step = "restarting"
    /\ \/ /\ refresh.current # NoAgent /\ ~InFlight(refresh.current)
          /\ refresh' = [refresh EXCEPT !.current = NoAgent, !.targets = @ \ {refresh.current}]
       \/ /\ refresh.targets = {}
          /\ refresh' = [refresh EXCEPT !.step = "idle"]
    /\ UNCHANGED <<hostVars, starts, serverVars, yoloVars, viewing, budget>>

-----------------------------------------------------------------------------
HostNext(h) == \/ Port(h) \/ TimesOut(h) \/ Connected(h) \/ ConnectFails(h)
               \/ Ask(h) \/ Answered(h) \/ UpdateEnds(h) \/ CallDone(h) \/ CallFails(h)
               \/ HostExits(h)
Next ==
    \/ \E h \in Host : HostNext(h)
    \/ \E p \in Start : Created(p) \/ CreateFails(p) \/ Disconnected(p)
    \/ \E a \in Agent : StartTerminal(a) \/ View(a) \/ KillTerminal(a) \/ Restart(a)
    \/ SetYolo \/ Refresh \/ ClientStopped \/ RestartGoesOn

Spec == Init /\ [][Next]_vars

-----------------------------------------------------------------------------
(* A host that runs is the current entry's, or a refresh is about to stop  *)
(* it: nothing else would.                                                 *)
HostsAreOwned ==
    \A h \in Host : hosts[h].process = "up" =>
        offices = h \/ (refresh.step = "stopping" /\ refresh.host = h)

(* The server does not keep a process whose host has gone, and no exit is  *)
(* reported twice.  Only a start that returns after its host has gone is   *)
(* not noticed.                                                            *)
ExitsAreHeard ==
    /\ \A p \in Start : starts[p].heard <= 1
    /\ \A a \in Agent : LET p == ptyProcesses[a]
                        IN  p # None /\ ~starts[p].late => hosts[starts[p].host].process # "gone"

(* Once the last change of the setting has been answered with success,     *)
(* every session of the current host is under it.                          *)
PermissionsInStep ==
    \A a \in Agent :
        LET p == ptyProcesses[a]
        IN  /\ p # None /\ offices = starts[p].host
            /\ hosts[offices].updates = <<>> /\ hosts[offices].process = "up"
            /\ toggled.answer \in {"none", "success"}
            => starts[p].allowed = yoloEnabled

(* The agent the user turned to has the host's foreground, and the output, *)
(* once the calls that were made have been answered.                       *)
ViewedHasTheForeground ==
    viewing # None =>
        /\ officeForegroundCk = starts[viewing].agent
        /\ hosts[starts[viewing].host].calls = <<>>
           => hosts[starts[viewing].host].foreground = viewing

(* What happens to one agent's start or session does not stop the host of  *)
(* the others' terminals: only a refresh does.                             *)
SiblingsKeepTheirHost ==
    [][\A h \in Host : hosts[h].process = "up" /\ hosts'[h].process = "dying" =>
           \/ \A a \in Agent : ptyProcesses[a] # None => starts[ptyProcesses[a]].host # h
           \/ refresh'.number > refresh.number \/ refresh.step = "stopping"]_vars
=============================================================================
