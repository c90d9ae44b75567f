------------------------------ MODULE SdkHosts ------------------------------
(***************************************************************************)
(* The sdk back end: a headless Copilot host for each office, started with *)
(* its first agent, and the processes of the office's agents on it.        *)
(*                                                                         *)
(* One office is modelled: offices share nothing.  As in UiServerHost, a   *)
(* start that has returned is the process the server keeps, calls over the *)
(* connection fail when the host has gone, and what is shown is left out.  *)
(* Stopping a client takes time and succeeds, with force if need be.       *)
(***************************************************************************)
EXTENDS Naturals, Sequences, FiniteSets

CONSTANTS
    Agent,
    NoAgent,
    MaxStarts,     \* bound: starts
    MaxHosts,      \* bound: hosts launched
    MaxFailures,   \* bound: crashes, and calls that fail on a host that is there
    MaxRefreshes   \* bound: refreshes

VARIABLES
    hosts,         \* every HeadlessCliHost, with the client of its entry
    offices,       \* the host of the office's entry, 0 if there is none
    starts,        \* the starts, and the processes they have returned
    ptyProcesses,  \* the process registered for each agent, 0 if none
    refresh,       \* the refresh under way
    failures

vars == <<hosts, offices, starts, ptyProcesses, refresh, failures>>

None == 0
Host == DOMAIN hosts
Start == DOMAIN starts

TypeOK ==
    /\ hosts \in Seq([status : {"launching", "listening", "crashed", "stopped"},
                      process : {"up", "dying", "gone"},
                      client : {"none", "starting", "started", "failed"}])
    /\ Len(hosts) <= MaxHosts
    /\ offices \in Host \cup {None}
    /\ starts \in Seq([agent : Agent, host : Host, listed : BOOLEAN, late : BOOLEAN, heard : Nat,
                       step : {"connecting", "disposing", "creating", "running", "closing",
                               "over", "failed"}])
    /\ Len(starts) <= MaxStarts
    /\ ptyProcesses \in [Agent -> Start \cup {None}]
    /\ \A a \in Agent : ptyProcesses[a] # None =>
         starts[ptyProcesses[a]].agent = a /\ starts[ptyProcesses[a]].step = "running"
    /\ refresh \in [step : {"idle", "stopping", "restarting"}, host : Host \cup {None},
                    targets : SUBSET Agent, current : Agent \cup {NoAgent},
                    number : 0..MaxRefreshes]
    /\ failures \in 0..MaxFailures

Init ==
    /\ hosts = <<>>
    /\ offices = None
    /\ starts = <<>>
    /\ ptyProcesses = [a \in Agent |-> None]
    /\ refresh = [step |-> "idle", host |-> None, targets |-> {}, current |-> NoAgent,
                  number |-> 0]
    /\ failures = 0

-----------------------------------------------------------------------------
On(h, step) == {p \in Start : starts[p].host = h /\ starts[p].step = step}
InFlight(a) == \E p \in Start : /\ starts[p].agent = a
                                /\ starts[p].step \in {"connecting", "disposing", "creating"}
Moved(P, step) == [p \in Start |-> IF p \in P THEN [starts[p] EXCEPT !.step = step] ELSE starts[p]]

Failing(h) == IF hosts[h].process = "up"
              THEN failures < MaxFailures /\ failures' = failures + 1
              ELSE UNCHANGED failures

(* host.stop().                                                            *)
Stopped(h) ==
    [hosts EXCEPT ![h].status = "stopped", ![h].process = IF @ = "up" THEN "dying" ELSE @]

(* Where the office's entry goes, if it is h's.                            *)
Without(h) == IF offices = h THEN None ELSE offices

(* emitExit, which the server hears; it forgets a process that is still    *)
(* registered.                                                             *)
Exited(P) == [p \in Start |-> IF p \in P
                              THEN [starts[p] EXCEPT !.step = IF @ = "running" THEN "over" ELSE @,
                                                     !.listed = FALSE, !.heard = @ + 1]
                              ELSE starts[p]]
Forgets(P) ==
    ptyProcesses' = [a \in Agent |-> IF ptyProcesses[a] \in P THEN None ELSE ptyProcesses[a]]

-----------------------------------------------------------------------------
(* Starts.                                                                 *)

Usable(h) == h # None /\ hosts[h].status \notin {"crashed", "stopped"}

Begin(a) ==
    LET h == IF Usable(offices) THEN offices ELSE Len(hosts) + 1
    IN  /\ Len(starts) < MaxStarts
        /\ h <= MaxHosts
        /\ ~InFlight(a) /\ ptyProcesses[a] = None
        /\ hosts' = IF h \in Host THEN hosts
                    ELSE Append(IF offices = None THEN hosts ELSE Stopped(offices),
                                [status |-> "launching", process |-> "up", client |-> "none"])
        /\ offices' = h
        /\ starts' = Append(starts,
               [agent |-> a, host |-> h, listed |-> FALSE, late |-> FALSE, heard |-> 0,
                step |-> IF h \in Host /\ hosts[h].client = "started"
                         THEN "creating" ELSE "connecting"])

StartTerminal(a) ==
    /\ Begin(a)
    /\ UNCHANGED <<ptyProcesses, refresh, failures>>

(* The host prints its port, and the entry's client dials it.              *)
Port(h) ==
    /\ hosts[h].status = "launching"
    /\ hosts' = [hosts EXCEPT ![h].status = "listening", ![h].client = "starting"]
    /\ UNCHANGED <<offices, starts, ptyProcesses, refresh, failures>>

Connected(h) ==
    /\ hosts[h].client = "starting" /\ hosts[h].process = "up"
    /\ hosts' = [hosts EXCEPT ![h].client = "started"]
    /\ starts' = Moved(On(h, "connecting"), "creating")
    /\ UNCHANGED <<offices, ptyProcesses, refresh, failures>>

(* The start promise is rejected: each start that waits for it disposes of *)
(* the entry, at once if there is no client to stop.                       *)
ConnectFails(h) ==
    /\ hosts[h].client = "starting"
    /\ Failing(h)
    /\ hosts' = [hosts EXCEPT ![h].client = "failed"]
    /\ offices' = Without(h)
    /\ starts' = Moved(On(h, "connecting"), "disposing")
    /\ UNCHANGED <<ptyProcesses, refresh>>

Disposed(h) ==
    /\ On(h, "disposing") # {}
    /\ hosts' = Stopped(h)
    /\ starts' = Moved(On(h, "disposing"), "failed")
    /\ UNCHANGED <<offices, ptyProcesses, refresh, failures>>

(* The timer for the port stops the host.  The same goes for a host that   *)
(* cannot be spawned.                                                      *)
TimesOut(h) ==
    /\ hosts[h].status = "launching"
    /\ hosts' = Stopped(h)
    /\ offices' = Without(h)
    /\ starts' = Moved(On(h, "connecting"), "failed")
    /\ UNCHANGED <<ptyProcesses, refresh, failures>>

(* A bug: one session that cannot be created costs all theirs.             *)
EveryoneFails(h) == hosts' = Stopped(h) /\ offices' = Without(h)
(* A session that can be neither resumed nor created is that agent's       *)
(* failure: the office's host stays.                                       *)
HostStays(h) == UNCHANGED <<hosts, offices>>
CreateFails(p) ==
    /\ starts[p].step = "creating"
    /\ Failing(starts[p].host)
    /\ HostStays(starts[p].host)
    /\ starts' = Moved({p}, "failed")
    /\ UNCHANGED <<ptyProcesses, refresh>>

(* start() returns, its process is listed in the entry, and the server     *)
(* registers it.                                                           *)
Created(p) ==
    /\ starts[p].step = "creating" /\ hosts[starts[p].host].process = "up"
    /\ starts' = [starts EXCEPT ![p].step = "running", ![p].listed = TRUE,
                                ![p].late = offices # starts[p].host]
    /\ ptyProcesses' = [ptyProcesses EXCEPT ![starts[p].agent] = p]
    /\ UNCHANGED <<hosts, offices, refresh, failures>>

-----------------------------------------------------------------------------
(* kill: the exit is reported when the session has been disconnected.      *)
KillTerminal(a) ==
    LET p == ptyProcesses[a]
    IN  /\ p # None
        /\ starts' = Moved({p}, "closing")
        /\ Forgets({p})
        /\ UNCHANGED <<hosts, offices, refresh, failures>>

Disconnected(p) ==
    /\ starts[p].step = "closing"
    /\ starts' = [Exited({p}) EXCEPT ![p].step = "over"]
    /\ Forgets({p})
    /\ UNCHANGED <<hosts, offices, refresh, failures>>

(* A bug: those that are being killed are told, too.                       *)
ToldClosing(h) == {p \in On(h, "running") \cup On(h, "closing") : starts[p].listed}
(* handleHostExit: a process that is being killed reports by itself.       *)
Told(h) == {p \in On(h, "running") : starts[p].listed}

(* The host's exit rejects its start in any case; the entry's processes    *)
(* are told if the host was not stopped and is still the current one.      *)
HostExits(h) ==
    LET unasked == hosts[h].status # "stopped"
        P == IF unasked /\ offices = h THEN Told(h) ELSE {}
    IN  /\ hosts[h].process # "gone"
        /\ IF hosts[h].process = "up" THEN Failing(h) ELSE UNCHANGED failures
        /\ hosts' = [hosts EXCEPT ![h].process = "gone",
                                  ![h].status = IF unasked THEN "crashed" ELSE @]
        /\ offices' = IF unasked THEN Without(h) ELSE offices
        /\ starts' = IF hosts[h].client = "none"
                     THEN Moved(On(h, "connecting"), "failed") ELSE Exited(P)
        /\ Forgets(P)
        /\ UNCHANGED refresh

-----------------------------------------------------------------------------
(* refresh-office-backend and restartOffice.                               *)
Refresh ==
    LET P == {ptyProcesses[a] : a \in Agent} \ {None}
        h == offices
        waits == h # None /\ hosts[h].client # "none"
    IN  /\ refresh.step = "idle" /\ refresh.number < MaxRefreshes
        /\ starts' = Moved(P, "closing")
        /\ Forgets(P)
        /\ offices' = None
        /\ hosts' = IF h = None \/ waits THEN hosts ELSE Stopped(h)
        /\ refresh' = [step |-> IF waits THEN "stopping" ELSE "restarting",
                       host |-> IF waits THEN h ELSE None,
                       targets |-> {starts[p].agent : p \in P}, current |-> NoAgent,
                       number |-> refresh.number + 1]
        /\ UNCHANGED failures

ClientStopped ==
    /\ refresh.step = "stopping"
    /\ hosts' = Stopped(refresh.host)
    /\ refresh' = [refresh EXCEPT !.step = "restarting", !.host = None]
    /\ UNCHANGED <<offices, starts, ptyProcesses, failures>>

Restart(a) ==
    /\ refresh.step = "restarting" /\ refresh.current = NoAgent /\ a \in refresh.targets
    /\ \/ /\ InFlight(a) \/ ptyProcesses[a] # None
          /\ UNCHANGED <<hosts, offices, starts>>
       \/ Begin(a)
    /\ refresh' = [refresh EXCEPT !.current = a]
    /\ UNCHANGED <<ptyProcesses, failures>>

(* There is no other back end for these: a start that fails ends it.       *)
RestartGoesOn ==
    LET a == refresh.current
    IN  /\ refresh.step = "restarting"
        /\ \/ /\ a # NoAgent /\ ~InFlight(a)
              /\ refresh' = [refresh EXCEPT !.current = NoAgent,
                                 !.targets = IF ptyProcesses[a] = None THEN {} ELSE @ \ {a}]
           \/ /\ refresh.targets = {}
              /\ refresh' = [refresh EXCEPT !.step = "idle"]
        /\ UNCHANGED <<hosts, offices, starts, ptyProcesses, failures>>

-----------------------------------------------------------------------------
HostNext(h) == Port(h) \/ Connected(h) \/ ConnectFails(h) \/ Disposed(h) \/ TimesOut(h)
               \/ HostExits(h)
StartNext(p) == Created(p) \/ CreateFails(p) \/ Disconnected(p)
Next ==
    \/ \E h \in Host : HostNext(h)
    \/ \E p \in Start : StartNext(p)
    \/ \E a \in Agent : StartTerminal(a) \/ KillTerminal(a) \/ Restart(a)
    \/ Refresh \/ ClientStopped \/ RestartGoesOn

Spec == Init /\ [][Next]_vars

-----------------------------------------------------------------------------
(* A host that runs is the entry's, or somebody is about to stop it.       *)
HostsAreOwned ==
    \A h \in Host : hosts[h].process = "up" =>
        \/ offices = h
        \/ On(h, "disposing") # {}
        \/ refresh.step = "stopping" /\ refresh.host = h

(* Every exit is reported once, and a process that came up on the current  *)
(* host is not kept after that host has gone.                              *)
ExitsAreHeard ==
    \A p \in Start :
        /\ starts[p].heard <= 1
        /\ starts[p].step = "running" /\ ~starts[p].late
           => hosts[starts[p].host].process # "gone"

(* Only a refresh stops a host under the terminals it has.                 *)
SiblingsKeepTheirHost ==
    [][\A h \in Host : hosts[h].process = "up" /\ hosts'[h].process = "dying" =>
           \/ On(h, "running") = {}
           \/ refresh'.number > refresh.number \/ refresh.step = "stopping"]_vars
=============================================================================
