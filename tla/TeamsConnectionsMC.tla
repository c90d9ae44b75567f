-------------------------- MODULE TeamsConnectionsMC --------------------------
(* Model checking of TeamsConnections.  Agents share only the flags of the *)
(* service and the order of its saves, so one agent at a time is busy: the *)
(* scope, chosen in the initial state, says which, and what can befall it. *)
(* (The theorems of TeamsConnections_proofs have all the agents busy.)     *)
EXTENDS TeamsConnections, TLC

CONSTANTS
    worker,         \* an agent of the office
    ringleader,     \* the orchestrator
    Scope           \* the scopes of the run

VARIABLE scope

Agents == {worker, ringleader}
Workers == {worker}
Ringleader == {ringleader}
Nobody == {}

Busy(a, runs, sessions, pausings, failing) ==
    [agent |-> a, starts |-> runs, sessions |-> sessions, pauses |-> pausings,
     failures |-> failing]

(* A restart with a pause, with a replaced session, with a failure; a      *)
(* failure and a pause; the restore of the orchestrator, which a pause     *)
(* leaves alone.                                                           *)
SafetyScopes ==
    {Busy(worker, 2, 1, 1, 0), Busy(worker, 2, 2, 0, 0), Busy(worker, 2, 1, 0, 1),
     Busy(worker, 1, 1, 1, 1), Busy(ringleader, 2, 1, 0, 0)}
(* A pause among replaced sessions; a restart with either.                 *)
LiveScopes ==
    {Busy(worker, 1, 2, 1, 0), Busy(worker, 2, 2, 0, 0), Busy(worker, 2, 1, 1, 0)}
OneSession == {Busy(worker, 1, 1, 0, 0)}

InScope ==
    /\ starts' <= scope.starts
    /\ pauses' <= scope.pauses
    /\ failures' <= scope.failures
    /\ session'[scope.agent] <= scope.sessions
    /\ \A a \in Agent \ {scope.agent} :
          /\ obj'[a] = <<>>
          /\ session'[a] = 0
          /\ reg'[a].pc = "idle"

Scoped(A) == A /\ InScope /\ UNCHANGED scope

ScopedNext ==
    \/ \E a \in Agent :
          \/ Scoped(Register(a)) \/ Scoped(RegisterChecks(a)) \/ Scoped(DeadlinePasses(a))
          \/ Scoped(RegisterIdentifies(a)) \/ Scoped(RegisterFailsToCreate(a))
          \/ Scoped(RegisterCreates(a)) \/ Scoped(RegisterSucceeds(a))
          \/ Scoped(RegisterPreserves(a)) \/ Scoped(RegisterRetains(a))
          \/ Scoped(RegisterNotSaved(a))
          \/ Scoped(GoOffline(a)) \/ Scoped(GoOfflineEnds(a))
          \/ Scoped(ResetBegins(a)) \/ Scoped(ResetEnds(a))
          \/ Scoped(SessionOpens(a)) \/ Scoped(SessionReady(a)) \/ Scoped(SessionExits(a))
          \/ \E v \in Visit : Scoped(VisitBegins(v, a))
    \/ \E v \in Visit : Scoped(VisitIdentifies(v)) \/ Scoped(VisitReconnects(v))
    \/ \E a \in Orchestrator : Scoped(RestoreBegins(a)) \/ Scoped(RestoreEnds(a))
    \/ Scoped(Pause) \/ Scoped(Resume) \/ Scoped(Start) \/ Scoped(StartLoads)
    \/ Scoped(Stop) \/ Scoped(Crash) \/ Scoped(\E n \in DOMAIN saves : SaveEnds(n))

ScopedInit == Init /\ scope \in Scope

ScopedSpec == ScopedInit /\ [][ScopedNext]_<<vars, scope>>

(* The scope takes nothing away that is fair: the idle agents have no task. *)
ScopedFairSpec == ScopedSpec /\ Fairness
=============================================================================
