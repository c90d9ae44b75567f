-------------------------- MODULE OrchestratorGate --------------------------
(***************************************************************************)
(* The orchestrator's SDK session, the permission gate every write tool of *)
(* it passes, and the relay of a gate into the orchestrator's own Teams    *)
(* thread.                                                                 *)
(*                                                                         *)
(* A call is one gated tool call of a session (a toolCallId): permission   *)
(* is requested for it, then its handler runs if permission was given.  A  *)
(* targeted call is bring_agent_online or set_agent_teams_presence, whose  *)
(* target is resolved, and kept in approvedTargets, before the gate opens. *)
(* The manager, its IPC and TeamsService share one process and one thread: *)
(* a step is what runs between two awaits.  The transcript, the renderer's *)
(* round-trips, what a handler does, a registration over an existing       *)
(* binding and a second goOffline during the first are left out.           *)
(***************************************************************************)
EXTENDS Naturals, FiniteSets

CONSTANTS
    Call,            \* the gated tool calls
    NoCall,          \* no call
    MaxStarts,       \* bound: calls of startSession
    MaxEnds,         \* bound: panel closings by the red x
    MaxCloses,       \* bound: minimizations of the panel
    MaxErrors,       \* bound: session.error and session.ended events
    MaxRegistrations \* bound: registrations of the orchestrator with Teams

ASSUME GateAssumption ==
    /\ NoCall \notin Call
    /\ IsFiniteSet(Call)
    /\ MaxStarts \in Nat
    /\ MaxEnds \in Nat
    /\ MaxCloses \in Nat
    /\ MaxErrors \in Nat
    /\ MaxRegistrations \in Nat

VARIABLES
    session,     \* the manager's SDK session, 0 if none
    opening,     \* openPromise is set
    starting,    \* calls of startSession that have not ended
    starts,      \* calls of startSession so far: they number the SDK sessions
    sdk,         \* SDK sessions created and not disconnected
    ending,      \* those endSession awaits the disconnect of
    lifecycle,   \* as reported to the panel
    state,       \* where each call is
    of,          \* the session each call belongs to
    targeted,    \* the targeted calls
    since,       \* the permissionEpoch at which a targeted call's resolution began
    epoch,       \* permissionEpoch
    pinned,      \* calls with an entry in approvedTargets
    allowAll,    \* allowAllOperations
    relay,       \* teamsRelayActive
    thread,      \* the session of the online Teams binding, 0 if it is offline
    going,       \* goOffline is posting its notice
    registering, \* the session a registration under way found, 0 if none
    record,      \* pendingApprovals: the call the thread is asked about
    asked,       \* ghost: calls the thread was asked about
    cut,         \* ghost: calls rejectAllPending found on their way
    unpinned,    \* ghost: targeted calls that ran without their pinned target
    ends, closes, errors, registrations

sessionVars == <<session, opening, starting, starts, sdk, ending, lifecycle>>
gateVars == <<state, of, targeted, since, epoch, pinned>>
teamsVars == <<relay, thread, going, registering, record>>
ghostVars == <<asked, cut, unpinned>>
budgetVars == <<ends, closes, errors, registrations>>
vars == <<sessionVars, gateVars, allowAll, teamsVars, ghostVars, budgetVars>>

NoSession == 0
Session == 1..MaxStarts

TypeOK ==
    /\ session \in Session \cup {NoSession}
    /\ opening \in BOOLEAN
    /\ starting \subseteq Session
    /\ starts \in 0..MaxStarts
    /\ sdk \subseteq Session
    /\ ending \subseteq Session
    /\ lifecycle \in {"idle", "starting", "ready", "error"}
    /\ state \in [Call -> {"none", "resolving", "open", "approved", "rejected",
                           "expired", "ran"}]
    /\ of \in [Call -> Session \cup {NoSession}]
    /\ targeted \subseteq Call
    /\ since \in [Call -> Nat]
    /\ epoch \in Nat
    /\ pinned \subseteq Call
    /\ allowAll \in BOOLEAN
    /\ relay \in BOOLEAN
    /\ thread \in Session \cup {NoSession}
    /\ going \in BOOLEAN
    /\ going => thread # NoSession
    /\ registering \in Session \cup {NoSession}
    /\ record \in Call \cup {NoCall}
    /\ asked \subseteq Call
    /\ cut \subseteq Call
    /\ unpinned \subseteq Call
    /\ ends \in 0..MaxEnds
    /\ closes \in 0..MaxCloses
    /\ errors \in 0..MaxErrors
    /\ registrations \in 0..MaxRegistrations

Init ==
    /\ session = NoSession
    /\ opening = FALSE
    /\ starting = {}
    /\ starts = 0
    /\ sdk = {}
    /\ ending = {}
    /\ lifecycle = "idle"
    /\ state = [c \in Call |-> "none"]
    /\ of = [c \in Call |-> NoSession]
    /\ targeted = {}
    /\ since = [c \in Call |-> 0]
    /\ epoch = 0
    /\ pinned = {}
    /\ allowAll \in BOOLEAN
    /\ relay = FALSE
    /\ thread = NoSession
    /\ going = FALSE
    /\ registering = NoSession
    /\ record = NoCall
    /\ asked = {}
    /\ cut = {}
    /\ unpinned = {}
    /\ ends = 0
    /\ closes = 0
    /\ errors = 0
    /\ registrations = 0

In(states) == {c \in Call : state[c] \in states}
OpenGates == In({"open"})

-----------------------------------------------------------------------------
(* Decisions.  A call's gate resolves once: the wrapper trackRoundTrip     *)
(* puts in pendingPermissions removes itself, clears the expiry timer and, *)
(* unless the result is an approval, the call's pinned target.             *)

(* The targets of the calls D, once those are refused.  (Mutant: they are  *)
(* kept.)                                                                  *)
UnpinNone(D) == pinned

Unpin(D) == pinned \ D

(* The open gates among D are decided, with the given state.               *)
Decided(D, s) == [c \in Call |-> IF c \in D \cap OpenGates THEN s ELSE state[c]]

Approve(c) ==
    /\ state' = Decided({c}, "approved")
    /\ pinned' = pinned

Refuse(D) ==
    /\ state' = Decided(D, "rejected")
    /\ pinned' = Unpin(D \cap OpenGates)

(* The gate of a call expires after 90 seconds.  (Mutant: it waits for the *)
(* Teams thread, which has 5 minutes.)                                     *)
MayExpireOffline(c) == state[c] = "open" /\ record # c

MayExpire(c) == state[c] = "open"

Expire(c) ==
    /\ MayExpire(c)
    /\ state' = Decided({c}, "expired")
    /\ pinned' = Unpin({c})
    /\ UNCHANGED <<sessionVars, of, targeted, since, epoch, allowAll, teamsVars,
                   ghostVars, budgetVars>>

AnswerInPanel(c) ==
    /\ state[c] = "open"
    /\ Approve(c) \/ Refuse({c})
    /\ UNCHANGED <<sessionVars, of, targeted, since, epoch, allowAll, teamsVars, asked,
                   cut, unpinned, budgetVars>>

-----------------------------------------------------------------------------
(* Requests.                                                               *)

(* onPermissionRequestEvent: with the thread online the new call becomes   *)
(* its record, and the record it replaces is refused.  (Mutant: replaced   *)
(* without being refused.)                                                 *)
SupersededNone == {}

Superseded == IF thread # NoSession /\ record # NoCall THEN {record} ELSE {}

(* permissionGate.                                                         *)
Gate(c, pins) ==
    IF allowAll
    THEN /\ state' = [state EXCEPT ![c] = "approved"]
         /\ pinned' = pinned \cup pins
         /\ UNCHANGED <<record, asked>>
    ELSE /\ state' = [Decided(Superseded, "rejected") EXCEPT ![c] = "open"]
         /\ pinned' = Unpin(Superseded \cap OpenGates) \cup pins
         /\ record' = IF thread # NoSession THEN c ELSE record
         /\ asked' = IF thread # NoSession THEN asked \cup {c} ELSE asked

(* The SDK asks permission for a call.  The sessions that still run may    *)
(* ask, whether or not the manager holds them.                             *)
Request(c, s) ==
    /\ state[c] = "none"
    /\ s \in sdk
    /\ of' = [of EXCEPT ![c] = s]
    /\ Gate(c, {})
    /\ UNCHANGED <<sessionVars, targeted, since, epoch, allowAll, relay, thread, going,
                   registering, cut, unpinned,
                   budgetVars>>

RequestTargeted(c, s) ==
    /\ state[c] = "none"
    /\ s \in sdk
    /\ of' = [of EXCEPT ![c] = s]
    /\ targeted' = targeted \cup {c}
    /\ since' = [since EXCEPT ![c] = epoch]
    /\ state' = [state EXCEPT ![c] = "resolving"]
    /\ UNCHANGED <<sessionVars, epoch, pinned, allowAll, teamsVars, ghostVars, budgetVars>>

(* The gate of a resolved call opens unless rejectAllPending ran during    *)
(* the resolution.  (Mutant: in any case.)                                 *)
OpensAlways(c) == TRUE

Opens(c) == since[c] = epoch

Resolve(c) ==
    /\ state[c] = "resolving"
    /\ IF Opens(c)
       THEN Gate(c, {c})
       ELSE /\ state' = [state EXCEPT ![c] = "rejected"]
            /\ UNCHANGED <<pinned, record, asked>>
    /\ UNCHANGED <<sessionVars, of, targeted, since, epoch, allowAll, relay, thread, going,
                   registering, cut, unpinned,
                   budgetVars>>

(* No agent, several agents or an active one match, or the lookup fails.   *)
ResolveFails(c) ==
    /\ state[c] = "resolving"
    /\ state' = [state EXCEPT ![c] = "rejected"]
    /\ UNCHANGED <<sessionVars, of, targeted, since, epoch, pinned, allowAll, teamsVars,
                   ghostVars, budgetVars>>

(* The SDK runs the handler of an approved call.                           *)
Run(c) ==
    /\ state[c] = "approved"
    /\ of[c] \in sdk
    /\ state' = [state EXCEPT ![c] = "ran"]
    /\ pinned' = pinned \ {c}
    /\ unpinned' = unpinned \cup ({c} \cap (targeted \ pinned))
    /\ UNCHANGED <<sessionVars, of, targeted, since, epoch, allowAll, teamsVars, asked, cut,
                   budgetVars>>

-----------------------------------------------------------------------------
(* rejectAllPending, with the targets pinned after it.  (Mutant: every     *)
(* target is dropped, as clearPendingRoundTrips does at a session's end.)  *)
KeptNone == {}

Kept == Unpin(OpenGates)

RejectAllPending ==
    /\ epoch' = epoch + 1
    /\ state' = Decided(Call, "rejected")
    /\ cut' = cut \cup In({"resolving", "open"})

(* Panel minimized: orchestrator:close.                                    *)
Close ==
    /\ closes < MaxCloses
    /\ closes' = closes + 1
    /\ IF relay
       THEN UNCHANGED <<epoch, state, pinned, cut>>
       ELSE RejectAllPending /\ pinned' = Kept
    /\ UNCHANGED <<sessionVars, of, targeted, since, allowAll, teamsVars, asked,
                   unpinned, ends, errors, registrations>>

SetAllowAll ==
    /\ allowAll' = ~allowAll
    /\ UNCHANGED <<sessionVars, gateVars, teamsVars, ghostVars, budgetVars>>

-----------------------------------------------------------------------------
(* The Teams thread.                                                       *)

(* A reply in the thread that reads as an approval or a denial, while the  *)
(* thread is asked about a call, whatever became of the call's gate.       *)
ReplyInThread ==
    /\ thread # NoSession
    /\ record # NoCall
    /\ record' = NoCall
    /\ Approve(record) \/ Refuse({record})
    /\ UNCHANGED <<sessionVars, of, targeted, since, epoch, allowAll, relay, thread, going,
                   registering, asked, cut, unpinned, budgetVars>>

(* onApprovalTimeout, after 5 minutes: the gate, whose timer was set with  *)
(* the record's, has then expired if nothing else decided it.  (Mutant:    *)
(* the timer does nothing when the thread is offline.)                     *)
TimesOutOnline == record # NoCall /\ state[record] # "open" /\ thread # NoSession

TimesOut == record # NoCall /\ state[record] # "open"

ThreadTimeout ==
    /\ TimesOut
    /\ record' = NoCall
    /\ UNCHANGED <<sessionVars, gateVars, allowAll, relay, thread, going, registering,
                   asked, cut, unpinned, budgetVars>>

(* goOffline, up to its notice: a registration under way is cancelled and, *)
(* with a binding, the call the thread is asked about is refused.          *)
(* (Mutant: the binding is not looked for.)                                *)
HasBindingAlways == TRUE

HasBinding == thread # NoSession

Abandoned == IF HasBinding /\ record # NoCall THEN {record} ELSE {}

GoOffline ==
    /\ registering' = NoSession
    /\ going' = HasBinding
    /\ record' = IF HasBinding THEN NoCall ELSE record
    /\ UNCHANGED thread

GoOfflineEnds ==
    /\ going
    /\ going' = FALSE
    /\ thread' = NoSession
    /\ UNCHANGED <<sessionVars, gateVars, allowAll, relay, registering, record, ghostVars,
                   budgetVars>>

(* /stop in the thread, and a reconcile pass that finds another session.   *)
LeaveTeams ==
    /\ ~going
    /\ thread # NoSession
    /\ GoOffline
    /\ Refuse(Abandoned)
    /\ UNCHANGED <<sessionVars, of, targeted, since, epoch, allowAll, relay, asked, cut,
                   unpinned, budgetVars>>

(* teams:stopOrchestrator.                                                 *)
StopOrchestrator ==
    /\ relay' = FALSE
    /\ GoOffline
    /\ Refuse(Abandoned)
    /\ UNCHANGED <<sessionVars, of, targeted, since, epoch, allowAll, asked, cut, unpinned,
                   budgetVars>>

(* teams:registerOrchestrator, once its session is open.                   *)
Register ==
    /\ registrations < MaxRegistrations
    /\ session # NoSession
    /\ registering = NoSession
    /\ thread = NoSession
    /\ registering' = session
    /\ registrations' = registrations + 1
    /\ UNCHANGED <<sessionVars, gateVars, allowAll, relay, thread, going, record, ghostVars,
                   ends, closes, errors>>

RegisterEnds ==
    /\ registering # NoSession
    /\ registering' = NoSession
    /\ \/ thread' = registering /\ relay' = TRUE
       \/ UNCHANGED <<thread, relay>>
    /\ UNCHANGED <<sessionVars, gateVars, allowAll, going, record, ghostVars, budgetVars>>

-----------------------------------------------------------------------------
(* The session.                                                            *)

(* open() starts a session if there is none and none is being opened.      *)
StartsSession == session = NoSession /\ ~opening

Open ==
    /\ starts < MaxStarts
    /\ StartsSession
    /\ starts' = starts + 1
    /\ starting' = starting \cup {starts + 1}
    /\ opening' = TRUE
    /\ lifecycle' = "starting"
    /\ UNCHANGED <<session, sdk, ending, gateVars, allowAll, teamsVars, ghostVars,
                   budgetVars>>

(* startSession ends, and clears openPromise, whoever set that.            *)
StartSucceeds(s) ==
    /\ s \in starting
    /\ starting' = starting \ {s}
    /\ sdk' = sdk \cup {s}
    /\ session' = s
    /\ opening' = FALSE
    /\ lifecycle' = "ready"
    /\ UNCHANGED <<starts, ending, gateVars, allowAll, teamsVars, ghostVars, budgetVars>>

StartFails(s) ==
    /\ s \in starting
    /\ starting' = starting \ {s}
    /\ opening' = FALSE
    /\ lifecycle' = "error"
    /\ UNCHANGED <<session, starts, sdk, ending, gateVars, allowAll, teamsVars, ghostVars,
                   budgetVars>>

(* The exit listener: TeamsService.onSessionExit.                          *)
ExitListener ==
    IF thread # NoSession
    THEN GoOffline /\ Refuse(Abandoned)
    ELSE UNCHANGED <<registering, going, record, thread, state, pinned>>

(* endSession, up to the disconnect; without a session there is none, and  *)
(* the exit listeners run in the same step.                                *)
End ==
    /\ ends < MaxEnds
    /\ ends' = ends + 1
    /\ RejectAllPending
    /\ pinned' = {}
    /\ relay' = FALSE
    /\ session' = NoSession
    /\ opening' = FALSE
    /\ lifecycle' = "idle"
    /\ ending' = ending \cup ({session} \ {NoSession})
    /\ IF session = NoSession /\ thread # NoSession
       THEN GoOffline
       ELSE UNCHANGED <<registering, going, record, thread>>
    /\ UNCHANGED <<starting, starts, sdk, of, targeted, since, allowAll, asked,
                   unpinned, closes, errors,
                   registrations>>

EndFinishes(s) ==
    /\ s \in ending
    /\ ending' = ending \ {s}
    /\ sdk' = sdk \ {s}
    /\ ExitListener
    /\ UNCHANGED <<session, opening, starting, starts, lifecycle, of, targeted, since, epoch,
                   allowAll, relay, asked, cut, unpinned,
                   budgetVars>>

(* session.error or session.ended on the attached stream.  The manager     *)
(* reports an exit and keeps the session, which may be gone.               *)
StreamError ==
    /\ errors < MaxErrors
    /\ session \in sdk
    /\ errors' = errors + 1
    /\ sdk' \in {sdk, sdk \ {session}}
    /\ ExitListener
    /\ UNCHANGED <<session, opening, starting, starts, ending, lifecycle, of, targeted, since,
                   epoch, allowAll, relay, asked, cut, unpinned, ends, closes, registrations>>

-----------------------------------------------------------------------------
Next ==
    \/ \E c \in Call, s \in sdk : Request(c, s) \/ RequestTargeted(c, s)
    \/ \E c \in Call :
        Resolve(c) \/ ResolveFails(c) \/ AnswerInPanel(c) \/ Expire(c) \/ Run(c)
    \/ ReplyInThread \/ ThreadTimeout
    \/ Close \/ SetAllowAll
    \/ LeaveTeams \/ StopOrchestrator \/ GoOfflineEnds
    \/ Register \/ RegisterEnds
    \/ Open \/ End \/ StreamError
    \/ \E s \in starting : StartSucceeds(s) \/ StartFails(s)
    \/ \E s \in ending : EndFinishes(s)

Spec == Init /\ [][Next]_vars

(* Timers fire, and the lookup of a target ends.                           *)
Looks(c) == Resolve(c) \/ ResolveFails(c)
Fairness ==
    /\ \A c \in Call : WF_vars(Looks(c)) /\ WF_vars(Expire(c))
    /\ WF_vars(ThreadTimeout)

FairSpec == Spec /\ Fairness

-----------------------------------------------------------------------------
(* A call found on its way by a session's end, or by a minimization with   *)
(* no approver in Teams, is never approved afterwards: a target resolved   *)
(* late opens no gate (permissionEpoch), and a late answer finds none.     *)
EndedGatesStayClosed == cut \subseteq In({"resolving", "rejected"})

(* A gate the thread was asked about, and that is still open, is the one a *)
(* reply in the thread decides: a gate that lost the thread to another, or *)
(* to a disconnection, has been refused.                                   *)
RelayedGateIsAnswerable == \A c \in asked \cap OpenGates : record = c

(* approvedTargets holds the targets of calls that may still run: a call   *)
(* refused, expired or run leaves no target behind.                        *)
NoStaleTarget == pinned \subseteq targeted \cap In({"open", "approved"})

(* A targeted call runs on the target its approval named, unless its       *)
(* session was ended between the approval and the run.                     *)
RunsOnApprovedTarget == \A c \in unpinned : of[c] # session

(* A target is kept as long as a call may run on it, and no longer.        *)
TargetsHold == NoStaleTarget /\ RunsOnApprovedTarget

(* No call waits for permission forever: every gate expires.               *)
CallsAreSettled ==
    \A c \in Call : state[c] \in {"resolving", "open"}
                        ~> state[c] \in {"approved", "rejected", "expired", "ran"}

(* The thread is not held by a call for good: replies reach the session    *)
(* again, even if the gate was decided elsewhere.                          *)
ThreadIsReleased == \A c \in Call : record = c ~> record # c

(* open() keeps one SDK session: every one that runs is the manager's, or  *)
(* is being disconnected.                                                  *)
OneLiveSession == sdk \ ending \subseteq {session}

=============================================================================
