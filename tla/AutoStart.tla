------------------------------ MODULE AutoStart ------------------------------
(* What starts agents without a click: the warm-up of the office in view,  *)
(* the pre-start of its roster, the cold start of agents that are bound to *)
(* Teams or flagged, in every office; and the "new session" of an agent.   *)
EXTENDS Naturals, Sequences, FiniteSets

LOCAL INSTANCE SequencesExt

CONSTANTS
    Seat,         \* agents: pairs of an office and an agent id
    Flagged,      \* agents the user has flagged
    MaxAttempts,  \* TEAMS_COLD_WARM_MAX_ATTEMPTS
    MaxReplaces,  \* "new session" clicks
    MaxFailures,  \* starts and queries that fail
    MaxToggles    \* changes of the setting, of the office and of titles

VARIABLES
    autoStartKnownAgents, \* the setting
    current,              \* the office in view
    warmed,               \* WarmedOfficeRegistry, kept over reloads
    warmups,              \* warm-ups under way: office, step, agents found so far
    titled, persisted,    \* agents with a title, and with a session id on disk
    live,                 \* agents with a session
    inFlight,             \* replaceTracker: per agent id the replacement under way
    cold,                 \* the Teams pass: done, step, attempts, any success
    bindings,             \* bound agents, once the service has loaded them
    chains,               \* coldWarmChains: per office, the starts in turn
    flagged,              \* the flagged pass: done, under way
    warmedTimes,          \* per office, warm-ups that read its agents
    asked, answered,      \* per agent, clicks on new session and those with an answer
    againstTheSetting,    \* agents started without a click while it was off
    budget

startVars == <<autoStartKnownAgents, current, warmed, warmups, titled, persisted, live, inFlight,
               cold, bindings, chains, flagged, warmedTimes, asked, answered, againstTheSetting, budget>>

Office == {s[1] : s \in Seat}
Id == {s[2] : s \in Seat}
Roster(o) == {s \in Seat : s[1] = o}
Idle == [office |-> "none", step |-> "idle"]
Steps == {"idle", "reset", "warm"}
NotStarted == [done |-> FALSE, step |-> "idle", attempts |-> 0, some |-> FALSE]

Init == /\ autoStartKnownAgents \in BOOLEAN
        /\ current \in Office
        /\ warmed = {} /\ warmups = {}
        /\ titled \in SUBSET Seat /\ persisted = titled
        /\ live = {}
        /\ inFlight = [i \in Id |-> Idle]
        /\ cold = NotStarted
        /\ bindings = {}
        /\ chains = [o \in Office |-> <<>>]
        /\ flagged = "idle"
        /\ warmedTimes = [o \in Office |-> 0]
        /\ asked = [s \in Seat |-> 0] /\ answered = [s \in Seat |-> 0]
        /\ againstTheSetting = {}
        /\ budget = [failures |-> 0, toggles |-> 0]

Fails == budget.failures < MaxFailures /\ budget' = [budget EXCEPT !.failures = @ + 1]
Toggles == budget.toggles < MaxToggles /\ budget' = [budget EXCEPT !.toggles = @ + 1]
(* terminalStart: the server starts a session or finds the one that runs.  *)
Started(S, byHand) ==
    /\ live' = live \cup S
    /\ persisted' = persisted \cup S
    /\ againstTheSetting' = IF byHand \/ autoStartKnownAgents THEN againstTheSetting
                            ELSE againstTheSetting \cup S
Coordinator == <<warmed, warmups, inFlight, warmedTimes, asked, answered>>
ColdStart == <<cold, bindings, chains, flagged>>
World == <<autoStartKnownAgents, current, titled>>
Sessions == <<persisted, live, againstTheSetting>>

-----------------------------------------------------------------------------
(* AutoStartCoordinator.                                                   *)

(* A bug: the office is marked when its agents have started.               *)
MarkLater(office) == warmed
Marked(office) == warmed \cup {office}
TryWarmCurrentOffice ==
    /\ autoStartKnownAgents /\ current \notin warmed
    /\ warmed' = Marked(current)
    /\ warmups' = warmups \cup {[office |-> current, step |-> "meta", found |-> {}]}
    /\ UNCHANGED <<World, Sessions, ColdStart, inFlight, warmedTimes, asked, answered, budget>>
SessionMetaArrives(w) ==
    /\ w.step = "meta"
    /\ \/ /\ warmups' = (warmups \ {w}) \cup
                 {[w EXCEPT !.step = "ids", !.found = Roster(w.office) \cap titled]}
          /\ UNCHANGED budget
       \/ warmups' = warmups \ {w} /\ Fails
    /\ warmedTimes' = [warmedTimes EXCEPT ![w.office] = @ + 1]
    /\ UNCHANGED <<World, Sessions, ColdStart, warmed, inFlight, asked, answered>>
Qualifying(w) == w.found \cap persisted
WarmsQualifying(w) ==
    /\ w.step = "ids"
    /\ warmups' = warmups \ {w}
    /\ \/ Started(Qualifying(w), FALSE) /\ UNCHANGED budget
       \/ \E S \in SUBSET Qualifying(w) : S # Qualifying(w) /\ Started(S, FALSE) /\ Fails
    /\ UNCHANGED <<World, ColdStart, warmed, inFlight, warmedTimes, asked, answered>>

(* New session: a second click joins the replacement that is under way for *)
(* the agent's id.                                                         *)
ReplaceSession(s) ==
    /\ asked[s] < MaxReplaces
    /\ asked' = [asked EXCEPT ![s] = @ + 1]
    /\ inFlight' = IF inFlight[s[2]] # Idle THEN inFlight
                   ELSE [inFlight EXCEPT ![s[2]] = [office |-> s[1], step |-> "reset"]]
    /\ UNCHANGED <<World, Sessions, ColdStart, warmed, warmups, warmedTimes, answered, budget>>
(* finally: every click that joined has its answer.                        *)
Replaced(i) ==
    LET s == <<inFlight[i].office, i>> IN
    /\ inFlight' = [inFlight EXCEPT ![i] = Idle]
    /\ answered' = [answered EXCEPT ![s] = asked[s]]
ResetSession(i) ==
    /\ inFlight[i].step = "reset"
    /\ LET s == <<inFlight[i].office, i>> IN
         \/ /\ live' = live \ {s} /\ persisted' = persisted \cup {s} /\ UNCHANGED budget
            /\ IF autoStartKnownAgents
                 THEN inFlight' = [inFlight EXCEPT ![i].step = "warm"] /\ UNCHANGED answered
                 ELSE Replaced(i)
         \/ Replaced(i) /\ Fails /\ UNCHANGED <<live, persisted>>
    /\ UNCHANGED <<World, ColdStart, againstTheSetting, warmed, warmups, warmedTimes, asked>>
WarmReplaced(i) ==
    /\ inFlight[i].step = "warm"
    /\ Replaced(i)
    /\ \/ Started({<<inFlight[i].office, i>>}, TRUE) /\ UNCHANGED budget
       \/ Fails /\ UNCHANGED Sessions
    /\ UNCHANGED <<World, ColdStart, warmed, warmups, warmedTimes, asked>>

(* The scene starts the whole roster of the office in view.                *)
PreStartAgentSessions ==
    /\ autoStartKnownAgents
    /\ \/ Started(Roster(current), FALSE) /\ UNCHANGED budget
       \/ \E S \in SUBSET Roster(current) : S # Roster(current) /\ Started(S, FALSE) /\ Fails
    /\ UNCHANGED <<World, Coordinator, ColdStart>>

-----------------------------------------------------------------------------
(* The cold start of bound and of flagged agents, one per office at a time.*)

WarmAllTeamsBoundAgents ==
    /\ ~cold.done /\ cold.step = "idle" /\ cold.attempts < MaxAttempts
    /\ cold' = [cold EXCEPT !.step = "asked", !.attempts = @ + 1, !.some = FALSE]
    /\ UNCHANGED <<World, Sessions, Coordinator, bindings, chains, flagged, budget>>
WithTasks(S, by) ==
    [o \in Office |-> chains[o] \o SetToSeq({[seat |-> t, by |-> by] : t \in S \cap Roster(o)})]
BindingsArrive ==
    /\ cold.step = "asked"
    /\ IF bindings = {}
         THEN cold' = [cold EXCEPT !.step = "idle"] /\ UNCHANGED <<chains, budget>>
         ELSE \/ /\ cold' = [cold EXCEPT !.step = "warming"]
                 /\ chains' = WithTasks(bindings, "teams") /\ UNCHANGED budget
              \/ cold' = [cold EXCEPT !.step = "idle"] /\ Fails /\ UNCHANGED chains
    /\ UNCHANGED <<World, Sessions, Coordinator, bindings, flagged>>
(* The head of an office's chain is the start that is under way.           *)
ChainedStartEnds(o) ==
    /\ chains[o] # <<>>
    /\ chains' = [chains EXCEPT ![o] = Tail(@)]
    /\ \/ /\ Started({Head(chains[o]).seat}, FALSE)
          /\ cold' = IF Head(chains[o]).by = "teams" THEN [cold EXCEPT !.some = TRUE] ELSE cold
          /\ UNCHANGED budget
       \/ Fails /\ UNCHANGED <<Sessions, cold>>
    /\ UNCHANGED <<World, Coordinator, bindings, flagged>>
Waits(by) == \E o \in Office : \E n \in DOMAIN chains[o] : chains[o][n].by = by
TeamsPassEnds ==
    /\ cold.step = "warming" /\ ~Waits("teams")
    /\ cold' = [cold EXCEPT !.step = "idle", !.done = cold.some]
    /\ UNCHANGED <<World, Sessions, Coordinator, bindings, chains, flagged, budget>>
WarmAllFlaggedAgents ==
    /\ flagged = "idle" /\ Flagged # {}
    /\ flagged' = "warming"
    /\ chains' = WithTasks(Flagged, "flagged")
    /\ UNCHANGED <<World, Sessions, Coordinator, cold, bindings, budget>>
FlaggedPassEnds ==
    /\ flagged = "warming" /\ ~Waits("flagged")
    /\ flagged' = "done"
    /\ UNCHANGED <<World, Sessions, Coordinator, cold, bindings, chains, budget>>

-----------------------------------------------------------------------------
(* The user, the Teams service and the window.                             *)

UserActs ==
    /\ Toggles
    /\ \/ autoStartKnownAgents' = ~autoStartKnownAgents /\ UNCHANGED <<current, titled>>
       \/ \E o \in Office \ {current} : current' = o /\ UNCHANGED <<autoStartKnownAgents, titled>>
       \/ \E s \in Seat \ titled : titled' = titled \cup {s} /\ UNCHANGED <<autoStartKnownAgents, current>>
    /\ UNCHANGED <<Sessions, Coordinator, ColdStart>>
TeamsLoads(S) ==
    /\ bindings = {} /\ S # {} /\ bindings' = S
    /\ UNCHANGED <<World, Sessions, Coordinator, cold, chains, flagged, budget>>
Reload ==
    /\ Toggles
    /\ warmups' = {} /\ inFlight' = [i \in Id |-> Idle]
    /\ cold' = NotStarted /\ chains' = [o \in Office |-> <<>>] /\ flagged' = "idle"
    /\ asked' = answered
    /\ UNCHANGED <<World, Sessions, bindings, warmed, warmedTimes, answered>>

Next == \/ TryWarmCurrentOffice
        \/ \E w \in warmups : SessionMetaArrives(w) \/ WarmsQualifying(w)
        \/ \E s \in Seat : ReplaceSession(s)
        \/ \E i \in Id : ResetSession(i) \/ WarmReplaced(i)
        \/ PreStartAgentSessions
        \/ WarmAllTeamsBoundAgents \/ BindingsArrive \/ TeamsPassEnds
        \/ \E o \in Office : ChainedStartEnds(o)
        \/ WarmAllFlaggedAgents \/ FlaggedPassEnds
        \/ UserActs \/ Reload
        \/ \E S \in SUBSET Seat : TeamsLoads(S)
Spec == Init /\ [][Next]_startVars

-----------------------------------------------------------------------------
TypeOK == /\ autoStartKnownAgents \in BOOLEAN /\ current \in Office
          /\ warmed \subseteq Office /\ flagged \in {"idle", "warming", "done"}
          /\ \A w \in warmups : w.office \in Office /\ w.step \in {"meta", "ids"} /\ w.found \subseteq Seat
          /\ titled \cup persisted \cup live \cup bindings \cup againstTheSetting \subseteq Seat
          /\ inFlight \in [Id -> [office : Office \cup {"none"}, step : Steps]]
          /\ cold.step \in {"idle", "asked", "warming"} /\ cold.attempts \in 0..MaxAttempts
          /\ \A o \in Office : \A n \in DOMAIN chains[o] : chains[o][n].seat \in Roster(o)
          /\ \A t \in Seat : answered[t] <= asked[t] /\ asked[t] \in 0..MaxReplaces

(* An office is warmed at most once in the life of the window, whatever    *)
(* callbacks, switches of office and reloads come between the decision and *)
(* the answers it waits for.                                               *)
WarmedOnce == \A o \in Office : warmedTimes[o] <= 1

(* A click on "new session" that has no answer yet waits for a replacement *)
(* of that very agent (agent ids being the offices' own).                  *)
ClicksJoinTheirOwn ==
    \A s \in Seat : asked[s] # answered[s] =>
        inFlight[s[2]].office = s[1] /\ inFlight[s[2]].step # "idle"

(* With the setting off no agent starts until the user clicks on it.       *)
OffMeansManual == againstTheSetting = {}
=============================================================================
