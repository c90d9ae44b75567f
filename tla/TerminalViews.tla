--------------------------- MODULE TerminalViews ---------------------------
(* The terminal panel: a cache of rendered terminals, kept with their      *)
(* viewers on the server, so that opening an agent again shows at once     *)
(* what it said meanwhile.  There are two panels, the overlay of the game  *)
(* and the panel of serious mode; a window shows one of them at a time.    *)
(* A request is handled as it is sent, a start takes a while, and replies  *)
(* and output come back in one order.                                      *)
EXTENDS Naturals, Sequences, FiniteSets

LOCAL INSTANCE SequencesExt

CONSTANTS
    Agent,
    MaxEntries,   \* entries of the cache
    MaxClicks,    \* what the user does to the panel
    MaxOutput,    \* chunks of output
    MaxOutside    \* exits, failures, and what other parts do to sessions

VARIABLES
    panel,        \* "overlay" or "serious"
    capacity,     \* maxEntries
    alive, session, scrollback, viewers, pendingData, \* the server; sessions are numbered per agent
    starting,     \* starts under way: agent and what the window awaits
    toWindow,     \* messages to the window
    entries,      \* cache keys from the least to the most recently used
    entry,        \* per agent: what its terminal shows, its session id, attached
    visible,      \* the entry on screen
    currentAgent, \* the agent the panel is for
    terminal,     \* the agent of this.terminal
    shownId,      \* the session id on the card
    isSwitching,  \* isSwitchingAgent
    opening,      \* opens that await their first reply, in order
    call,         \* per agent, what the panel awaits for it
    disturbed,    \* agents whose opening crossed another's, that others touched, or whose
                  \* terminal outlived its session
    spent

viewVars == <<panel, capacity, alive, session, scrollback, viewers, pendingData, starting, toWindow,
              entries, entry, visible, currentAgent, terminal, shownId, isSwitching, opening, call,
              disturbed, spent>>

None == "none"
NoId == <<None, 0>>
Id(a) == <<a, session[a]>>
NextId(a) == <<a, session[a] + 1>>
NoEntry == [shown |-> <<>>, id |-> NoId, attached |-> FALSE]
Awaited == {"exists", "start", "fresh", "scroll", "warm", "close", "replace", "restore"}
Cached(a) == a \in ToSet(entries)
Busy == {a \in Agent : call[a] # "idle" \/ a \in ToSet(opening)}

Init == /\ panel \in {"overlay", "serious"}
        /\ capacity \in 1..MaxEntries
        /\ alive = {} /\ viewers = {} /\ starting = {}
        /\ session = [a \in Agent |-> 0]
        /\ scrollback = [a \in Agent |-> <<>>] /\ pendingData = [a \in Agent |-> <<>>]
        /\ toWindow = <<>> /\ entries = <<>>
        /\ entry = [a \in Agent |-> NoEntry]
        /\ visible = None /\ currentAgent = None /\ terminal = None /\ shownId = NoId
        /\ isSwitching = FALSE
        /\ opening = <<>> /\ call = [a \in Agent |-> "idle"]
        /\ disturbed = {}
        /\ spent = [clicks |-> 0, output |-> 0, outside |-> 0]

Clicks == spent.clicks < MaxClicks /\ spent' = [spent EXCEPT !.clicks = @ + 1]
Happens == spent.outside < MaxOutside /\ spent' = [spent EXCEPT !.outside = @ + 1]
(* What the user does while the panel awaits something for other agents,   *)
(* or while the TUI tells of a session of its own.                         *)
Crosses(a) == disturbed' = IF Busy \ {a} = {} /\ \A m \in ToSet(toWindow) : m.kind # "session"
                           THEN disturbed ELSE disturbed \cup Busy \cup {a}

-----------------------------------------------------------------------------
(* The server.                                                             *)

Message(c, a, ok, id, data) == [kind |-> c, agent |-> a, ok |-> ok, id |-> id, data |-> data]

(* terminalExists.                                                         *)
AskExists(a, queue) ==
    /\ call' = [call EXCEPT ![a] = "exists"]
    /\ toWindow' = Append(queue, Message("exists", a, a \in alive, Id(a), <<>>))
    /\ UNCHANGED <<alive, session, starting>>

(* 'start': the window's start registers its viewer first.                 *)
AskStart(a, queue) ==
    /\ call' = [call EXCEPT ![a] = "start"]
    /\ viewers' = viewers \cup {a}
    /\ alive' = alive \cup {a} /\ starting' = starting \cup {<<a, "start">>}
    /\ toWindow' = queue
    /\ UNCHANGED session

(* A bug: the viewer is registered by the start only.                      *)
ViewersOfStart(a, c, watched) == watched
(* 'activate': of a terminal that runs, at once; else it starts it first.  *)
ViewersWith(a, c, watched) == watched \cup {a}
AskActivate(a, c, watched, queue) ==
    /\ call' = [call EXCEPT ![a] = c]
    /\ UNCHANGED session
    /\ IF a \in alive
       THEN /\ viewers' = ViewersWith(a, c, watched)
            /\ toWindow' = Append(queue, Message(c, a, TRUE, Id(a), IF c = "scroll" THEN scrollback[a] ELSE <<>>))
            /\ UNCHANGED <<alive, starting>>
       ELSE /\ viewers' = watched
            /\ alive' = alive \cup {a} /\ starting' = starting \cup {<<a, c>>}
            /\ toWindow' = queue

StartCompletes(a, c) ==
    /\ <<a, c>> \in starting
    /\ starting' = starting \ {<<a, c>>}
    /\ viewers' = IF a \in alive THEN viewers \cup {a} ELSE viewers
    /\ toWindow' = Append(toWindow, Message(c, a, a \in alive, Id(a), <<>>))
    /\ UNCHANGED <<panel, capacity, alive, session, scrollback, pendingData, entries, entry, visible,
                   currentAgent, terminal, shownId, isSwitching, opening, call, disturbed, spent>>

(* 'reset-session', 'restore-session' and 'kill' end the process, and give *)
(* the agent another session.                                              *)
Ended(a) == /\ session' = [session EXCEPT ![a] = @ + 1]
            /\ scrollback' = [scrollback EXCEPT ![a] = <<>>]

(* Output of the process: kept for a replay, and sent in batches to a      *)
(* viewer.                                                                 *)
Output(a) ==
    /\ a \in alive /\ spent.output < MaxOutput
    /\ spent' = [spent EXCEPT !.output = @ + 1]
    /\ LET chunk == <<a, session[a], spent.output>> IN
       /\ scrollback' = [scrollback EXCEPT ![a] = Append(@, chunk)]
       /\ pendingData' = IF a \in viewers THEN [pendingData EXCEPT ![a] = Append(@, chunk)] ELSE pendingData
    /\ UNCHANGED <<panel, capacity, alive, session, viewers, starting, toWindow, entries, entry, visible,
                   currentAgent, terminal, shownId, isSwitching, opening, call, disturbed>>

FlushData(a) ==
    /\ pendingData[a] # <<>>
    /\ pendingData' = [pendingData EXCEPT ![a] = <<>>]
    /\ toWindow' = IF a \in viewers
                   THEN Append(toWindow, Message("data", a, TRUE, Id(a), pendingData[a]))
                   ELSE toWindow
    /\ UNCHANGED <<panel, capacity, alive, session, scrollback, viewers, starting, entries, entry, visible,
                   currentAgent, terminal, shownId, isSwitching, opening, call, disturbed, spent>>

-----------------------------------------------------------------------------
(* Opening an agent: TerminalOverlay.show and openAgentTerminal.           *)

Server == <<alive, session, scrollback, pendingData, viewers, starting>>
Chosen(a) ==
    /\ opening' = Append(opening, a)
    /\ currentAgent' = a
    /\ isSwitching' = (isSwitching \/ (panel = "overlay" /\ currentAgent \notin {None, a}))
    /\ shownId' = IF panel = "serious" THEN NoId ELSE shownId

Open(a) ==
    /\ Clicks /\ a \notin Busy
    /\ IF Busy = {} /\ toWindow = <<>> /\ ~Cached(a) THEN disturbed' = disturbed \ {a} ELSE Crosses(a)
    /\ Chosen(a)
    /\ UNCHANGED <<panel, capacity, toWindow, entries, entry, visible, terminal, call>> /\ UNCHANGED Server

(* The entry the cache evicts for another: the least recently used one     *)
(* that is not on screen.                                                  *)
Evicted == LET hidden == SelectSeq(entries, LAMBDA b : b # visible)
           IN IF hidden = <<>> THEN Head(entries) ELSE Head(hidden)
(* onEvict: the server's viewer goes with the entry.                       *)
(* A bug: the viewer stays until the panel is destroyed.                   *)
StaysWatched(a) == viewers
Unwatched(a) == viewers \ {a}

(* The rest of the opening, after its first await: acquire, activate, and  *)
(* the request that fits what the cache has.                               *)
Acquire(a) ==
    /\ a \in ToSet(opening)
    /\ panel = "overlay" => a = Head(opening)
    /\ opening' = SelectSeq(opening, LAMBDA b : b # a)
    /\ visible' = a /\ terminal' = a
    /\ shownId' = IF panel = "overlay" THEN NoId ELSE shownId
    /\ IF Cached(a)
       THEN /\ entries' = Append(SelectSeq(entries, LAMBDA b : b # a), a)
            /\ UNCHANGED entry
            /\ AskActivate(a, "warm", viewers, toWindow)
       ELSE LET full == Len(entries) >= capacity
            IN /\ entries' = Append(SelectSeq(entries, LAMBDA b : ~(full /\ b = Evicted)), a)
               /\ entry' = [b \in Agent |-> IF b = a \/ (full /\ b = Evicted) THEN NoEntry ELSE entry[b]]
               /\ viewers' = IF full THEN Unwatched(Evicted) ELSE viewers
               /\ AskExists(a, toWindow)
    /\ UNCHANGED <<panel, capacity, scrollback, pendingData, currentAgent, isSwitching, disturbed, spent>>

-----------------------------------------------------------------------------
(* What arrives at the window.                                             *)

(* onTerminalData: to the entry, unless it shows another session.          *)
(* A bug: to the terminal on screen.                                       *)
ToTheScreen(m) == terminal
Target(m) == IF Cached(m.agent) THEN m.agent
             ELSE IF panel = "overlay" /\ m.agent = currentAgent THEN terminal ELSE None
Superseded(m) == Cached(m.agent) /\ entry[m.agent].id \notin {NoId, m.id}
Written(e, b, data) == IF Cached(b) THEN [e EXCEPT ![b].shown = @ \o data] ELSE e

OnData(m) ==
    /\ m.kind = "data"
    /\ entry' = IF Superseded(m) \/ Target(m) = None THEN entry ELSE Written(entry, Target(m), m.data)
    /\ UNCHANGED <<alive, session, scrollback, viewers, starting, entries, visible, currentAgent, terminal,
                   shownId, isSwitching, opening, call, disturbed>>

(* onSessionMetaUpdated, of a session the TUI began in the same process.   *)
OnSession(m) ==
    /\ m.kind = "session"
    /\ entry' = IF Cached(m.agent) THEN [entry EXCEPT ![m.agent].id = m.id] ELSE entry
    /\ shownId' = IF m.agent = currentAgent THEN m.id ELSE shownId
    /\ UNCHANGED <<alive, session, scrollback, viewers, starting, entries, visible, currentAgent, terminal,
                   isSwitching, opening, call, disturbed>>

(* A bug: the session id is the one of the card.                           *)
IdOfCard(m) == shownId
(* A fresh terminal of the overlay gets the id that is on the card.        *)
FreshId(m) == IF panel = "overlay" /\ shownId # NoId THEN shownId ELSE m.id
Done(m) == call' = [call EXCEPT ![m.agent] = "idle"]
Settled == isSwitching' = FALSE

OnExists(m) ==
    /\ m.kind = "exists"
    /\ UNCHANGED <<scrollback, entries, entry, visible, currentAgent, terminal, isSwitching, opening, disturbed>>
    /\ IF m.ok THEN AskActivate(m.agent, "scroll", viewers, Tail(toWindow)) /\ UNCHANGED shownId
       ELSE /\ AskStart(m.agent, Tail(toWindow))
            /\ shownId' = IF panel = "overlay" THEN NoId ELSE shownId

OnStarted(m) ==
    /\ m.kind = "start"
    /\ UNCHANGED <<scrollback, entries, entry, visible, currentAgent, terminal, isSwitching, opening, disturbed>>
    /\ shownId' = IF m.ok /\ panel = "overlay" THEN m.id ELSE shownId
    /\ IF m.ok \/ panel = "overlay" THEN AskActivate(m.agent, "fresh", viewers, Tail(toWindow))
       ELSE Done(m) /\ toWindow' = Tail(toWindow) /\ UNCHANGED <<alive, session, viewers, starting>>

(* The replay goes to the entry in the overlay, in the serious panel to    *)
(* the terminal that is on screen by then.                                 *)
OnActivated(m) ==
    /\ m.kind \in {"fresh", "scroll", "warm"} /\ Done(m) /\ Settled
    /\ LET a == m.agent
           id == IF m.kind = "fresh" THEN FreshId(m) ELSE m.id
           at == IF panel = "overlay" THEN a ELSE terminal
       IN IF m.ok THEN /\ shownId' = id
                       /\ entry' = Written(IF Cached(a) THEN [entry EXCEPT ![a].id = id, ![a].attached = TRUE]
                                           ELSE entry, at, m.data)
                  ELSE UNCHANGED <<shownId, entry>>
    /\ UNCHANGED <<alive, session, scrollback, viewers, starting, entries, visible, currentAgent, terminal,
                   opening, disturbed>>

Invalidated(a) ==
    /\ entries' = SelectSeq(entries, LAMBDA b : b # a)
    /\ entry' = [entry EXCEPT ![a] = NoEntry]
    /\ viewers' = IF Cached(a) THEN Unwatched(a) ELSE viewers
Hidden == /\ visible' = None
          /\ IF panel = "serious" THEN currentAgent' = None /\ shownId' = NoId ELSE UNCHANGED <<currentAgent, shownId>>

(* handleCloseSession: only the overlay drops the terminal it closed.      *)
OnClosed(m) ==
    /\ m.kind = "close" /\ Done(m)
    /\ IF panel = "overlay"
       THEN /\ Invalidated(m.agent) /\ visible' = None /\ shownId' = m.id
            /\ UNCHANGED <<currentAgent, disturbed>>
       ELSE /\ Hidden /\ disturbed' = disturbed \cup {m.agent}
            /\ UNCHANGED <<entries, entry, viewers>>
    /\ UNCHANGED <<alive, session, scrollback, starting, terminal, isSwitching, opening>>

(* handleNewSession: the overlay keeps its terminal and takes the new id,  *)
(* the serious panel drops it and opens another.                           *)
OnReplaced(m) ==
    /\ m.kind = "replace" /\ Done(m)
    /\ IF panel = "overlay"
       THEN /\ shownId' = m.id
            /\ entry' = IF Cached(m.agent) THEN [entry EXCEPT ![m.agent].id = m.id] ELSE entry
            /\ UNCHANGED <<entries, viewers, visible, currentAgent, isSwitching, opening>>
       ELSE /\ Invalidated(m.agent)
            /\ visible' = IF visible = m.agent THEN None ELSE visible
            /\ IF currentAgent = m.agent THEN Chosen(m.agent)
               ELSE UNCHANGED <<currentAgent, isSwitching, opening, shownId>>
    /\ UNCHANGED <<alive, session, scrollback, starting, terminal, disturbed>>

(* handleRestoreSession opens the agent again, with an empty terminal.     *)
OnRestored(m) ==
    /\ m.kind = "restore" /\ Done(m)
    /\ Invalidated(m.agent)
    /\ visible' = IF visible = m.agent THEN None ELSE visible
    /\ Chosen(m.agent)
    /\ UNCHANGED <<alive, session, scrollback, starting, terminal, disturbed>>

Receive ==
    /\ toWindow # <<>>
    /\ LET m == Head(toWindow) IN
       /\ \/ /\ \/ OnData(m) \/ OnSession(m) \/ OnActivated(m) \/ OnClosed(m) \/ OnReplaced(m) \/ OnRestored(m)
             /\ toWindow' = Tail(toWindow)
          \/ OnExists(m) \/ OnStarted(m)
    /\ UNCHANGED <<panel, capacity, pendingData, spent>>

-----------------------------------------------------------------------------
(* What the user does with the agent of the panel, while it is on screen.  *)

AtRest(a) == visible # None /\ a = currentAgent /\ a \notin Busy /\ Clicks /\ Crosses(a)
View == <<panel, capacity, entries, visible, currentAgent, terminal, isSwitching, opening>>
Asks(a, c) == call' = [call EXCEPT ![a] = c]

(* handleNewSession: a reset, and a start that registers a viewer.         *)
NewSession ==
    \E a \in Agent :
        /\ AtRest(a) /\ Ended(a) /\ Asks(a, "replace")
        /\ alive' = alive \cup {a} /\ viewers' = viewers \cup {a}
        /\ starting' = {s \in starting : s[1] # a} \cup {<<a, "replace">>}
        /\ IF panel = "overlay"
           THEN shownId' = NoId /\ entry' = IF Cached(a) THEN [entry EXCEPT ![a].id = NoId] ELSE entry
           ELSE UNCHANGED <<shownId, entry>>
        /\ UNCHANGED <<pendingData, toWindow>> /\ UNCHANGED View

Accepts(a) == IF Cached(a) THEN [entry EXCEPT ![a].id = NoId] ELSE entry
(* reuseLivePtyForNewSession: "/new" to the TUI that runs.                 *)
NewInPlace ==
    \E a \in alive :
        /\ AtRest(a) /\ entry' = Accepts(a)
        /\ UNCHANGED <<toWindow, shownId, call>> /\ UNCHANGED Server /\ UNCHANGED View

(* handleCloseSession.                                                     *)
CloseSession ==
    \E a \in Agent :
        /\ AtRest(a) /\ Ended(a) /\ Asks(a, "close")
        /\ alive' = alive \ {a} /\ viewers' = viewers \ {a}
        /\ toWindow' = Append(toWindow, Message("close", a, TRUE, NextId(a), <<>>))
        /\ UNCHANGED <<pendingData, starting, entry, shownId>> /\ UNCHANGED View

(* handleRestoreSession.                                                   *)
RestoreSession ==
    \E a \in Agent :
        /\ AtRest(a) /\ Ended(a) /\ Asks(a, "restore")
        /\ alive' = alive \ {a}
        /\ toWindow' = Append(toWindow, Message("restore", a, TRUE, NextId(a), <<>>))
        /\ UNCHANGED <<pendingData, viewers, starting, entry, shownId>> /\ UNCHANGED View

(* hide and closeView keep every viewer.                                   *)
Hide ==
    /\ visible # None /\ Clicks /\ Hidden
    /\ disturbed' = disturbed \cup Busy
    /\ UNCHANGED <<panel, capacity, entries, terminal, isSwitching, opening, toWindow, entry, call>>
    /\ UNCHANGED Server

-----------------------------------------------------------------------------
(* What happens elsewhere.                                                 *)
Window == <<panel, capacity, entries, entry, visible, currentAgent, terminal, shownId, isSwitching, opening, call>>

(* The process exits.                                                      *)
Exits(a) ==
    /\ a \in alive /\ Happens
    /\ alive' = alive \ {a} /\ viewers' = viewers \ {a}
    /\ scrollback' = [scrollback EXCEPT ![a] = <<>>]
    /\ disturbed' = disturbed \cup {a}
    /\ UNCHANGED <<session, pendingData, starting, toWindow>> /\ UNCHANGED Window

(* The dashboard, Teams or the orchestrator resets the session.            *)
ResetElsewhere(a) ==
    /\ Happens /\ Ended(a)
    /\ alive' = alive \ {a} /\ viewers' = viewers \ {a}
    /\ disturbed' = disturbed \cup {a}
    /\ UNCHANGED <<pendingData, starting, toWindow>> /\ UNCHANGED Window

(* A start in the background, by Teams; or by the window's own warm-up and *)
(* reconnection, which register a viewer.                                  *)
StartElsewhere(a) ==
    /\ a \notin alive /\ Happens
    /\ alive' = alive \cup {a}
    /\ viewers' \in {viewers, viewers \cup {a}}
    /\ disturbed' = IF a \in Busy THEN disturbed \cup {a} ELSE disturbed
    /\ UNCHANGED <<session, scrollback, pendingData, starting, toWindow>> /\ UNCHANGED Window

(* The other panel evicts an entry it has of the agent.                    *)
DetachElsewhere(a) ==
    /\ a \in viewers /\ Happens
    /\ viewers' = viewers \ {a}
    /\ disturbed' = disturbed \cup {a}
    /\ UNCHANGED <<alive, session, scrollback, pendingData, starting, toWindow>> /\ UNCHANGED Window

(* The TUI begins another session in the same process.                     *)
SessionInPlace(a) ==
    /\ a \in alive /\ Happens
    /\ session' = [session EXCEPT ![a] = @ + 1]
    /\ toWindow' = Append(toWindow, Message("session", a, TRUE, NextId(a), <<>>))
    /\ UNCHANGED <<alive, scrollback, pendingData, viewers, starting, disturbed>> /\ UNCHANGED Window

Elsewhere(a) == Exits(a) \/ ResetElsewhere(a) \/ StartElsewhere(a) \/ DetachElsewhere(a) \/ SessionInPlace(a)
Click == (\E a \in Agent : Open(a)) \/ NewSession \/ NewInPlace \/ CloseSession \/ RestoreSession \/ Hide
Next == \/ Click \/ Receive
        \/ \E a \in Agent : Acquire(a) \/ Output(a) \/ FlushData(a) \/ Elsewhere(a)
        \/ \E a \in Agent, c \in Awaited : StartCompletes(a, c)
Spec == Init /\ [][Next]_viewVars

-----------------------------------------------------------------------------
(* The variables have their types.                                         *)
TypeOK ==
    /\ panel \in {"overlay", "serious"} /\ capacity \in 1..MaxEntries
    /\ alive \subseteq Agent /\ viewers \subseteq Agent /\ starting \subseteq Agent \X Awaited
    /\ ToSet(entries) \subseteq Agent /\ ToSet(opening) \subseteq Agent /\ disturbed \subseteq Agent
    /\ visible \in Agent \cup {None} /\ currentAgent \in Agent \cup {None} /\ terminal \in Agent \cup {None}
    /\ isSwitching \in BOOLEAN /\ call \in [Agent -> Awaited \cup {"idle"}]
    /\ Len(entries) <= capacity

OnTheWay(a) == ToSet(pendingData[a])
               \cup UNION {ToSet(m.data) : m \in {n \in ToSet(toWindow) : n.kind = "data" /\ n.agent = a}}

(* What the server would replay is in the terminal the panel keeps, or on  *)
(* its way: an agent that was opened by itself, and that nothing else      *)
(* touched, is whole when it is shown again, without a replay.             *)
WarmIsWhole ==
    \A a \in ToSet(entries) \ (disturbed \cup Busy) :
        entry[a].attached => ToSet(scrollback[a]) \subseteq ToSet(entry[a].shown) \cup OnTheWay(a)

(* An agent the panel has let go of is not watched on: its output is not   *)
(* sent to a window that has no terminal for it.                           *)
NobodyUnseenIsWatched ==
    (spent.outside = 0 /\ Busy = {} /\ toWindow = <<>>) => viewers \ ToSet(entries) \subseteq disturbed

(* When the panel awaits nothing, and agents were opened one by one, the   *)
(* terminal on screen, the agent of the panel and the session id on the    *)
(* card belong together, and keys are accepted.                            *)
RestAgrees ==
    (Busy = {} /\ toWindow = <<>> /\ disturbed = {} /\ visible # None) =>
        /\ visible = currentAgent /\ visible = terminal
        /\ entry[visible].attached => shownId = Id(visible) /\ entry[visible].id \in {NoId, shownId}
        /\ ~isSwitching
=============================================================================
