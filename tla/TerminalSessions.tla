-------------------------- MODULE TerminalSessions --------------------------
(***************************************************************************)
(* The terminal server's bookkeeping of one agent's terminals: starts that *)
(* coalesce, reuse, time out and are repaired, kills, resets, restores and *)
(* transfers, and the callbacks of processes that may be gone by then.     *)
(*                                                                         *)
(* A key is compositeKey(office, agent) of that agent in one office.       *)
(* Terminals are numbered as they are spawned.  Messages are handled       *)
(* concurrently: a handler runs until it awaits.  The back end is the      *)
(* native bridge, of which only whether the TUI is connected is seen here  *)
(* (NativeBridge has the rest).  Titles, scrollback, turns, forwarding,    *)
(* the shared host's foreground and shell mode are left out, and so is     *)
(* where files are: a save and a look at the directories only take time.   *)
(***************************************************************************)
EXTENDS Naturals, Sequences, FiniteSets

CONSTANTS
    Key,            \* the offices the agent is in
    NoKey,
    MaxTerminals,   \* bound: processes spawned
    MaxRequests,    \* bound: starts asked for
    MaxSessions,    \* bound: session ids minted
    MaxOperations,  \* bound: kills, resets, restores and transfers
    MaxKillFailures \* bound: kills that the operating system refuses

ASSUME SessionsAssumption ==
    /\ NoKey \notin Key
    /\ MaxTerminals \in Nat
    /\ MaxRequests \in Nat
    /\ MaxSessions \in Nat
    /\ MaxOperations \in Nat
    /\ MaxKillFailures \in Nat

VARIABLES
    procs,           \* every process spawned
    ptyProcesses,    \* the terminal registered at each key, 0 if none
    agentToTerminal, \* the key whose terminal each key uses
    agentWatchers,   \* the terminal whose event source is kept, 0 if none
    agentReadyState, \* keys that are marked ready
    activeAgentViewers,
    sessionIds,      \* the current session of each key, 0 if none
    sessionHistory,  \* archived sessions
    minted,          \* how many session ids exist
    prompts,         \* pendingPreseededPrompts: requests whose prompt waits
    inFlightStarts,  \* the request that runs the start of each key, 0 if none
    recoveries,      \* unbridgedRecoveries: the request that repairs a key
    req,             \* the start requests
    killing,         \* keys whose kill awaits its save
    taken,           \* ghost: how often each request's prompt was handed out
    operations, killFailures

terminalVars == <<procs, ptyProcesses, agentToTerminal>>
trackingVars == <<agentWatchers, agentReadyState>>
sessionVars == <<sessionIds, sessionHistory, minted>>
requestVars == <<inFlightStarts, recoveries, req>>
promptVars == <<prompts, taken>>
budgetVars == <<operations, killFailures>>
vars == <<terminalVars, trackingVars, activeAgentViewers, sessionVars, requestVars,
          promptVars, killing, budgetVars>>

Terminal == 1..MaxTerminals
Request == 1..MaxRequests
Session == 1..MaxSessions
None == 0

(* Who asks: the renderer without or with a prompt, its activate message,  *)
(* Teams (mainEnsureSessionOnline), and a hand-off (mainStartBackground).  *)
Kind == {"plain", "prompt", "activate", "ensure", "launch"}
Background == {"ensure", "launch"}

NoRequest == [key |-> NoKey, kind |-> "plain", pc |-> "none", had |-> FALSE, re |-> FALSE,
              reused |-> FALSE, ok |-> FALSE, session |-> None, proc |-> None, with |-> None]
Answered == [NoRequest EXCEPT !.pc = "answered"]

TypeOK ==
    /\ procs \in Seq([key : Key, session : Session, state : {"up", "dying", "gone"},
                      open : BOOLEAN, linked : BOOLEAN, signalled : BOOLEAN, midKill : BOOLEAN])
    /\ Len(procs) <= MaxTerminals
    /\ ptyProcesses \in [Key -> DOMAIN procs \cup {None}]
    /\ agentToTerminal \in [Key -> Key \cup {NoKey}]
    /\ agentWatchers \in [Key -> DOMAIN procs \cup {None}]
    /\ agentReadyState \subseteq Key
    /\ activeAgentViewers \subseteq Key
    /\ minted \in 0..MaxSessions
    /\ sessionIds \in [Key -> 0..minted]
    /\ sessionHistory \in [Key -> SUBSET (1..minted)]
    /\ \A k \in Key : sessionIds[k] \notin sessionHistory[k]
    /\ prompts \in [Key -> Seq(Request)]
    /\ inFlightStarts \in [Key -> Request \cup {None}]
    /\ recoveries \in [Key -> Request \cup {None}]
    /\ req \in [Request -> [key : Key \cup {NoKey}, kind : Kind,
                            pc : {"none", "launching", "delivering", "coalesced", "started",
                                  "waiting", "joining", "answered"},
                            had : BOOLEAN, re : BOOLEAN, reused : BOOLEAN, ok : BOOLEAN,
                            session : 0..minted, proc : DOMAIN procs \cup {None},
                            with : Request \cup {None}]]
    /\ \A k \in Key : ptyProcesses[k] # None => procs[ptyProcesses[k]].key = k
    /\ killing \subseteq Key
    /\ taken \in [Request -> Nat]
    /\ operations \in 0..MaxOperations
    /\ killFailures \in 0..MaxKillFailures

Init ==
    /\ procs = <<>>
    /\ ptyProcesses = [k \in Key |-> None]
    /\ agentToTerminal = [k \in Key |-> NoKey]
    /\ agentWatchers = [k \in Key |-> None]
    /\ agentReadyState = {}
    /\ activeAgentViewers = {}
    /\ sessionIds = [k \in Key |-> None]
    /\ sessionHistory = [k \in Key |-> {}]
    /\ minted = 0
    /\ prompts = [k \in Key |-> <<>>]
    /\ inFlightStarts = [k \in Key |-> None]
    /\ recoveries = [k \in Key |-> None]
    /\ req = [r \in Request |-> NoRequest]
    /\ killing = {}
    /\ taken = [r \in Request |-> 0]
    /\ operations = 0
    /\ killFailures = 0

-----------------------------------------------------------------------------
(* Lookups, and the parts handlers share.                                  *)

(* The terminal a key uses, directly or as the alias of another key.       *)
TerminalKey(k) ==
    IF agentToTerminal[k] # NoKey /\ ptyProcesses[agentToTerminal[k]] # None
    THEN agentToTerminal[k]
    ELSE IF ptyProcesses[k] # None THEN k ELSE NoKey

HasTerminal(k) == TerminalKey(k) # NoKey
TerminalOf(k) == IF HasTerminal(k) THEN ptyProcesses[TerminalKey(k)] ELSE None

(* A viewer of a key also counts for the key whose terminal it uses.       *)
BothKeys(k) == {k} \cup ({agentToTerminal[k]} \ {NoKey})
Viewed(k) == \E j \in activeAgentViewers : j = k \/ agentToTerminal[j] = k

(* kill() closes the wrapper and leaves the bridge whether or not the      *)
(* operating system obeys; a closed wrapper repeats its first answer.      *)
Killed(p, obeyed) ==
    [procs EXCEPT ![p].open = FALSE, ![p].linked = FALSE,
                  ![p].state = IF obeyed THEN "dying" ELSE @]

KillOutcome(p, obeyed) ==
    /\ obeyed => procs[p].open
    /\ ~obeyed /\ procs[p].open => killFailures < MaxKillFailures
    /\ killFailures' = IF ~obeyed /\ procs[p].open THEN killFailures + 1 ELSE killFailures

(* The key's own entry goes, and the entries of what used it as an alias   *)
(* stay.                                                                   *)
Forgotten(k, at) ==
    /\ ptyProcesses' = [ptyProcesses EXCEPT ![at] = None]
    /\ agentToTerminal' = [agentToTerminal EXCEPT ![k] = NoKey]

SilencedAll(k) == [j \in Key |-> None]     \* mutant: clear() instead of delete()
Silenced(k) == [agentWatchers EXCEPT ![k] = None]

Archived(k) == [sessionHistory EXCEPT ![k] = @ \cup ({sessionIds[k]} \ {None})]

(* Requests that are answered together with r: those that joined its       *)
(* recovery.                                                               *)
Joined(R) == {j \in Request : req[j].pc = "joining" /\ req[j].with \in R}
Answer(R) == req' = [r \in Request |-> IF r \in R \cup Joined(R) THEN Answered ELSE req[r]]
RecoveriesAfter(R) == [k \in Key |-> IF recoveries[k] \in R THEN None ELSE recoveries[k]]

Handed(s) == [r \in Request |->
                 taken[r] + Cardinality({i \in DOMAIN s : s[i] = r})]
Peeked(k) == prompts            \* mutant: the queue is read, not emptied
Take(k) == [prompts EXCEPT ![k] = <<>>]

-----------------------------------------------------------------------------
(* startTerminalForAgent, as called by request q.key's handler: a start    *)
(* under way is shared, a terminal that runs is reused, and otherwise one  *)
(* is launched on the session the office has, or on a new one.             *)
NeverCoalesced(k) == FALSE     \* mutant: a start under way is not looked up
Coalesced(k) == inFlightStarts[k] # None

Reusable(k, aliases, terminals) ==
    aliases[k] # NoKey /\ terminals[aliases[k]] # None

Begin(r, q, queue, aliases, terminals) ==
    LET k == q.key
        reused == terminals[aliases[k]]
    IN  \/ /\ Coalesced(k)
           /\ req' = [req EXCEPT ![r] = [q EXCEPT !.pc = "coalesced",
                                                  !.with = inFlightStarts[k]]]
           /\ prompts' = queue
           /\ UNCHANGED <<sessionIds, minted, inFlightStarts, taken>>
        \/ /\ ~Coalesced(k) /\ Reusable(k, aliases, terminals) /\ queue[k] = <<>>
           /\ req' = [req EXCEPT ![r] = [q EXCEPT !.pc = "started", !.ok = TRUE,
                                                  !.reused = TRUE]]
           /\ prompts' = queue
           /\ UNCHANGED <<sessionIds, minted, inFlightStarts, taken>>
        \/ /\ ~Coalesced(k) /\ Reusable(k, aliases, terminals) /\ queue[k] # <<>>
           /\ req' = [req EXCEPT ![r] = [q EXCEPT !.pc = "delivering", !.proc = reused]]
           /\ prompts' = [queue EXCEPT ![k] = <<>>]
           /\ taken' = Handed(queue[k])
           /\ inFlightStarts' = [inFlightStarts EXCEPT ![k] = r]
           /\ UNCHANGED <<sessionIds, minted>>
        \/ /\ ~Coalesced(k) /\ ~Reusable(k, aliases, terminals)
           /\ IF sessionIds[k] = None
              THEN /\ minted < MaxSessions
                   /\ minted' = minted + 1
                   /\ sessionIds' = [sessionIds EXCEPT ![k] = minted + 1]
              ELSE UNCHANGED <<minted, sessionIds>>
           /\ req' = [req EXCEPT ![r] = [q EXCEPT !.pc = "launching",
                                                  !.session = sessionIds'[k]]]
           /\ inFlightStarts' = [inFlightStarts EXCEPT ![k] = r]
           /\ prompts' = queue
           /\ UNCHANGED taken

(* The start message.                                                      *)
Start(k, kind) ==
    \E r \in Request :
        LET q == [NoRequest EXCEPT !.key = k, !.kind = kind, !.had = HasTerminal(k)]
            queue == IF kind = "prompt" THEN [prompts EXCEPT ![k] = Append(@, r)] ELSE prompts
        IN  /\ req[r].pc = "none"
            /\ \A s \in Request : s < r => req[s].pc # "none"
            /\ kind = "activate" => ~HasTerminal(k)
            /\ kind = "launch" => ~HasTerminal(k) /\ ~Coalesced(k)
            /\ activeAgentViewers' = IF kind \in Background \cup {"activate"}
                                     THEN activeAgentViewers
                                     ELSE activeAgentViewers \cup BothKeys(k)
            /\ Begin(r, q, queue, agentToTerminal, ptyProcesses)
            /\ UNCHANGED <<terminalVars, trackingVars, sessionHistory, recoveries, killing,
                           budgetVars>>

(* A start is over: the caller and whoever shared it go on, in that tick.  *)
Over(r, ok, reused) ==
    /\ req' = [s \in Request |->
                  IF s = r THEN [req[s] EXCEPT !.pc = "started", !.ok = ok, !.reused = reused,
                                               !.session = None, !.proc = None]
                  ELSE IF req[s].pc = "coalesced" /\ req[s].with = r
                       THEN [req[s] EXCEPT !.pc = "started", !.ok = ok, !.reused = ok,
                                           !.with = None]
                       ELSE req[s]]
    /\ inFlightStarts' = [inFlightStarts EXCEPT ![req[r].key] = None]

(* The back end has spawned the TUI: it is registered, and its event       *)
(* source takes the place of the one that was there.                       *)
Launched(r) ==
    LET k == req[r].key
        p == Len(procs) + 1
    IN  /\ req[r].pc = "launching"
        /\ p <= MaxTerminals
        /\ procs' = Append(procs, [key |-> k, session |-> req[r].session, state |-> "up",
                                   open |-> TRUE, linked |-> FALSE, signalled |-> FALSE,
                                   midKill |-> k \in killing])
        /\ ptyProcesses' = [ptyProcesses EXCEPT ![k] = p]
        /\ agentToTerminal' = [agentToTerminal EXCEPT ![k] = k]
        /\ agentReadyState' = agentReadyState \ {k}
        /\ agentWatchers' = [agentWatchers EXCEPT ![k] = p]
        /\ Over(r, TRUE, FALSE)
        /\ UNCHANGED <<activeAgentViewers, sessionVars, recoveries, promptVars, killing,
                       budgetVars>>

(* The directory is not there, or the back end throws; or the terminal     *)
(* that is reused does not take a prompt.                                  *)
StartFails(r) ==
    /\ req[r].pc \in {"launching", "delivering"}
    /\ prompts' = Take(req[r].key)
    /\ Over(r, FALSE, req[r].pc = "delivering")
    /\ UNCHANGED <<terminalVars, trackingVars, activeAgentViewers, sessionVars, recoveries,
                   killing, taken, budgetVars>>

Delivered(r) ==
    /\ req[r].pc = "delivering"
    /\ procs[req[r].proc].linked
    /\ Over(r, TRUE, TRUE)
    /\ UNCHANGED <<terminalVars, trackingVars, activeAgentViewers, sessionVars, recoveries,
                   promptVars, killing, budgetVars>>

-----------------------------------------------------------------------------
(* What the start message does when its start is over.                     *)

ReadyTerminal(p) == p # None /\ procs[p].linked

(* One kill of a terminal that did not become ready, and what follows.     *)
Discard(r, at, p) ==
    \E obeyed \in BOOLEAN :
        /\ KillOutcome(p, obeyed)
        /\ procs' = Killed(p, obeyed)
        /\ IF obeyed THEN Forgotten(req[r].key, at)
                     ELSE UNCHANGED <<ptyProcesses, agentToTerminal>>

Keep == UNCHANGED <<terminalVars, killFailures>>

GoesOn(r) ==
    LET k == req[r].key
        p == TerminalOf(k)
    IN  /\ req[r].pc = "started" /\ ~req[r].re
        /\ \/ /\ ~req[r].ok \/ req[r].kind \in {"plain", "prompt"}
              /\ Answer({r})
              /\ Keep /\ UNCHANGED activeAgentViewers
           \/ /\ req[r].ok /\ req[r].kind = "activate"
              /\ activeAgentViewers' = activeAgentViewers \cup BothKeys(k)
              /\ Answer({r})
              /\ Keep
           \/ /\ req[r].ok /\ req[r].kind = "launch"    \* past its deadline
              /\ IF p # None /\ ~req[r].reused /\ ~Viewed(TerminalKey(k))
                 THEN Discard(r, TerminalKey(k), p)
                 ELSE Keep
              /\ Answer({r})
              /\ UNCHANGED activeAgentViewers
           \/ /\ req[r].ok /\ req[r].kind \in Background
              /\ IF p = None \/ ReadyTerminal(p)
                 THEN Answer({r})
                 ELSE req' = [req EXCEPT ![r].pc = "waiting", ![r].proc = p]
              /\ Keep /\ UNCHANGED activeAgentViewers
        /\ UNCHANGED <<trackingVars, sessionVars, inFlightStarts, recoveries, promptVars,
                       killing, operations>>

(* Only a terminal that was there before the request, and that nobody      *)
(* looks at, is replaced.                                                  *)
RecoversAny(r, at) == req[r].had    \* mutant: viewers are not looked at
MayRecover(r, at) == req[r].had /\ ~Viewed(at)

(* evictUnbridgedReusedTerminal: the terminal must still be the one the    *)
(* request waited for.                                                     *)
StillThere(p) == ptyProcesses[procs[p].key] = p

Evict(r, p) ==
    LET at == procs[p].key
        aliases == [j \in Key |-> IF agentToTerminal[j] = at THEN NoKey ELSE agentToTerminal[j]]
        terminals == [ptyProcesses EXCEPT ![at] = None]
    IN  /\ KillOutcome(p, TRUE)
        /\ procs' = Killed(p, TRUE)
        /\ ptyProcesses' = terminals
        /\ agentToTerminal' = aliases
        /\ agentWatchers' = Silenced(at)
        /\ agentReadyState' = agentReadyState \ {at}
        /\ recoveries' = [recoveries EXCEPT ![at] = r]
        /\ Begin(r, [req[r] EXCEPT !.re = TRUE, !.proc = None, !.reused = FALSE, !.ok = FALSE],
                 prompts, aliases, terminals)

(* whenReady has timed out, or its terminal was closed.                    *)
WaitFails(r) ==
    LET p == req[r].proc
        at == procs[p].key
    IN  /\ req[r].pc = "waiting" /\ ~req[r].re
        /\ \/ /\ recoveries[at] # None
              /\ req' = [req EXCEPT ![r] = [@ EXCEPT !.pc = "joining", !.proc = None,
                                                     !.with = recoveries[at]]]
              /\ Keep
              /\ UNCHANGED <<trackingVars, sessionVars, inFlightStarts, recoveries, promptVars>>
           \/ /\ recoveries[at] = None /\ MayRecover(r, at) /\ StillThere(p)
              /\ Evict(r, p)
              /\ UNCHANGED sessionHistory
           \/ /\ recoveries[at] = None /\ MayRecover(r, at) /\ StillThere(p)
              /\ KillOutcome(p, FALSE)
              /\ procs' = Killed(p, FALSE)
              /\ Answer({r})
              /\ UNCHANGED <<ptyProcesses, agentToTerminal, trackingVars, sessionVars,
                             inFlightStarts, recoveries, promptVars>>
           \/ /\ recoveries[at] = None
              /\ IF ~req[r].had /\ StillThere(p)
                 THEN Discard(r, at, p)
                 ELSE ~(MayRecover(r, at) /\ StillThere(p)) /\ Keep
              /\ Answer({r})
              /\ UNCHANGED <<trackingVars, sessionVars, inFlightStarts, recoveries, promptVars>>
        /\ UNCHANGED <<activeAgentViewers, killing, operations>>

(* The recovery's own start is over; then the replacement is waited for.   *)
RecoveryFails(r, p) ==
    /\ IF p # None /\ ~req[r].reused /\ StillThere(p) /\ ~Viewed(procs[p].key)
       THEN Discard(r, procs[p].key, p)
       ELSE Keep
    /\ Answer({r})
    /\ recoveries' = RecoveriesAfter({r})

RecoveryGoesOn(r) ==
    LET p == TerminalOf(req[r].key)
    IN  /\ req[r].pc = "started" /\ req[r].re
        /\ \/ /\ ~req[r].ok \/ p = None
              /\ RecoveryFails(r, p)
           \/ /\ req[r].ok /\ ReadyTerminal(p)
              /\ Answer({r})
              /\ recoveries' = RecoveriesAfter({r})
              /\ Keep
           \/ /\ req[r].ok /\ p # None /\ ~ReadyTerminal(p)
              /\ req' = [req EXCEPT ![r].pc = "waiting", ![r].proc = p]
              /\ Keep /\ UNCHANGED recoveries
        /\ UNCHANGED <<trackingVars, activeAgentViewers, sessionVars, inFlightStarts,
                       promptVars, killing, operations>>

RecoveryWaitFails(r) ==
    /\ req[r].pc = "waiting" /\ req[r].re
    /\ RecoveryFails(r, req[r].proc)
    /\ UNCHANGED <<trackingVars, activeAgentViewers, sessionVars, inFlightStarts, promptVars,
                   killing, operations>>

-----------------------------------------------------------------------------
(* What the user asks for.                                                 *)

Operate == operations < MaxOperations /\ operations' = operations + 1

(* Stops the terminal, and goes on when the mapping is saved.              *)
Kill(k) ==
    /\ Operate
    /\ HasTerminal(k) /\ k \notin killing
    /\ \E obeyed \in BOOLEAN :
          /\ KillOutcome(TerminalOf(k), obeyed)
          /\ procs' = Killed(TerminalOf(k), obeyed)
    /\ Forgotten(k, TerminalKey(k))
    /\ sessionHistory' = Archived(k)
    /\ sessionIds' = [sessionIds EXCEPT ![k] = None]
    /\ killing' = killing \cup {k}
    /\ UNCHANGED <<trackingVars, activeAgentViewers, minted, requestVars, promptVars>>

KillSaved(k) ==
    /\ k \in killing
    /\ killing' = killing \ {k}
    /\ agentWatchers' = Silenced(k)
    /\ agentReadyState' = agentReadyState \ {k}
    /\ prompts' = Take(k)
    /\ UNCHANGED <<terminalVars, activeAgentViewers, sessionVars, requestVars, taken,
                   budgetVars>>

(* Reset and restore clear everything before they save.                    *)
StopFor(k) ==
    /\ IF HasTerminal(k)
       THEN /\ \E obeyed \in BOOLEAN :
                  /\ KillOutcome(TerminalOf(k), obeyed)
                  /\ procs' = Killed(TerminalOf(k), obeyed)
            /\ Forgotten(k, TerminalKey(k))
       ELSE Keep
    /\ agentWatchers' = Silenced(k)
    /\ agentReadyState' = agentReadyState \ {k}
    /\ prompts' = Take(k)

Reset(k) ==
    /\ Operate
    /\ minted < MaxSessions
    /\ StopFor(k)
    /\ activeAgentViewers' = activeAgentViewers \ {k}
    /\ sessionHistory' = Archived(k)
    /\ minted' = minted + 1
    /\ sessionIds' = [sessionIds EXCEPT ![k] = minted + 1]
    /\ UNCHANGED <<requestVars, killing, taken>>

Restore(k) ==
    /\ Operate
    /\ \E s \in sessionHistory[k] :
          /\ sessionHistory' = [Archived(k) EXCEPT ![k] = @ \ {s}]
          /\ sessionIds' = [sessionIds EXCEPT ![k] = s]
    /\ StopFor(k)
    /\ UNCHANGED <<activeAgentViewers, minted, requestVars, killing, taken>>

(* The renderer transfers to an office it has just created.                *)
NewOffice(k) ==
    /\ ptyProcesses[k] = None /\ agentToTerminal[k] = NoKey
    /\ sessionIds[k] = None /\ sessionHistory[k] = {}
    /\ k \notin activeAgentViewers \cup killing
    /\ \A r \in Request : req[r].key # k

Transfer(from, to) ==
    LET at == agentToTerminal[from]
    IN  /\ Operate
        /\ from # to /\ NewOffice(to)
        /\ sessionIds[from] # None
        /\ sessionIds' = [sessionIds EXCEPT ![to] = sessionIds[from]]
        /\ sessionHistory' = [sessionHistory EXCEPT ![to] = sessionHistory[from]]
        /\ IF at # NoKey /\ ptyProcesses[at] # None
           THEN /\ agentToTerminal' = [agentToTerminal EXCEPT ![to] = at]
                /\ agentReadyState' = agentReadyState
                                      \cup (IF from \in agentReadyState THEN {to} ELSE {})
                /\ activeAgentViewers' = activeAgentViewers
                                         \cup (IF from \in activeAgentViewers THEN {to, at} ELSE {})
           ELSE UNCHANGED <<agentToTerminal, agentReadyState, activeAgentViewers>>
        /\ UNCHANGED <<procs, ptyProcesses, agentWatchers, minted, requestVars, promptVars,
                       killing, killFailures>>

(* attach, activate of a terminal that runs, and detach.                   *)
Attach(k) ==
    /\ activeAgentViewers' = activeAgentViewers \cup BothKeys(k)
    /\ UNCHANGED <<terminalVars, trackingVars, sessionVars, requestVars, promptVars, killing,
                   budgetVars>>

Detach(k) ==
    /\ activeAgentViewers' = activeAgentViewers \ BothKeys(k)
    /\ UNCHANGED <<terminalVars, trackingVars, sessionVars, requestVars, promptVars, killing,
                   budgetVars>>

-----------------------------------------------------------------------------
(* What the terminals do.                                                  *)

(* The offices whose mapping follows the session of a key's terminal.      *)
OfficesOf(k) == {k} \cup {j \in Key : agentToTerminal[j] = k}

AppliedToOwner(k, s) ==         \* mutant: the offices that share it are forgotten
    /\ sessionIds' = [sessionIds EXCEPT ![k] = s]
    /\ sessionHistory' = [sessionHistory EXCEPT ![k] = (@ \cup {sessionIds[k]}) \ {s, None}]

AppliedUnpromoted(k, s) ==      \* mutant: an archived session stays archived
    LET changed == {j \in OfficesOf(k) : sessionIds[j] # s}
    IN  /\ sessionIds' = [j \in Key |-> IF j \in changed THEN s ELSE sessionIds[j]]
        /\ sessionHistory' = [j \in Key |->
              IF j \in changed THEN sessionHistory[j] \cup ({sessionIds[j]} \ {None})
                               ELSE sessionHistory[j]]

(* applyNativeBridgeSessionChange                                          *)
Applied(k, s) ==
    LET changed == {j \in OfficesOf(k) : sessionIds[j] # s}
    IN  /\ sessionIds' = [j \in Key |-> IF j \in changed THEN s ELSE sessionIds[j]]
        /\ sessionHistory' = [j \in Key |->
              IF j \in changed THEN (sessionHistory[j] \cup {sessionIds[j]}) \ {s, None}
                               ELSE sessionHistory[j]]

(* The extension registers with the session the TUI is on: the one it was  *)
(* launched with, or another one after /clear.  The first registration     *)
(* hands out the prompts; and who waited for the connection is answered.   *)
Registers(p) ==
    LET k == procs[p].key
        waiting == {r \in Request : req[r].pc = "waiting" /\ req[r].proc = p}
    IN  /\ procs[p].state = "up" /\ procs[p].open
        /\ \E s \in {procs[p].session, minted + 1} :
              /\ procs[p].linked => s > minted
              /\ s <= MaxSessions
              /\ minted' = IF s > minted THEN s ELSE minted
              /\ procs' = [procs EXCEPT ![p].linked = TRUE, ![p].session = s,
                                        ![p].signalled = @ \/ StillThere(p)]
              /\ IF StillThere(p) THEN Applied(k, s) ELSE UNCHANGED <<sessionIds, sessionHistory>>
        /\ IF StillThere(p) /\ ~procs[p].signalled
           THEN /\ agentReadyState' = agentReadyState \cup {k}
                /\ prompts' = Take(k)
                /\ taken' = Handed(prompts[k])
           ELSE UNCHANGED <<agentReadyState, promptVars>>
        /\ Answer(waiting)
        /\ recoveries' = RecoveriesAfter(waiting)
        /\ UNCHANGED <<ptyProcesses, agentToTerminal, agentWatchers, activeAgentViewers,
                       inFlightStarts, killing, budgetVars>>

LosesLink(p) ==
    /\ procs[p].linked
    /\ procs' = [procs EXCEPT ![p].linked = FALSE]
    /\ UNCHANGED <<ptyProcesses, agentToTerminal, trackingVars, activeAgentViewers, sessionVars,
                   requestVars, promptVars, killing, budgetVars>>

(* The identity guard of onExit: a newer terminal is left alone.           *)
ExitIsOf(p, k) == ptyProcesses[k] = p

(* The process is gone, on its own or after a kill, and onExit runs.       *)
Exits(p) ==
    LET k == procs[p].key
    IN  /\ procs[p].state # "gone"
        /\ procs' = [procs EXCEPT ![p].state = "gone", ![p].open = FALSE, ![p].linked = FALSE]
        /\ IF ExitIsOf(p, k)
           THEN /\ ptyProcesses' = [ptyProcesses EXCEPT ![k] = None]
                /\ activeAgentViewers' = activeAgentViewers \ {k}
                /\ agentReadyState' = agentReadyState \ {k}
                /\ prompts' = Take(k)
                /\ agentWatchers' = Silenced(k)
           ELSE UNCHANGED <<ptyProcesses, activeAgentViewers, trackingVars, prompts>>
        /\ UNCHANGED <<agentToTerminal, sessionVars, requestVars, taken, killing, budgetVars>>

-----------------------------------------------------------------------------
(* What follows a start runs before anything else does.                    *)
Settled == \A r \in Request : req[r].pc # "started"

Next ==
    \/ \E r \in Request : GoesOn(r) \/ RecoveryGoesOn(r)
    \/ /\ Settled
       /\ \/ \E k \in Key : \E kind \in Kind : Start(k, kind)
          \/ \E r \in Request : \/ Launched(r) \/ StartFails(r) \/ Delivered(r)
                                \/ WaitFails(r) \/ RecoveryWaitFails(r)
          \/ \E k \in Key : \/ Kill(k) \/ KillSaved(k) \/ Reset(k) \/ Restore(k)
                            \/ Attach(k) \/ Detach(k)
          \/ \E from, to \in Key : Transfer(from, to)
          \/ \E p \in DOMAIN procs : Registers(p) \/ LosesLink(p) \/ Exits(p)

Spec == Init /\ [][Next]_vars

-----------------------------------------------------------------------------
(* Properties.                                                             *)

(* No terminal runs unseen: a process that nobody has tried to kill is     *)
(* registered at its key, so that it can be reused, shown and killed       *)
(* (the coalescing of starts, server.ts:514-523).                          *)
NoOrphan == \A p \in DOMAIN procs : procs[p].open => StillThere(p)

(* A terminal's events are listened to for as long as it is registered:    *)
(* no teardown of an older terminal, late or not, takes away its event     *)
(* source.  A terminal registered while a kill of its key awaits its save  *)
(* is excepted: that kill takes it away (server.ts:1693-1697).             *)
EventsAreSeen ==
    \A k \in Key : LET p == ptyProcesses[k]
                   IN  p # None => agentWatchers[k] = p \/ procs[p].midKill

(* The variables have their types, and a terminal can be found and heard   *)
(* for as long as it runs.                                                 *)
NoTerminalIsLost == TypeOK /\ NoOrphan /\ EventsAreSeen

(* While the bridge is connected, every office that shows a terminal has   *)
(* the session that its TUI is on (applyNativeBridgeSessionChange).        *)
SessionsAgree ==
    \A k \in Key :
        LET p == ptyProcesses[k]
        IN  ReadyTerminal(p) => \A j \in OfficesOf(k) : sessionIds[j] = procs[p].session

(* A prompt given with a start is handed out at most once, whichever of    *)
(* the start, its sharers and the ready signal come to it first.           *)
PromptOnce == \A r \in Request : taken[r] <= 1

(* A start that finds a terminal and times out on it replaces it only if   *)
(* it is still not connected and nobody looks at it; a terminal that came  *)
(* up meanwhile, or that somebody opened, is left alone.                   *)
RecoverySparesTheUsed ==
    [][\A r \in Request : \A p \in DOMAIN procs :
          req'[r] # req[r] /\ req[r].had /\ procs[p].open /\ ~procs'[p].open
             => ~procs[p].linked /\ ~Viewed(procs[p].key)]_vars

(* Every prompt that was given with a start reaches a terminal that has    *)
(* become ready: none is left in the queue once the starts that brought    *)
(* it are over.  It does not hold, and no run checks it: a start that      *)
(* shares one which is delivering already is never served (README, 7).     *)
PromptsAreDrained ==
    \A k \in Key : LET p == TerminalOf(k)
                   IN  prompts[k] # <<>> /\ ~Coalesced(k)
                          => ~(p # None /\ procs[p].signalled)
=============================================================================
