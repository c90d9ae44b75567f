---------------------------- MODULE TeamsTransport ----------------------------
(* How TeamsService hears of messages: the Trouter socket, its registration *)
(* and reconnections, the tokens they need, and what the user is told.      *)
EXTENDS Naturals, Sequences, FiniteSets

CONSTANTS MaxSockets, MaxStarts, MaxTokens, MaxBreaks     \* bounds

VARIABLES
    started,        \* of the service
    running, ws, health, surl, heartbeat, reconnectTimer,       \* of TrouterClient
    calls,          \* of start and connect, that await something
    registering,    \* sockets whose registration is awaited
    sockets,        \* every socket there has been, and the token it was opened with
    leases,         \* sockets the registrar pushes to
    az,             \* the user is logged in
    cached, expired,        \* the last token and its age, and those that are void
    bound,          \* an agent is in Teams
    authBroken,
    told,           \* the last notice about the credential
    failed,         \* history: no token was there for an agent in Teams, and none since
    mishaps, spent

client == <<running, ws, health, surl, heartbeat, reconnectTimer, calls, registering, sockets, leases>>
tokens == <<az, cached, expired, bound, authBroken, told, failed>>
transportVars == <<started, client, tokens, mishaps, spent>>

Init == /\ started = FALSE /\ running = FALSE
        /\ ws = 0 /\ health = "disconnected" /\ surl = 0 /\ heartbeat = 0 /\ reconnectTimer = FALSE
        /\ calls = {} /\ registering = {} /\ sockets = <<>> /\ leases = {}
        /\ az \in BOOLEAN /\ cached = [number |-> 0, age |-> "none"] /\ expired = {}
        /\ bound \in BOOLEAN
        /\ authBroken = FALSE /\ told = "nothing" /\ failed = FALSE
        /\ mishaps = {} /\ spent = [starts |-> 0, calls |-> 0, breaks |-> 0]

Mishap(name, happened) == mishaps' = IF happened THEN mishaps \cup {name} ELSE mishaps
Live(i) == sockets[i].state \in {"connecting", "up"}

-----------------------------------------------------------------------------
(* getToken, for a caller that found the token had: with what the service   *)
(* makes of the outcome.                                                    *)

FromCache(had, number) ==
    /\ had.age = "valid" \/ (~az /\ had.age = "near")
    /\ number = had.number /\ UNCHANGED tokens

Acquired(had, number) ==
    /\ had.age # "valid" /\ az /\ cached.number < MaxTokens
    /\ number = cached.number + 1
    /\ cached' = [number |-> number, age |-> "valid"]
    /\ authBroken' = FALSE /\ failed' = FALSE
    /\ IF authBroken /\ told = "expired" /\ bound
       THEN told' = "restored"
       ELSE told' = IF told = "expired" THEN "unseen" ELSE told
    /\ UNCHANGED <<az, expired, bound>>

(* Nobody is told while no agent is in Teams.                               *)
(* A bug: and then not later either.                                        *)
OnlyAtFirst == bound /\ ~authBroken
Tells == bound
TokenFails(had) ==
    /\ had.age \notin {"valid", "near"} /\ ~az
    /\ authBroken' = TRUE /\ failed' = (failed \/ bound)
    /\ told' = IF Tells THEN "expired" ELSE told
    /\ UNCHANGED <<az, cached, expired, bound>>

(* A post to Teams wants a token, too.                                      *)
Posts == /\ Acquired(cached, cached.number + 1) \/ TokenFails(cached)
         /\ UNCHANGED <<started, mishaps, spent>> /\ UNCHANGED client

Ages == /\ \/ cached.age = "valid" /\ cached' = [cached EXCEPT !.age = "near"] /\ UNCHANGED expired
           \/ cached.age = "near" /\ cached' = [cached EXCEPT !.age = "expired"]
              /\ expired' = expired \cup {cached.number}
           \/ /\ UNCHANGED cached
              /\ \E n \in (1..cached.number) \ (expired \cup {cached.number}) : expired' = expired \cup {n}
        /\ UNCHANGED <<started, az, bound, authBroken, told, failed, mishaps, spent>>
        /\ UNCHANGED client

(* The user logs in or the login expires; agents come to Teams or leave it. *)
UserActs ==
    /\ spent.breaks < MaxBreaks /\ spent' = [spent EXCEPT !.breaks = @ + 1]
    /\ \/ az' = ~az /\ bound' = bound
       \/ bound' = ~bound /\ az' = az
    /\ UNCHANGED <<started, cached, expired, authBroken, told, failed, mishaps>>
    /\ UNCHANGED client

-----------------------------------------------------------------------------
(* The service starts and stops.                                            *)

Calls(by, step) ==
    /\ spent.calls < MaxSockets + MaxStarts
    /\ calls' = calls \cup {[id |-> spent.calls, by |-> by, step |-> step, had |-> cached]}

Start ==
    /\ ~started /\ spent.starts < MaxStarts
    /\ started' = TRUE
    /\ Calls("start", "load")
    /\ spent' = [spent EXCEPT !.starts = @ + 1, !.calls = @ + 1]
    /\ UNCHANGED <<running, ws, health, surl, heartbeat, reconnectTimer, registering, sockets,
                   leases, mishaps>>
    /\ UNCHANGED tokens

(* The bindings have been read; stop may have come before.                  *)
Loaded(c) ==
    /\ c.step = "load"
    /\ running' = TRUE
    /\ calls' = (calls \ {c}) \cup {[c EXCEPT !.step = "token", !.had = cached]}
    /\ UNCHANGED <<started, ws, health, surl, heartbeat, reconnectTimer, registering, sockets,
                   leases, mishaps, spent>>
    /\ UNCHANGED tokens

(* A bug: the timer that would connect again goes on.                       *)
TimerGoesOn == reconnectTimer
NoTimer == FALSE
Stop ==
    /\ started /\ started' = FALSE /\ running' = FALSE
    /\ heartbeat' = 0 /\ reconnectTimer' = NoTimer
    /\ ws' = 0 /\ health' = "disconnected"
    /\ sockets' = IF ws # 0 /\ Live(ws) THEN [sockets EXCEPT ![ws].state = "closing"] ELSE sockets
    /\ Mishap("stopped while connecting", calls # {})
    /\ UNCHANGED <<surl, calls, registering, leases, spent>> /\ UNCHANGED tokens

-----------------------------------------------------------------------------
(* connect, when its token has come; it does not ask whether the client     *)
(* still runs.  Without one the call ends, and nobody tries again.          *)

Connects(c) ==
    /\ c.step = "token" /\ calls' = calls \ {c}
    /\ UNCHANGED <<started, running, health, surl, heartbeat, reconnectTimer, registering, leases, spent>>
    /\ \/ /\ Len(sockets) < MaxSockets
          /\ \E n \in 1..MaxTokens :
                /\ FromCache(c.had, n) \/ Acquired(c.had, n)
                /\ sockets' = Append(sockets, [state |-> "connecting", token |-> n])
          /\ ws' = Len(sockets')
          /\ UNCHANGED mishaps
       \/ /\ TokenFails(c.had)
          /\ Mishap("no token", TRUE)
          /\ UNCHANGED <<ws, sockets>>

(* trouter.connected; the client authenticates on its latest socket only.   *)
Up(i) ==
    /\ i = ws /\ sockets[i].state = "connecting"
    /\ sockets[i].token \notin expired
    /\ sockets' = [sockets EXCEPT ![i].state = "up"]
    /\ surl' = i /\ health' = "connected" /\ registering' = registering \cup {i}
    /\ UNCHANGED <<started, running, ws, heartbeat, reconnectTimer, calls, leases, mishaps, spent>>
    /\ UNCHANGED tokens

(* register, and startHeartbeat: which clears the timers, also that of a    *)
(* reconnection that was scheduled meanwhile.                               *)
(* A bug: it starts no heartbeat.                                           *)
NoHeartbeat(i) == 0
Heartbeat(i) == sockets[i].token
Pushed == IF sockets[surl].state = "up" THEN {surl} ELSE {}
Registered(i) ==
    /\ i \in registering /\ registering' = registering \ {i}
    /\ heartbeat' = Heartbeat(i) /\ reconnectTimer' = FALSE
    /\ IF sockets[i].token \in expired THEN UNCHANGED leases ELSE leases' = leases \cup Pushed
    /\ mishaps' = mishaps \cup (IF sockets[i].state # "up" THEN {"closed while registering"} ELSE {})
                          \cup (IF sockets[i].token \in expired THEN {"old token"} ELSE {})
    /\ UNCHANGED <<started, running, ws, health, surl, calls, sockets, spent>>
    /\ UNCHANGED tokens

(* Every 45 minutes, with the token the socket was opened with; otherwise   *)
(* the registration ends after an hour.                                     *)
LeaseEnds(i) ==
    /\ i \in leases /\ (heartbeat = 0 \/ heartbeat \in expired)
    /\ leases' = leases \ {i}
    /\ Mishap("old token", heartbeat \in expired)
    /\ UNCHANGED <<started, running, ws, health, surl, heartbeat, reconnectTimer, calls,
                   registering, sockets, spent>>
    /\ UNCHANGED tokens

Errs(i) ==
    /\ sockets[i].state # "closed" /\ health' = "error"
    /\ sockets' = [sockets EXCEPT ![i].state = "closing"]
    /\ UNCHANGED <<started, running, ws, surl, heartbeat, reconnectTimer, calls, registering,
                   leases, mishaps, spent>>
    /\ UNCHANGED tokens

(* close: whichever socket it was of.                                       *)
(* A bug: no new connection if there was an error.                          *)
UnlessError == running /\ health # "error"
Reconnects == running
Closes(i) ==
    /\ sockets[i].state # "closed"
    /\ sockets' = [sockets EXCEPT ![i].state = "closed"]
    /\ leases' = leases \ {i}
    /\ health' = "disconnected" /\ heartbeat' = 0 /\ reconnectTimer' = Reconnects
    /\ Mishap("closed after the next", i # ws /\ running)
    /\ UNCHANGED <<started, running, ws, surl, calls, registering, spent>>
    /\ UNCHANGED tokens

ReconnectFires ==
    /\ reconnectTimer /\ reconnectTimer' = FALSE
    /\ running
    /\ Calls("reconnect", "token") /\ spent' = [spent EXCEPT !.calls = @ + 1]
    /\ UNCHANGED <<started, running, ws, health, surl, heartbeat, registering, sockets, leases, mishaps>>
    /\ UNCHANGED tokens

Next == \/ Posts \/ Ages \/ UserActs \/ Start \/ Stop \/ ReconnectFires
        \/ \E c \in calls : Loaded(c) \/ Connects(c)
        \/ \E i \in DOMAIN sockets : Up(i) \/ Registered(i) \/ LeaseEnds(i) \/ Errs(i) \/ Closes(i)
Spec == Init /\ [][Next]_transportVars

-----------------------------------------------------------------------------
(* The variables have their types.                                          *)
TypeOK ==
    /\ {started, running, reconnectTimer, az, bound, authBroken, failed} \subseteq BOOLEAN
    /\ health \in {"connected", "disconnected", "error"}
    /\ told \in {"nothing", "expired", "restored", "unseen"}
    /\ {ws, surl} \cup registering \cup leases \subseteq 0..Len(sockets)
    /\ heartbeat \in 0..MaxTokens /\ expired \subseteq 1..cached.number
    /\ \A i \in DOMAIN sockets : sockets[i].state \in {"connecting", "up", "closing", "closed"}

(* As long as the client runs it has a socket, or one to come: whatever     *)
(* closed, and whoever stopped and started it.  Unless there was no token   *)
(* when it connected, or the socket closed while it was being registered:   *)
(* then nobody tries again.                                                 *)
ReceivesOrRetries ==
    (running /\ mishaps \cap {"no token", "closed while registering"} = {}) =>
        \/ reconnectTimer \/ \E c \in calls : c.step = "token"
        \/ \E i \in DOMAIN sockets : Live(i) \/ sockets[i].state = "closing"

(* A client that was stopped hears nothing, and one that runs hears on one  *)
(* socket; unless it was stopped while it connected, or started again       *)
(* before its last socket closed.                                           *)
HearsOnOne ==
    mishaps \cap {"stopped while connecting", "closed after the next"} = {} =>
        LET live == {i \in DOMAIN sockets : Live(i)}
        IN /\ Cardinality(live) <= 1
           /\ ~started => live = {} /\ ~reconnectTimer

(* A client that says it is connected is pushed what is said in Teams.      *)
ConnectedHears ==
    (health = "connected" /\ mishaps \subseteq {"no token"}) =>
        ((ws # 0 /\ Live(ws)) => ws \in leases \cup registering)

(* A credential that failed an agent in Teams has been told, and is no      *)
(* longer on the screen as broken when one has been got since.              *)
CredentialIsTold == (failed => told = "expired") /\ (told = "expired" => authBroken)
=============================================================================
