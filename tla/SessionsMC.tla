----------------------------- MODULE SessionsMC -----------------------------
(* The sessions of the terminal server (TerminalSessions) and what passes  *)
(* between an agent and its thread, for TLC: what it asks of the user      *)
(* (ThreadInteractions), how a reply there is read, how its own replies    *)
(* are posted, and where (OutboundRouting; this module takes over the      *)
(* names of the three).  One of them moves in each behaviour.              *)
EXTENDS TerminalSessions, ThreadInteractions, OutboundRouting, TLC

(* Of the sessions: the scope, chosen in the initial state, says who asks  *)
(* for starts and what happens besides.                                    *)
CONSTANT StartScopes    \* the scopes of the run

VARIABLE startScope

CONSTANTS home, fleet

(* Starts that share, reuse, time out and are repaired; and fewer of them, *)
(* with viewers that come and go.                                          *)
Starts == [kinds |-> {"prompt", "activate", "ensure", "launch"}, keys |-> {home},
           requests |-> 4, terminals |-> 3, sessions |-> 1, ops |-> {}, operations |-> 0,
           viewers |-> FALSE, killFailures |-> 0]
Watched == [Starts EXCEPT !.requests = 3, !.viewers = TRUE]

(* What the user does to a terminal, while starts are under way; and with  *)
(* prompts to hand out and a kill that fails.                              *)
Operations == [kinds |-> {"ensure"}, keys |-> {home}, requests |-> 3,
               terminals |-> 3, sessions |-> 2, ops |-> {"kill", "reset", "restore"},
               operations |-> 2, viewers |-> FALSE, killFailures |-> 0]
Failing == [Operations EXCEPT !.kinds = {"prompt", "ensure"}, !.requests = 2, !.killFailures = 1]

(* A terminal that two offices show.                                       *)
Transfers == [kinds |-> {"plain", "ensure"}, keys |-> {home, fleet}, requests |-> 2,
              terminals |-> 2, sessions |-> 2, ops |-> {"transfer", "kill"},
              operations |-> 2, viewers |-> FALSE, killFailures |-> 0]

AllStartScopes == {Starts, Watched, Operations, Failing, Transfers}

InStartScope ==
    /\ \A r \in Request : req'[r].pc \notin {"none", "answered"} =>
          req'[r].kind \in startScope.kinds /\ req'[r].key \in startScope.keys
    /\ \A r \in Request : r > startScope.requests => req'[r].pc = "none"
    /\ Len(procs') <= startScope.terminals
    /\ minted' <= startScope.sessions
    /\ operations' <= startScope.operations
    /\ killFailures' <= startScope.killFailures
StartsInit == Init /\ startScope \in StartScopes
Within(A) == A /\ InStartScope /\ UNCHANGED startScope
StartsNext ==
    \/ \E r \in Request : Within(GoesOn(r)) \/ Within(RecoveryGoesOn(r))
    \/ /\ Settled
       /\ \/ \E k \in startScope.keys : \E why \in startScope.kinds : Within(Start(k, why))
          \/ \E r \in Request : \/ Within(Launched(r)) \/ Within(StartFails(r))
                                \/ Within(Delivered(r))
                                \/ Within(WaitFails(r)) \/ Within(RecoveryWaitFails(r))
          \/ \E k \in Key :
                \/ Within("kill" \in startScope.ops /\ Kill(k)) \/ Within(KillSaved(k))
                \/ Within("reset" \in startScope.ops /\ Reset(k))
                \/ Within("restore" \in startScope.ops /\ Restore(k))
                \/ Within(startScope.viewers /\ Attach(k)) \/ Within(startScope.viewers /\ Detach(k))
          \/ \E from, to \in Key : Within("transfer" \in startScope.ops /\ Transfer(from, to))
          \/ \E p \in DOMAIN procs :
                \/ Within(Registers(p)) \/ Within(LosesLink(p)) \/ Within(Exits(p))

-----------------------------------------------------------------------------
(* What the agent asks: the scope, chosen in the initial state, bounds     *)
(* what happens besides replies.                                           *)
CONSTANT Scope      \* the names of the run's scopes

VARIABLE scope

Kinds == {"question", "plan", "form"}

Bounds == [
    (* Whose answer comes first. *)
    races |-> [kinds |-> Kinds, asks |-> 3, replies |-> 2, app |-> 1, timeouts |-> 0,
               failures |-> 0, offlines |-> 0, resets |-> 0],
    (* Submissions that time out or do not arrive, and are repeated. *)
    retries |-> [kinds |-> {"question", "form"}, asks |-> 2, replies |-> 3, app |-> 2,
                 timeouts |-> 1, failures |-> 1, offlines |-> 0, resets |-> 0],
    (* Disconnections and resets. *)
    losses |-> [kinds |-> Kinds, asks |-> 2, replies |-> 2, app |-> 1, timeouts |-> 0,
                failures |-> 0, offlines |-> 1, resets |-> 1]]

bound == Bounds[scope]

InScope ==
    /\ \A i \in DOMAIN kind' : kind'[i] \in bound.kinds
    /\ Len(kind') <= bound.asks
    /\ Len(replies') <= bound.replies
    /\ Cardinality({i \in DOMAIN outcome' : outcome'[i] = "app"}) <= bound.app
    /\ timeouts' <= bound.timeouts
    /\ failures' <= bound.failures
    /\ offlines' <= bound.offlines
    /\ resets' <= bound.resets

Scoped(A) == A /\ InScope /\ UNCHANGED scope

ScopedNext ==
    \/ \E k \in AskKind : Scoped(Raise(k))
    \/ \E i \in Ask :
          \/ Scoped(i \in Raised /\ AnswerInApp(i))
          \/ Scoped(i \in Raised /\ Complete(i))
          \/ Scoped(i \in Raised /\ PlanBodyPosted(i))
    \/ Scoped(ExtensionReceives) \/ Scoped(Undeliverable) \/ Scoped(SlashNew)
    \/ Scoped(MainReceives) \/ \E n \in 1..MaxReplies : Scoped(RequestTimesOut(n))
    \/ Scoped(Reply) \/ Scoped(GoOffline) \/ Scoped(GoOfflineGoesOn)
    \/ Scoped(GoOfflineEnds) \/ Scoped(Reconnect)

ScopedInit == TIInit /\ scope \in Scope

-----------------------------------------------------------------------------
(* What passes between an agent and its thread.                            *)
CONSTANTS
    Moving,     \* those that may move
    MaxWrites,  \* bound: renders and writes that fail
    MaxRead,    \* bound: replies that are read
    MaxCrashes, MaxPrompts, MaxRedraws, MaxConnections,   \* bounds of the launches
    MaxEvents, MaxControls, MaxSwitches,    \* bounds of the messages
    MaxIds, MaxSteps    \* bounds of the records

VARIABLE moving
VARIABLES reply, flush, todo, child, available, lane, uploads, folder, thread, hurt, writes
VARIABLES pending, meant, broken, read, heard
VARIABLES preferred, stage, loaded, reasons, extension, temporary, endpoint, broker, credentials,
          processes, pty, wrapper, killSucceeded, told, failed, screen, buffer, armed, confirming,
          rearming, approved, crashes, shown, redraws, connections
VARIABLES phase, known, data, disk, old, saves, writing, lastId, steps, falls, losses, kept, named,
          transferred, reported, dirty
VARIABLES sent, arrived, held, destroyed, control, answer, model, compacted, lacks, controls, switches,
          done

-----------------------------------------------------------------------------
(* Replies that are posted: two long ones that may be replaced with a      *)
(* picture, one of them with a file, one whose markers name a file twice,  *)
(* files of another directory, too large and missing, and what is no       *)
(* image, and one that is nothing but such a marker.                       *)
Drafted(text, images, files, structured) ==
    [text |-> text, images |-> images, files |-> files, structured |-> structured]
Long == <<"x", "n", "x", "x", "n", "n", "x", "x", "x", "x">>
Drafts ==
    {Drafted(Long, <<>>, <<>>, TRUE), Drafted(Long, <<>>, <<"data">>, TRUE),
     Drafted(<<"x">>, <<"chart", "chart", "out", "huge", "photo", "notes", "logo">>,
             <<"data", "gone", "photo", "big", "logo">>, FALSE),
     Drafted(<<>>, <<"notes">>, <<>>, FALSE)}
Paths == {"chart", "photo", "logo", "out", "huge", "notes", "data", "gone", "big"}
Sizes == [p \in Paths |-> CASE p = "huge" -> 9 [] p \in {"photo", "big"} -> 2 [] OTHER -> 1]

posts == INSTANCE ReplyPosting WITH
    Turn <- {1, 2}, Reply <- Drafts, Path <- Paths, Outside <- {"out"}, Missing <- {"gone"},
    NoImage <- {"notes"}, Size <- Sizes, MaxCount <- 3, MaxBytes <- 2, MaxTotalBytes <- 4, Limit <- 3,
    MaxFailures <- MaxWrites, failures <- writes

-----------------------------------------------------------------------------
(* Replies that are read, with two letters that label options: questions   *)
(* with more options than letters, a plan, an approval, a question nobody  *)
(* tracks any more, and forms of one field and of several.                 *)
Asked(what, options, freeform, fields) ==
    [kind |-> what, tracked |-> TRUE, options |-> options, freeform |-> freeform, fields |-> fields]
Field(what, options, required) == [kind |-> what, options |-> options, required |-> required]
ToAnswer ==
    {Asked("question", 7, FALSE, <<>>), Asked("question", 3, TRUE, <<>>), Asked("plan", 4, TRUE, <<>>),
     Asked("approval", 0, FALSE, <<>>), [Asked("question", 2, TRUE, <<>>) EXCEPT !.tracked = FALSE],
     Asked("form", 0, FALSE, <<Field("text", 0, FALSE)>>),
     Asked("form", 0, FALSE, <<Field("multiselect", 0, TRUE)>>),
     Asked("form", 0, FALSE, <<Field("select", 3, FALSE), Field("boolean", 0, FALSE),
                               Field("text", 0, FALSE), Field("multiselect", 3, TRUE)>>),
     Asked("form", 0, FALSE, <<Field("text", 0, FALSE), Field("number", 0, FALSE),
                               Field("select", 2, FALSE), Field("number", 0, FALSE)>>)}

reads == INSTANCE ThreadReplies WITH
    Base <- 2, Interaction <- ToAnswer, Say <- {<<<<<<1>>, <<9>>>>>>, <<<<<<9>>>>, <<<<1>>, <<2>>>>>>},
    MaxReplies <- MaxRead, replies <- heard

-----------------------------------------------------------------------------
(* Configurations between two channels, with and without a Dump channel.   *)
Files(default, overrides, dump, mention) ==
    [default |-> default, overrides |-> overrides, dump |-> dump, mention |-> mention]
Configs == {Files("one", {}, "two", TRUE), Files("two", {"one"}, "none", FALSE),
            Files("none", {"two"}, "one", TRUE), Files("one", {"two"}, "two", FALSE)}

-----------------------------------------------------------------------------
(* Two TUIs; prompts are shown in the first, while there is no second.     *)
launches == INSTANCE BackendLaunch WITH
    Preferred <- {"ui-server", "native-bridge", "sdk", "node-pty"}, Launch <- {1, 2}, prompts <- shown

(* Events that fit, that fit when they are shortened and that do not:      *)
(* with a text, a long identity, a question, a plan, a form.               *)
Parts(what, escapes, identity, text, asked, choices, plan, fields) ==
    [kind |-> what, escapes |-> escapes, identity |-> identity, text |-> text, asked |-> asked,
     choices |-> choices, plan |-> plan, fields |-> fields]
Events ==
    {Parts("text", 1, 1, 2, 0, 0, 0, 0), Parts("text", 1, 1, 6, 0, 0, 0, 0),
     Parts("text", 2, 1, 20, 0, 0, 0, 0), Parts("text", 1, 12, 1, 0, 0, 0, 0),
     Parts("question", 1, 1, 0, 9, 9, 0, 0), Parts("question", 2, 1, 0, 9, 9, 0, 0),
     Parts("plan", 1, 1, 0, 0, 0, 9, 0), Parts("form", 1, 1, 0, 0, 0, 0, 9)}

messages == INSTANCE BridgeMessages WITH
    Event <- Events, MaxMessage <- 8, TextMax <- 6, QuestionMax <- 2, ChoicesMax <- 4, PlanMax <- 4,
    Chunk <- 3, Model <- {"a", "b"}, Lacks <- SUBSET {"compact", "usage", "model", "switch"},
    reply <- answer, taken <- arrived

-----------------------------------------------------------------------------
(* The records of two agents in two offices, found in the old format, with *)
(* a duplicate, or not at all.  Either they change while nothing is being  *)
(* written, or titles and offices change while writes overlap and fail and *)
(* the server crashes.                                                     *)
Has(x, y) == [a \in {"one", "two"} |-> IF a = "one" THEN x ELSE y]
Recorded(current) ==
    [current |-> current, history |-> Has({}, {}), title |-> Has("none", "none")]
FoundFile(what, current) == [file |-> what, is |-> Recorded(current)]
Nowhere == FoundFile("none", Has(0, 0))

records == INSTANCE SessionRecords WITH
    Office <- {"home", "fleet"}, Agent <- {"one", "two"}, First <- "home",
    Title <- {"title"}, NoTitle <- "none", MinIds <- 2, MaxOps <- MaxSteps,
    OldFiles <- {[old |-> Nowhere, first |-> Nowhere],
                 [old |-> FoundFile("flat", Has(1, 2)), first |-> Nowhere],
                 [old |-> FoundFile("flat", Has(2, 2)), first |-> FoundFile("whole", Has(1, 0))],
                 [old |-> Nowhere, first |-> FoundFile("whole", Has(1, 1))]},
    stage <- phase, minted <- lastId, ops <- steps, crashes <- falls, failures <- losses

Calm == \A o \in DOMAIN saves : saves[o] = 0 /\ writing[o] = {}
Records ==
    /\ records!Next
    /\ moving = "records" => falls' = 0 /\ losses' = 0 /\ (steps' # steps => Calm)
    /\ moving = "files" =>
        /\ steps' < MaxSteps - 1
        /\ steps' # steps => known' # known \/ \E o \in known : data'[o].title # data[o].title

-----------------------------------------------------------------------------
startVars == <<vars, startScope>>
threadVars == <<tiVars, scope>>
postVars == <<reply, flush, todo, child, available, lane, uploads, folder, thread, hurt, writes>>
readVars == <<pending, meant, broken, read, heard>>
launchVars == <<preferred, stage, loaded, reasons, extension, temporary, endpoint, broker, credentials,
                processes, pty, wrapper, killSucceeded, told, failed, screen, buffer, armed,
                confirming, rearming, approved, crashes, shown, redraws, connections>>
recordVars == <<phase, known, data, disk, old, saves, writing, lastId, steps, falls, losses, kept,
                named, transferred, reported, dirty>>
messageVars == <<sent, arrived, held, destroyed, control, answer, model, compacted, lacks, controls,
                 switches, done>>

SessionsInit ==
    /\ moving \in Moving
    /\ StartsInit /\ (moving # "sessions" => startScope = Transfers)
    /\ ScopedInit /\ (moving # "threads" => scope = "races")
    /\ posts!Init
    /\ reads!Init /\ (moving # "reads" => pending.kind = "approval")
    /\ RoutingInit /\ (moving # "routes" => config = Files("one", {}, "two", TRUE))
    /\ launches!Init /\ (moving # "launches" => preferred = "sdk" /\ extension = "current")
    /\ records!Init /\ (moving \notin {"records", "files"} => old = Nowhere /\ disk["home"] = Nowhere)
    /\ messages!Init /\ (moving # "controls" => lacks = {} /\ model = "a")

(* One TUI that asks for consent, or two that come and go. *)
Launches ==
    /\ launches!Next
    /\ pty' # pty => preferred = "native-bridge" /\ crashes = 0
    /\ shown' > 0 => wrapper'[2] = "none"

SessionsNext ==
    /\ UNCHANGED moving
    /\ \/ moving = "sessions" /\ StartsNext
       \/ moving = "threads" /\ ScopedNext
       \/ moving = "posts" /\ posts!Next
       \/ moving = "reads" /\ reads!Next
       \/ moving = "routes" /\ RoutingNext
       \/ moving = "launches" /\ Launches
       \/ moving \in {"records", "files"} /\ Records
       \/ moving = "messages" /\ messages!Next /\ control' = control /\ model' = model
       \/ moving = "controls" /\ messages!Next /\ sent' = sent
    /\ IF moving = "sessions" THEN TRUE ELSE UNCHANGED startVars
    /\ IF moving = "threads" THEN TRUE ELSE UNCHANGED threadVars
    /\ IF moving = "posts" THEN TRUE ELSE UNCHANGED postVars
    /\ IF moving = "reads" THEN TRUE ELSE UNCHANGED readVars
    /\ IF moving = "routes" THEN TRUE ELSE UNCHANGED routingVars
    /\ IF moving = "launches" THEN TRUE ELSE UNCHANGED launchVars
    /\ IF moving \in {"records", "files"} THEN TRUE ELSE UNCHANGED recordVars
    /\ IF moving \in {"messages", "controls"} THEN TRUE ELSE UNCHANGED messageVars

SessionsSpec ==
    SessionsInit /\ [][SessionsNext]_<<moving, startVars, threadVars, postVars, readVars, routingVars,
                                      launchVars, recordVars, messageVars>>

(* What is said in a thread arrives as it was meant: an agent's reply is   *)
(* posted whole and once, as a picture or as text, images and files, and   *)
(* a user's reply chooses, decides and fills in what its author meant.     *)
RepliesArriveAsMeant == /\ moving = "posts" => posts!RepliesAreWhole
                        /\ moving = "reads" => reads!RepliesAreReadAsMeant

(* The terminal server comes up with a back end that may be used, answers  *)
(* its own consent prompts and no others, and leaves no credentials,       *)
(* sockets or processes behind; what the TUI reports gets through, and a   *)
(* control command did what is reported of it; and the sessions that an    *)
(* agent had stay on record, with their titles, on disk as in memory.      *)
ServerIsInOrder ==
    /\ moving = "launches" =>
          /\ launches!TypeOK /\ launches!BackEndIsAsTold /\ launches!NothingIsLeft
          /\ launches!KillsAreTold /\ launches!ConsentIsOurs
    /\ moving \in {"messages", "controls"} =>
          messages!TypeOK /\ messages!EventsGetThrough /\ messages!ControlsAreTrue
    /\ moving \in {"records", "files"} =>
          /\ records!TypeOK /\ records!SessionsAreKept /\ records!SessionsAreApart
          /\ records!TitlesFollow /\ records!DiskIsCurrent

(* SC-006, "No regression in the existing Teams reply flow: [...]          *)
(* office-file attachments": the files of a reply are attached, whatever   *)
(* else becomes of it.                                                     *)
FilesAreAttached == posts!FilesAreAttached
=============================================================================
