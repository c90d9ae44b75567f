--------------------------- MODULE SessionRecords ---------------------------
(* What the terminal server remembers of the sessions of each office: the  *)
(* current session of every agent, those it had before with the titles     *)
(* they had, and the file in which this is kept, which is written anew     *)
(* after every change, migrated from an older format, loaded at the start  *)
(* and repaired.  The processes that run the sessions are                  *)
(* TerminalSessions'.  What the TUI reports is external.                   *)
EXTENDS Naturals, FiniteSets

CONSTANTS
    Office, Agent,
    First,          \* the office that inherits the old global file
    Title, NoTitle,
    OldFiles,       \* what the server may find: an old global file, and First's
    MinIds,         \* the ids in them are 1..MinIds
    MaxIds, MaxOps, MaxCrashes, MaxFailures     \* bounds

VARIABLES
    stage,          \* "down", "copying", "copied", "loading" or "up"
    known,          \* offices that the renderer has
    data,           \* officeSessions
    disk,           \* the file of each office
    old,            \* the old global file
    saves,          \* calls of saveOfficeSessionFile that have not read the data yet
    writing,        \* what those that have are writing
    minted,         \* ids that exist are 1..minted
    ops, crashes, failures

VARIABLES
    kept,           \* history: sessions of each agent that nobody asked to forget
    named,          \* history: the title last given to a session of an agent
    transferred,    \* history: agents whose record was copied over the one they had
    reported,       \* history: ids that a TUI reported although another agent has them
    dirty           \* history: offices whose file two writes, or a failed one, may have spoilt

dataVars == <<known, data, minted, kept, named, transferred, reported>>
fileVars == <<disk, old, writing, dirty, failures>>
vars == <<stage, dataVars, fileVars, saves, ops, crashes>>

Id == 1..MaxIds
NoId == 0
Untitled == [i \in Id |-> NoTitle]
Record(current, history, title) == [current |-> current, history |-> history, title |-> title]
Empty == Record([a \in Agent |-> NoId], [a \in Agent |-> {}], [a \in Agent |-> NoTitle])
NoFile == [file |-> "none", is |-> Empty]
Torn == [file |-> "torn", is |-> Empty]
Whole(r) == [file |-> "whole", is |-> r]
Flat(current) == [file |-> "flat", is |-> [Empty EXCEPT !.current = current]]

Ids(entries) == {e.id : e \in entries}

Init ==
    /\ stage = "down" /\ known = {First}
    /\ data = [o \in Office |-> Empty]
    /\ \E f \in OldFiles :
          /\ old = f.old
          /\ disk = [o \in Office |-> IF o = First THEN f.first ELSE NoFile]
    /\ saves = [o \in Office |-> 0] /\ writing = [o \in Office |-> {}]
    /\ minted = MinIds /\ ops = 0 /\ crashes = 0 /\ failures = 0
    /\ kept = [o \in Office |-> [a \in Agent |-> {}]]
    /\ named = [o \in Office |-> [a \in Agent |-> Untitled]]
    /\ transferred = {} /\ reported = {} /\ dirty = {}

-----------------------------------------------------------------------------
(* The start: the old global file becomes First's unless it has one, and   *)
(* is put aside; then every file is loaded, and what is in the older       *)
(* format, or was repaired, is saved.                                      *)
Migrate ==
    /\ stage = "down"
    /\ IF old = NoFile THEN stage' = "loading" /\ UNCHANGED disk
       ELSE IF disk[First] = NoFile THEN stage' = "copying" /\ disk' = [disk EXCEPT ![First] = Torn]
       ELSE stage' = "copied" /\ UNCHANGED disk
    /\ UNCHANGED <<dataVars, old, writing, dirty, failures, saves, ops, crashes>>

(* The copy ends, or fails: then the old file stays, as does what was      *)
(* written.                                                                *)
CopyEnds ==
    /\ stage = "copying"
    /\ \/ stage' = "copied" /\ disk' = [disk EXCEPT ![First] = old] /\ UNCHANGED <<dirty, failures>>
       \/ /\ failures < MaxFailures /\ failures' = failures + 1
          /\ stage' = "loading" /\ dirty' = dirty \cup {First} /\ UNCHANGED disk
    /\ UNCHANGED <<dataVars, old, writing, saves, ops, crashes>>

PutAside ==
    /\ stage = "copied" /\ stage' = "loading" /\ old' = NoFile
    /\ UNCHANGED <<dataVars, disk, writing, dirty, failures, saves, ops, crashes>>

(* repairDuplicateSessionIds: of the agents that have one id, all but one  *)
(* get fresh ones.                                                         *)
Doubles(current) ==
    {a \in Agent : current[a] # NoId /\ \E b \in Agent \ {a} : current[b] = current[a]}

(* (A bug: duplicates are left.) *)
LeftAsFound(current) == {current}
Repaired(current) ==
    {r \in [Agent -> {NoId} \cup 1..minted'] :
        /\ \A a \in Agent \ Doubles(current) : r[a] = current[a]
        /\ \A a \in Doubles(current) :
              /\ r[a] = current[a] \/ r[a] > minted
              /\ \E b \in Agent : current[b] = current[a] /\ r[b] = current[a]
              /\ \A b \in Agent \ {a} : r[b] # r[a]}

(* What a record holds is what is to be kept of it.                        *)
KeptBy(r) == [a \in Agent |-> Ids(r.history[a]) \cup ({r.current[a]} \ {NoId})]
NamedBy(r) ==
    [a \in Agent |-> [i \in Id |->
        IF i = r.current[a] THEN r.title[a]
        ELSE IF i \in Ids(r.history[a]) THEN (CHOOSE e \in r.history[a] : e.id = i).title
        ELSE NoTitle]]
Twice(r) == {a \in Agent : r.current[a] \in Ids(r.history[a])}

(* What cannot be read leaves nothing.                                     *)
LoadAll ==
    /\ stage = "loading" /\ stage' = "up"
    /\ LET double(o) == Doubles(disk[o].is.current)
           fresh(o) == Cardinality(double(o)) - Cardinality({disk[o].is.current[a] : a \in double(o)})
       IN /\ \E o \in Office :
                /\ \A p \in Office \ {o} : double(p) = {}
                /\ minted' = minted + fresh(o) /\ minted' <= MaxIds
                /\ \E current \in Repaired(disk[o].is.current) :
                      data' = [p \in Office |-> IF p = o THEN [disk[o].is EXCEPT !.current = current]
                                                ELSE disk[p].is]
          /\ saves' = [o \in Office |->
                IF disk[o].file = "flat" \/ data'[o] # disk[o].is THEN 1 ELSE 0]
    /\ known' = known \cup {o \in Office : disk[o] # NoFile}
    /\ kept' = [o \in Office |-> KeptBy(data'[o])]
    /\ named' = [o \in Office |-> NamedBy(data'[o])]
    /\ transferred' = {oa \in Office \X Agent : oa[2] \in Twice(data'[oa[1]])}
    /\ reported' = {}
    /\ dirty' = dirty \cup {o \in Office : disk[o].file = "torn"}
    /\ UNCHANGED <<disk, old, writing, failures, ops, crashes>>

-----------------------------------------------------------------------------
(* saveOfficeSessionFile: the directory is made, the data is read, and the *)
(* file is truncated and written; of two writes at once, either may end    *)
(* last, and their bytes may mix.                                          *)
StartWrite(o) ==
    /\ stage = "up" /\ saves[o] > 0
    /\ saves' = [saves EXCEPT ![o] = @ - 1]
    /\ writing' = [writing EXCEPT ![o] = @ \cup {data[o]}]
    /\ disk' = [disk EXCEPT ![o] = Torn]
    /\ dirty' = IF writing[o] # {} THEN dirty \cup {o} ELSE dirty \ {o}
    /\ UNCHANGED <<stage, dataVars, old, failures, ops, crashes>>

EndWrite(o) ==
    /\ stage = "up"
    /\ \E r \in writing[o] :
          /\ writing' = [writing EXCEPT ![o] = @ \ {r}]
          /\ \/ disk' = [disk EXCEPT ![o] = Whole(r)] /\ UNCHANGED <<dirty, failures>>
             \/ o \in dirty \cup (Office \ known) /\ UNCHANGED <<disk, dirty, failures>>
             \/ /\ failures < MaxFailures /\ failures' = failures + 1
                /\ dirty' = dirty \cup {o} /\ UNCHANGED disk
    /\ UNCHANGED <<stage, dataVars, old, saves, ops, crashes>>

Crash ==
    /\ stage # "down" /\ crashes < MaxCrashes
    /\ crashes' = crashes + 1 /\ stage' = "down"
    /\ data' = [o \in Office |-> Empty]
    /\ kept' = [o \in Office |-> [a \in Agent |-> {}]]
    /\ saves' = [o \in Office |-> 0] /\ writing' = [o \in Office |-> {}]
    /\ dirty' = {o \in Office : disk[o].file = "torn"}
    /\ UNCHANGED <<known, minted, named, transferred, reported, disk, old, failures, ops>>

-----------------------------------------------------------------------------
(* The operations, each followed by a save.                                *)
Operates(o) == stage = "up" /\ o \in known /\ ops < MaxOps /\ ops' = ops + 1

(* (A bug: the change is not saved.) *)
Unsaved(o) == saves
Saved(o) == [saves EXCEPT ![o] = @ + 1]

Stores(o, record) == data' = [data EXCEPT ![o] = record] /\ saves' = Saved(o)
KeepsFiles == UNCHANGED <<stage, fileVars, crashes>>

Fresh == minted + 1
Mints == minted < MaxIds /\ minted' = Fresh

(* pushArchivedEntry: an id that is there already keeps the title it has.  *)
Archived(r, a) ==
    IF r.current[a] = NoId \/ r.current[a] \in Ids(r.history[a]) THEN r.history[a]
    ELSE r.history[a] \cup {[id |-> r.current[a], title |-> r.title[a]]}

Keeps(o, a, i) == kept' = [kept EXCEPT ![o][a] = @ \cup {i}]
Names(o, a, i, t) == named' = [named EXCEPT ![o][a][i] = t]

(* startTerminalForAgentImpl: an agent without a session gets one.         *)
Mint(o, a) ==
    /\ Operates(o) /\ data[o].current[a] = NoId /\ Mints
    /\ Stores(o, [data[o] EXCEPT !.current[a] = Fresh])
    /\ Keeps(o, a, Fresh) /\ Names(o, a, Fresh, data[o].title[a])
    /\ KeepsFiles /\ UNCHANGED <<known, transferred, reported>>

(* (A bug: the title is cleared before it is archived with its session.) *)
ClearedFirst(r, a) == Archived([r EXCEPT !.title[a] = NoTitle], a)
(* (A bug: the session that is reset is not archived.) *)
Dropped(r, a) == r.history[a]
Retired(r, a) == Archived(r, a)

(* reset-session. *)
Reset(o, a) ==
    /\ Operates(o) /\ Mints
    /\ Stores(o, [data[o] EXCEPT !.current[a] = Fresh, !.title[a] = NoTitle,
                                 !.history[a] = Retired(data[o], a)])
    /\ Keeps(o, a, Fresh) /\ Names(o, a, Fresh, NoTitle)
    /\ KeepsFiles /\ UNCHANGED <<known, transferred, reported>>

(* The session becomes the current one again, and leaves the history with  *)
(* the title that it has there; a new one has none.                        *)
Promoted(r, a, i) ==
    LET history == Archived(r, a)
        entries == {e \in history : e.id = i}
    IN [r EXCEPT !.current[a] = i, !.history[a] = history \ entries,
                 !.title[a] = IF entries = {} THEN NoTitle ELSE (CHOOSE e \in entries : TRUE).title]

(* (A bug: a session of another agent may be restored.) *)
InUseNowhere(o, a, i) == FALSE
InUse(o, a, i) == \E b \in Agent \ {a} : data[o].current[b] = i

(* restore-session. *)
Restore(o, a, i) ==
    /\ Operates(o)
    /\ i # data[o].current[a] /\ i \in Ids(data[o].history[a]) /\ ~InUse(o, a, i)
    /\ Stores(o, Promoted(data[o], a, i))
    /\ KeepsFiles /\ UNCHANGED <<known, minted, kept, named, transferred, reported>>

(* applyBridgeSessionChange: the TUI is on another session, which may be   *)
(* any.                                                                    *)
BridgeReports(o, a, i) ==
    /\ Operates(o) /\ i # data[o].current[a]
    /\ \/ i = Fresh /\ Mints
       \/ i \in 1..minted /\ UNCHANGED minted
    /\ Stores(o, Promoted(data[o], a, i))
    /\ Keeps(o, a, i)
    /\ Names(o, a, i, IF i \in Ids(Archived(data[o], a)) THEN named[o][a][i] ELSE NoTitle)
    /\ reported' = IF InUse(o, a, i) THEN reported \cup {i} ELSE reported
    /\ KeepsFiles /\ UNCHANGED <<known, transferred>>

(* set-session-meta, and the first message, which names what has no title. *)
Unnamed(o, a) == data[o].title[a] = NoTitle
SetTitle(o, a, t, first) ==
    /\ Operates(o) /\ (first => Unnamed(o, a))
    /\ Stores(o, [data[o] EXCEPT !.title[a] = t])
    /\ IF data[o].current[a] = NoId THEN UNCHANGED named ELSE Names(o, a, data[o].current[a], t)
    /\ KeepsFiles /\ UNCHANGED <<known, minted, kept, transferred, reported>>

(* transfer-session: what the agent has here is there, too.                *)
Transfer(from, to, a) ==
    /\ Operates(from) /\ to \in known \ {from} /\ data[from].current[a] # NoId
    /\ Stores(to, [data[to] EXCEPT
          !.current[a] = data[from].current[a],
          !.title[a] = IF data[from].title[a] = NoTitle THEN @ ELSE data[from].title[a],
          !.history[a] = IF data[from].history[a] = {} THEN @ ELSE data[from].history[a]])
    /\ kept' = [kept EXCEPT ![to][a] = Ids(data'[to].history[a]) \cup {data'[to].current[a]}]
    /\ transferred' = transferred \cup {<<to, a>>}
    /\ reported' = IF InUse(to, a, data[from].current[a])
                   THEN reported \cup {data[from].current[a]} ELSE reported
    /\ KeepsFiles /\ UNCHANGED <<known, minted, named>>

(* clear-session-history. *)
ClearHistory(o, a) ==
    /\ Operates(o)
    /\ Stores(o, [data[o] EXCEPT !.history[a] = {}])
    /\ kept' = [kept EXCEPT ![o][a] = @ \cap {data[o].current[a]}]
    /\ KeepsFiles /\ UNCHANGED <<known, minted, named, transferred, reported>>

(* reset-all-sessions: every session of the office goes, without a trace.  *)
ResetAll(o) ==
    /\ Operates(o)
    /\ LET with == {a \in Agent : data[o].current[a] # NoId} IN
       /\ minted + Cardinality(with) <= MaxIds /\ minted' = minted + Cardinality(with)
       /\ \E current \in [Agent -> {NoId} \cup (minted + 1)..minted'] :
             /\ \A a \in Agent : current[a] = NoId <=> a \notin with
             /\ \A a, b \in with : current[a] = current[b] => a = b
             /\ Stores(o, [data[o] EXCEPT !.current = current,
                                          !.title = [a \in Agent |-> NoTitle]])
             /\ kept' = [kept EXCEPT ![o] = [a \in Agent |->
                          Ids(data[o].history[a]) \cup ({current[a]} \ {NoId})]]
    /\ KeepsFiles /\ UNCHANGED <<known, named, transferred, reported>>

(* delete-office-session: without a file, what is in memory stays.         *)
DeleteOffice(o) ==
    /\ Operates(o) /\ o # First /\ known' = known \ {o}
    /\ disk' = [disk EXCEPT ![o] = NoFile]
    /\ data' = IF disk[o] = NoFile THEN data ELSE [data EXCEPT ![o] = Empty]
    /\ kept' = [kept EXCEPT ![o] = [a \in Agent |-> {}]]
    /\ UNCHANGED <<stage, minted, named, transferred, reported, old, writing, dirty, failures,
                   saves, crashes>>

(* create-office-session, of an id that may have been used before: a file  *)
(* that is there is loaded.                                                *)
CreateOffice(o) ==
    /\ stage = "up" /\ o \notin known /\ ops < MaxOps /\ ops' = ops + 1
    /\ known' = known \cup {o}
    /\ \/ /\ disk[o] = NoFile
          /\ disk' = [disk EXCEPT ![o] = Whole(Empty)] /\ UNCHANGED data
       \/ disk[o].file = "whole" /\ data' = [data EXCEPT ![o] = disk[o].is] /\ UNCHANGED disk
       \/ disk[o].file = "torn" /\ UNCHANGED <<data, disk>>
    /\ kept' = [kept EXCEPT ![o] = KeptBy(data'[o])]
    /\ named' = [named EXCEPT ![o] = NamedBy(data'[o])]
    /\ transferred' = {oa \in transferred : oa[1] # o} \cup ({o} \X Twice(data'[o]))
    /\ reported' = reported \cup {data'[o].current[a] : a \in Doubles(data'[o].current)}
    /\ dirty' = IF disk'[o] # Whole(data'[o]) \/ writing[o] # {} THEN dirty \cup {o} ELSE dirty
    /\ UNCHANGED <<stage, minted, old, writing, failures, saves, crashes>>

-----------------------------------------------------------------------------
Next ==
    \/ Migrate \/ CopyEnds \/ PutAside \/ LoadAll \/ Crash
    \/ \E o \in Office :
          \/ StartWrite(o) \/ EndWrite(o) \/ ResetAll(o) \/ DeleteOffice(o) \/ CreateOffice(o)
          \/ \E a \in Agent :
                \/ Mint(o, a) \/ Reset(o, a) \/ ClearHistory(o, a)
                \/ \E i \in Id : Restore(o, a, i) \/ BridgeReports(o, a, i)
                \/ \E t \in Title, first \in BOOLEAN : SetTitle(o, a, t, first)
                \/ \E to \in Office : Transfer(o, to, a)

Spec == Init /\ [][Next]_vars

-----------------------------------------------------------------------------
TypeOK ==
    /\ stage \in {"down", "copying", "copied", "loading", "up"}
    /\ known \subseteq Office /\ minted \in 0..MaxIds
    /\ \A o \in Office :
          /\ data[o].current \in [Agent -> {NoId} \cup 1..minted]
          /\ data[o].title \in [Agent -> Title \cup {NoTitle}]
          /\ disk[o].file \in {"none", "torn", "flat", "whole"}
          /\ saves[o] \in Nat

(* A session that an agent had is its current one or in its history, once, *)
(* until the user clears that history or resets the office: no reset,      *)
(* restore or /clear in the TUI loses one.                                 *)
SessionsAreKept ==
    \A o \in known, a \in Agent :
        /\ kept[o][a] \subseteq Ids(data[o].history[a]) \cup {data[o].current[a]}
        /\ \A e, f \in data[o].history[a] : e.id = f.id => e = f

(* "V3 invariant: values of data.sessionIds MUST be pairwise distinct"     *)
(* (session-repair.ts): two agents of an office share a session only where *)
(* a TUI reported it, or a transfer brought it.                            *)
SessionsAreApart ==
    \A o \in known, a \in Agent : a \in Doubles(data[o].current) => data[o].current[a] \in reported

(* The title of a session goes with it into the history and back.          *)
TitlesFollow ==
    \A o \in known, a \in Agent : <<o, a>> \notin transferred =>
        /\ data[o].current[a] # NoId => data[o].title[a] = named[o][a][data[o].current[a]]
        /\ \A e \in data[o].history[a] : e.title = named[o][a][e.id]

(* Once everything has been written, and no two writes of a file mixed, it *)
(* holds what the server knows.                                            *)
DiskIsCurrent ==
    stage = "up" =>
        \A o \in known \ dirty : saves[o] = 0 /\ writing[o] = {} =>
            disk[o] = IF disk[o] = NoFile THEN [NoFile EXCEPT !.is = data[o]] ELSE Whole(data[o])
=============================================================================
