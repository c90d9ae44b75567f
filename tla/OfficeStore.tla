----------------------------- MODULE OfficeStore -----------------------------
(* The offices as the renderer keeps them: in memory, in localStorage, and *)
(* through the main process in a file.  The file is read once after the    *)
(* window has loaded, later than the offices are used, and saves are sent  *)
(* to it in order; a window may reload and the application may crash.      *)
EXTENDS Naturals, Sequences

CONSTANTS
    MaxId,       \* office ids are 0..MaxId
    MaxOffices,  \* offices ever created
    Calls,       \* the orchestrator's requests for a seat, by number from 1
    MaxPending,  \* messages on their way to the main process
    MaxFailures, \* reads and writes of the file that fail
    MaxRestarts  \* window reloads and crashes

VARIABLES
    memory,        \* the OfficeManager's offices and the current one
    localStorage,
    file,          \* .data/copilot-offices.json
    durableLoadSettled,
    pendingDurableWrite,
    channel,       \* messages to the main process, in order
    loaded,        \* the answer to the load, on its way back
    seatCalls,     \* per call, its phase, office and what it changed
    offices,       \* offices created so far
    deleted,       \* those the user has deleted
    mishaps

storeVars == <<memory, localStorage, file, durableLoadSettled, pendingDurableWrite, channel,
               loaded, seatCalls, offices, deleted, mishaps>>

Ids == 0..MaxId
(* An office is known by its birth; "seated" is the reserve seat asked for.*)
NoOffice == [birth |-> 0, seated |-> FALSE]
Nothing == [current |-> 0, at |-> [i \in Ids |-> NoOffice]]
Present(state) == {i \in Ids : state.at[i] # NoOffice}
Births(state) == {state.at[i].birth : i \in Present(state)}
Lowest(S) == CHOOSE i \in S : \A j \in S : i <= j
Highest(S) == CHOOSE i \in S : \A j \in S : j <= i
NoCall == [phase |-> "none", office |-> 0, pushed |-> FALSE]
NoReply == [current |-> 0, at |-> <<>>]

-----------------------------------------------------------------------------
(* applyStoredState: what is stored replaces offices of the same id, the   *)
(* others stay.                                                            *)
Applied(state, stored) ==
    IF Present(stored) = {} THEN state
    ELSE [current |-> stored.current,
          at |-> [i \in Ids |-> IF i \in Present(stored) THEN stored.at[i] ELSE state.at[i]]]

(* saveToStorage: at once to localStorage; to the file as soon as it has   *)
(* been read.                                                              *)
SaveToStorage(state) ==
    /\ memory' = state
    /\ localStorage' = state
    /\ IF durableLoadSettled
         THEN /\ Len(channel) < MaxPending
              /\ channel' = Append(channel, [kind |-> "save", state |-> state, call |-> 0])
              /\ UNCHANGED pendingDurableWrite
         ELSE pendingDurableWrite' = TRUE /\ UNCHANGED channel

Created(state, birth) ==
    LET id == IF Present(state) = {} THEN 0 ELSE Highest(Present(state)) + 1
    IN  [current |-> IF Present(state) = {} THEN id ELSE state.current,
         at |-> [state.at EXCEPT ![id] = [birth |-> birth, seated |-> FALSE]]]

(* The window loads: localStorage at once, a first office if there is none,*)
(* and the file is asked for.                                              *)
Boots(stored, kept) ==
    LET found == Applied(Nothing, stored)
        fresh == Present(found) = {}
    IN  /\ memory' = IF fresh THEN Created(found, offices + 1) ELSE found
        /\ localStorage' = IF fresh THEN Created(found, offices + 1) ELSE stored
        /\ offices' = IF fresh THEN offices + 1 ELSE offices
        /\ pendingDurableWrite' = fresh
        /\ durableLoadSettled' = FALSE
        /\ channel' = Append(kept, [kind |-> "load"])
        /\ loaded' = NoReply
        /\ seatCalls' = [c \in Calls |-> NoCall]

Init == /\ memory = Created(Nothing, 1) /\ localStorage = Created(Nothing, 1)
        /\ file = Nothing
        /\ durableLoadSettled = FALSE /\ pendingDurableWrite = TRUE
        /\ channel = <<[kind |-> "load"]>>
        /\ loaded = NoReply
        /\ seatCalls = [c \in Calls |-> NoCall]
        /\ offices = 1 /\ deleted = {}
        /\ mishaps = [failures |-> 0, restarts |-> 0]

-----------------------------------------------------------------------------
(* The office file store in the main process.                              *)

Fails == mishaps.failures < MaxFailures /\ mishaps' = [mishaps EXCEPT !.failures = @ + 1]
Takes(kind) == channel # <<>> /\ Head(channel).kind = kind /\ channel' = Tail(channel)

LoadOffices ==
    /\ Takes("load")
    /\ \/ loaded' = file /\ UNCHANGED mishaps
       \/ loaded' = Nothing /\ Fails
    /\ UNCHANGED <<memory, localStorage, file, durableLoadSettled, pendingDurableWrite, seatCalls,
                   offices, deleted>>
Answered(c, ok) ==
    IF c \in Calls /\ seatCalls[c].phase = "saving"
      THEN [seatCalls EXCEPT ![c].phase = IF ok THEN "written" ELSE "refused"] ELSE seatCalls
SaveOffices ==
    /\ Takes("save")
    /\ \/ file' = Head(channel).state /\ seatCalls' = Answered(Head(channel).call, TRUE) /\ UNCHANGED mishaps
       \/ UNCHANGED file /\ seatCalls' = Answered(Head(channel).call, FALSE) /\ Fails
    /\ UNCHANGED <<memory, localStorage, durableLoadSettled, pendingDurableWrite, loaded, offices,
                   deleted>>

-----------------------------------------------------------------------------
(* The office manager.                                                     *)

(* A bug: the deferred write does not wait for the merge.                  *)
UnmergedWrite == memory
DeferredWrite == Applied(memory, loaded)
DurableLoadSettles ==
    /\ loaded # NoReply
    /\ loaded' = NoReply
    /\ memory' = Applied(memory, loaded)
    /\ durableLoadSettled' = TRUE
    /\ pendingDurableWrite' = FALSE
    /\ channel' = IF pendingDurableWrite
                    THEN Append(channel, [kind |-> "save", state |-> DeferredWrite, call |-> 0])
                    ELSE channel
    /\ UNCHANGED <<localStorage, file, seatCalls, offices, deleted, mishaps>>

CreateOffice ==
    /\ offices < MaxOffices /\ MaxId \notin Present(memory)
    /\ SaveToStorage(Created(memory, offices + 1))
    /\ offices' = offices + 1
    /\ UNCHANGED <<file, durableLoadSettled, loaded, seatCalls, deleted, mishaps>>
(* A bug: the current office is deleted and stays current.                 *)
StaleCurrent(i, left) == memory.current
CurrentWithout(i, left) ==
    IF memory.current # i THEN memory.current ELSE IF 0 \in left THEN 0 ELSE Lowest(left)
DeleteOffice(i) ==
    /\ i \in Present(memory) \ {0}
    /\ LET rest == [memory.at EXCEPT ![i] = NoOffice]
           left == {j \in Ids : rest[j] # NoOffice}
       IN  SaveToStorage([current |-> CurrentWithout(i, left), at |-> rest])
    /\ deleted' = deleted \cup {memory.at[i].birth}
    /\ UNCHANGED <<file, durableLoadSettled, loaded, seatCalls, offices, mishaps>>
SwitchOffice(i) ==
    /\ i \in Present(memory) \ {memory.current}
    /\ SaveToStorage([memory EXCEPT !.current = i])
    /\ UNCHANGED <<file, durableLoadSettled, loaded, seatCalls, offices, deleted, mishaps>>
RemoveSeatedAgent(i) ==
    /\ memory.at[i].seated
    /\ SaveToStorage([memory EXCEPT !.at[i].seated = FALSE])
    /\ UNCHANGED <<file, durableLoadSettled, loaded, seatCalls, offices, deleted, mishaps>>

(* ensureAgentSeat: once the file has been read, a write of its own.       *)
EnsureAgentSeat(c, i) ==
    /\ seatCalls[c] = NoCall
    /\ durableLoadSettled /\ i \in Present(memory)
    /\ Len(channel) < MaxPending
    /\ LET state == [memory EXCEPT !.at[i].seated = TRUE] IN
         /\ memory' = state
         /\ channel' = Append(channel, [kind |-> "save", state |-> state, call |-> c])
    /\ seatCalls' = [seatCalls EXCEPT ![c] = [phase |-> "saving", office |-> i,
                                              pushed |-> ~memory.at[i].seated]]
    /\ UNCHANGED <<localStorage, file, durableLoadSettled, pendingDurableWrite, loaded, offices, deleted,
                   mishaps>>
SeatPersisted(c) ==
    /\ seatCalls[c].phase = "written"
    /\ seatCalls' = [seatCalls EXCEPT ![c].phase = "granted"]
    /\ localStorage' = memory
    /\ UNCHANGED <<memory, file, durableLoadSettled, pendingDurableWrite, channel, loaded, offices,
                   deleted, mishaps>>
SeatRolledBack(c) ==
    /\ seatCalls[c].phase = "refused"
    /\ seatCalls' = [seatCalls EXCEPT ![c].phase = "failed"]
    /\ memory' = IF seatCalls[c].pushed /\ seatCalls[c].office \in Present(memory)
                   THEN [memory EXCEPT !.at[seatCalls[c].office].seated = FALSE] ELSE memory
    /\ UNCHANGED <<localStorage, file, durableLoadSettled, pendingDurableWrite, channel, loaded,
                   offices, deleted, mishaps>>

-----------------------------------------------------------------------------
(* A reload of the window drops what comes back to it; a crash also drops  *)
(* what is on its way, and localStorage may be gone.                       *)
Restarts == mishaps.restarts < MaxRestarts /\ mishaps' = [mishaps EXCEPT !.restarts = @ + 1]
Reload ==
    /\ Restarts /\ Len(channel) < MaxPending
    /\ LET saves == SelectSeq(channel, LAMBDA m : m.kind = "save")
       IN  Boots(localStorage, [n \in DOMAIN saves |-> [saves[n] EXCEPT !.call = 0]])
    /\ UNCHANGED <<file, deleted>>
Crash ==
    /\ Restarts
    /\ \E stored \in {localStorage, Nothing} : Boots(stored, <<>>)
    /\ UNCHANGED <<file, deleted>>

Next == \/ LoadOffices \/ SaveOffices \/ DurableLoadSettles
        \/ CreateOffice \/ \E i \in Ids : DeleteOffice(i) \/ SwitchOffice(i) \/ RemoveSeatedAgent(i)
        \/ \E c \in Calls : \/ SeatPersisted(c) \/ SeatRolledBack(c)
                            \/ \E i \in Ids : EnsureAgentSeat(c, i)
        \/ Reload \/ Crash
Spec == Init /\ [][Next]_storeVars

-----------------------------------------------------------------------------
(* The variables have their types.                                         *)
Offices == [birth : 0..(MaxOffices + MaxRestarts), seated : BOOLEAN]
States == [current : Ids, at : [Ids -> Offices]]
TypeOK == /\ memory \in States /\ localStorage \in States /\ file \in States
          /\ durableLoadSettled \in BOOLEAN /\ pendingDurableWrite \in BOOLEAN
          /\ Len(channel) <= MaxPending + 1
          /\ loaded \in States \cup {NoReply}
          /\ DOMAIN seatCalls = Calls
          /\ memory.current \in Present(memory)

(* What starts a window cannot make the file forget: an office the file    *)
(* has is lost only when the user deletes it, or when the file could not   *)
(* be read and what was in memory was written over it.                     *)
TheFileKeepsOffices ==
    [][mishaps.failures = 0 => Births(file) \ Births(file') \subseteq deleted]_storeVars

(* At rest and without a failure, the file has no office the window does   *)
(* not show, and while the window has not restarted the two are the same.  *)
TheFileCatchesUp ==
    (durableLoadSettled /\ channel = <<>> /\ mishaps.failures = 0)
        => /\ Births(file) \subseteq Births(memory)
           /\ mishaps.restarts = 0 => file = memory
=============================================================================
