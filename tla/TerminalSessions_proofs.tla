----------------------- MODULE TerminalSessions_proofs ------------------------
(* Proofs about TerminalSessions.  Apart from a launch, and from a bridge  *)
(* that registers, terminals only fade: they are killed, forgotten, or go. *)
(* The lemmas show what fading leaves of the invariant, and then what each *)
(* step of a request adds to it.                                           *)
EXTENDS TerminalSessions, SequenceTheorems, FiniteSetTheorems, TLAPS

Proc == [key : Key, session : Session, state : {"up", "dying", "gone"},
         open : BOOLEAN, linked : BOOLEAN, signalled : BOOLEAN, midKill : BOOLEAN]
Req == [key : Key \cup {NoKey}, kind : Kind,
        pc : {"none", "launching", "delivering", "coalesced", "started",
              "waiting", "joining", "answered"},
        had : BOOLEAN, re : BOOLEAN, reused : BOOLEAN, ok : BOOLEAN,
        session : Session \cup {None}, proc : Terminal \cup {None}, with : Request \cup {None}]

TerminalInv ==
    /\ procs \in Seq(Proc) /\ Len(procs) <= MaxTerminals
    /\ ptyProcesses \in [Key -> DOMAIN procs \cup {None}]
    /\ agentToTerminal \in [Key -> Key \cup {NoKey}]
    /\ \A k \in Key : ptyProcesses[k] # None =>
          procs[ptyProcesses[k]].key = k /\ agentToTerminal[k] = k
    /\ NoOrphan

WatchInv ==
    /\ agentWatchers \in [Key -> DOMAIN procs \cup {None}]
    /\ agentReadyState \subseteq Key /\ activeAgentViewers \subseteq Key /\ killing \subseteq Key
    /\ EventsAreSeen
    /\ \A k \in killing : ptyProcesses[k] # None => procs[ptyProcesses[k]].midKill

SessionInv ==
    /\ minted \in 0..MaxSessions
    /\ sessionIds \in [Key -> 0..minted]
    /\ sessionHistory \in [Key -> SUBSET (1..minted)]
    /\ \A k \in Key : sessionIds[k] \notin sessionHistory[k]
    /\ \A p \in DOMAIN procs : procs[p].session <= minted
    /\ \A r \in Request : req[r].session <= minted
    /\ SessionsAgree

(* What a request that is under way may rely on. *)
Underway(r) ==
    /\ req[r].pc \notin {"none", "answered"} => req[r].key \in Key
    /\ req[r].proc \in DOMAIN procs \cup {None}
    /\ req[r].pc \in {"launching", "delivering"} => inFlightStarts[req[r].key] = r
    /\ req[r].pc = "launching" =>
          req[r].session # None /\ ptyProcesses[req[r].key] = None
    /\ req[r].pc = "coalesced" =>
          req[r].with # None /\ inFlightStarts[req[r].key] = req[r].with
    /\ req[r].pc = "started" => inFlightStarts[req[r].key] = None
    /\ req[r].pc \in {"delivering", "waiting"} => req[r].proc # None
    /\ req[r].pc = "waiting" /\ StillThere(req[r].proc) =>
          /\ agentToTerminal[req[r].key] = procs[req[r].proc].key
          /\ inFlightStarts[req[r].key] # None =>
                req[inFlightStarts[req[r].key]].pc = "delivering"

RequestInv ==
    /\ req \in [Request -> Req]
    /\ inFlightStarts \in [Key -> Request \cup {None}]
    /\ recoveries \in [Key -> Request \cup {None}]
    /\ \A k \in Key : inFlightStarts[k] # None =>
          /\ req[inFlightStarts[k]].key = k
          /\ req[inFlightStarts[k]].pc \in {"launching", "delivering"}
    /\ \A r \in Request : Underway(r)

(* Whoever is in a queue is there once, and has not been served. *)
Queued(queue) ==
    /\ queue \in [Key -> Seq(Request)]
    /\ taken \in [Request -> {0, 1}]
    /\ \A k \in Key : \A i \in DOMAIN queue[k] :
          /\ taken[queue[k][i]] = 0
          /\ \A j \in Key : \A n \in DOMAIN queue[j] :
                queue[j][n] = queue[k][i] => j = k /\ n = i

PromptInv ==
    /\ Queued(prompts)
    /\ \A k \in Key : \A i \in DOMAIN prompts[k] : req[prompts[k][i]].pc # "none"
    /\ \A r \in Request : req[r].pc = "none" => taken[r] = 0

BudgetInv == operations \in 0..MaxOperations /\ killFailures \in 0..MaxKillFailures

(* Of the repair of a terminal. *)
Repair(r) ==
    /\ req[r].kind = "launch" => ~req[r].had
    /\ req[r].pc = "none" => ~req[r].re
    /\ req[r].re => req[r].pc # "delivering"
    /\ req[r].re /\ req[r].pc \in {"launching", "coalesced"} =>
          agentToTerminal[req[r].key] = NoKey
    /\ req[r].re /\ req[r].pc = "started" /\ ~req[r].ok => agentToTerminal[req[r].key] = NoKey
    /\ req[r].pc = "waiting" => ~procs[req[r].proc].linked
    /\ req[r].pc = "joining" => ~req[r].re /\ req[r].with # None /\ req[req[r].with].re
RepairInv ==
    /\ \A r \in Request : Repair(r)
    /\ \A k \in Key : recoveries[k] # None => req[recoveries[k]].re

IInv ==
    /\ TerminalInv /\ WatchInv /\ SessionInv
    /\ RequestInv /\ RepairInv /\ PromptInv /\ BudgetInv

-----------------------------------------------------------------------------
(* Terminals.                                                              *)

(* A terminal keeps its key, and is not opened again.                      *)
Continued ==
    /\ procs' \in Seq(Proc) /\ Len(procs') = Len(procs)
    /\ \A p \in DOMAIN procs : /\ procs'[p].key = procs[p].key
                               /\ procs'[p].midKill = procs[p].midKill
                               /\ procs'[p].open => procs[p].open
(* Its session is the one it had, and no bridge is connected.              *)
Quiet == \A p \in DOMAIN procs : /\ procs'[p].session = procs[p].session
                                 /\ procs'[p].linked => procs[p].linked
FadesAt(k) ==
    \/ agentToTerminal'[k] = agentToTerminal[k]
    \/ /\ agentToTerminal'[k] = NoKey
       /\ agentToTerminal[k] # NoKey => ptyProcesses'[agentToTerminal[k]] = None
Fades ==
    /\ Continued
    /\ ptyProcesses' \in [Key -> DOMAIN procs \cup {None}]
    /\ \A k \in Key : ptyProcesses'[k] \in {ptyProcesses[k], None}
    /\ agentToTerminal' \in [Key -> Key \cup {NoKey}]

LEMMA Constants ==
  /\ NoKey \notin Key /\ None = 0
  /\ MaxTerminals \in Nat /\ MaxRequests \in Nat /\ MaxSessions \in Nat
  /\ MaxOperations \in Nat /\ MaxKillFailures \in Nat
  /\ Terminal = 1..MaxTerminals /\ Request = 1..MaxRequests /\ Session = 1..MaxSessions
  /\ None \notin Terminal /\ None \notin Request /\ None \notin Session
  BY SessionsAssumption DEF None, Terminal, Request, Session

LEMMA Procs ==
  ASSUME TerminalInv
  PROVE  /\ Len(procs) \in Nat /\ DOMAIN procs = 1..Len(procs)
         /\ None \notin DOMAIN procs /\ DOMAIN procs \subseteq Terminal
         /\ \A p \in DOMAIN procs : procs[p] \in Proc
  <1>1. /\ procs \in Seq(Proc) /\ Len(procs) <= MaxTerminals
    BY DEF TerminalInv
  <1>2. Len(procs) \in Nat /\ DOMAIN procs = 1..Len(procs)
    BY <1>1, LenProperties
  <1>3. \A p \in DOMAIN procs : procs[p] \in Proc
    BY <1>1, <1>2, ElementOfSeq
  <1> QED BY <1>1, <1>2, <1>3, Constants

(* One process is changed, and stays what it is.                           *)
LEMMA Editing ==
  ASSUME TerminalInv, NEW p \in DOMAIN procs, NEW x \in Proc,
         x.key = procs[p].key, x.midKill = procs[p].midKill, x.open => procs[p].open,
         procs' = [procs EXCEPT ![p] = x]
  PROVE  /\ Continued /\ DOMAIN procs' = DOMAIN procs /\ procs'[p] = x
         /\ \A q \in DOMAIN procs : q # p => procs'[q] = procs[q]
         /\ x.session = procs[p].session /\ (x.linked => procs[p].linked) => Quiet
  <1>1. /\ procs \in Seq(Proc)
        /\ Len(procs) \in Nat /\ DOMAIN procs = 1..Len(procs)
        /\ \A q \in DOMAIN procs : procs[q] \in Proc
    BY Procs DEF TerminalInv
  <1>2. /\ DOMAIN procs' = DOMAIN procs /\ procs'[p] = x
        /\ \A q \in DOMAIN procs : q # p => procs'[q] = procs[q]
        /\ procs' \in [1..Len(procs) -> Proc]
    <2>1. procs = [q \in DOMAIN procs |-> procs[q]]
      BY <1>1, LenProperties
    <2>2. procs' = [q \in DOMAIN procs |-> IF q = p THEN x ELSE procs[q]]
      BY <2>1
    <2> QED BY <1>1, <2>2
  <1>3. procs' \in Seq(Proc)
    BY <1>1, <1>2, SeqDef
  <1>4. Len(procs') = Len(procs)
    BY <1>1, <1>2, <1>3, LenProperties
  <1> QED BY <1>2, <1>3, <1>4 DEF Continued, Quiet

LEMMA KilledProc ==
  ASSUME TerminalInv, NEW p \in DOMAIN procs, NEW obeyed \in BOOLEAN, procs' = Killed(p, obeyed)
  PROVE  /\ Continued /\ Quiet /\ DOMAIN procs' = DOMAIN procs
         /\ ~procs'[p].open /\ ~procs'[p].linked
         /\ \A q \in DOMAIN procs : q # p => procs'[q] = procs[q]
  <1>1. procs[p] \in Proc
    BY Procs
  <1>2. PICK x : x = [[[procs[p] EXCEPT !.open = FALSE] EXCEPT !.linked = FALSE]
                         EXCEPT !.state = IF obeyed THEN "dying" ELSE @]
    OBVIOUS
  <1>3. /\ x \in Proc /\ x.key = procs[p].key /\ x.midKill = procs[p].midKill
        /\ x.session = procs[p].session /\ x.open = FALSE /\ x.linked = FALSE
    BY <1>1, <1>2 DEF Proc
  <1>4. procs' = [procs EXCEPT ![p] = x]
    <2>1. /\ procs = [q \in DOMAIN procs |-> procs[q]]
      BY LenProperties DEF TerminalInv
    <2> QED BY <2>1, <1>2 DEF Killed
  <1> QED BY <1>3, <1>4, Editing

(* A terminal is killed, and with or without it k forgets its key.         *)
LEMMA Stopping ==
  ASSUME TerminalInv, NEW k \in Key, NEW at \in Key, NEW obeyed \in BOOLEAN,
         ptyProcesses[at] # None, agentToTerminal[k] = at,
         procs' = Killed(ptyProcesses[at], obeyed),
         Forgotten(k, at) \/ UNCHANGED <<ptyProcesses, agentToTerminal>>
  PROVE  /\ TerminalInv' /\ Fades /\ Quiet /\ \A j \in Key : FadesAt(j)
         /\ Forgotten(k, at) => ptyProcesses'[k] = None /\ ptyProcesses'[at] = None
                                /\ agentToTerminal'[k] = NoKey
  <1>1. PICK p : p = ptyProcesses[at]
    OBVIOUS
  <1>2. /\ p \in DOMAIN procs /\ procs[p].key = at
        /\ ptyProcesses \in [Key -> DOMAIN procs \cup {None}]
        /\ agentToTerminal \in [Key -> Key \cup {NoKey}]
        /\ \A j \in Key : ptyProcesses[j] # None =>
              procs[ptyProcesses[j]].key = j /\ agentToTerminal[j] = j
        /\ \A q \in DOMAIN procs : procs[q].open => ptyProcesses[procs[q].key] = q
        /\ \A q \in DOMAIN procs : procs[q].key \in Key
    BY <1>1, Procs DEF TerminalInv, NoOrphan, StillThere, Proc
  <1>3. /\ Continued /\ Quiet /\ DOMAIN procs' = DOMAIN procs /\ ~procs'[p].open
        /\ \A q \in DOMAIN procs : q # p => procs'[q] = procs[q]
    BY <1>1, <1>2, KilledProc
  <1>4. \/ ptyProcesses' = ptyProcesses /\ agentToTerminal' = agentToTerminal
        \/ /\ ptyProcesses' = [ptyProcesses EXCEPT ![at] = None]
           /\ agentToTerminal' = [agentToTerminal EXCEPT ![k] = NoKey]
    BY DEF Forgotten
  <1>5. /\ ptyProcesses' \in [Key -> DOMAIN procs \cup {None}]
        /\ agentToTerminal' \in [Key -> Key \cup {NoKey}]
        /\ \A j \in Key : ptyProcesses'[j] \in {ptyProcesses[j], None}
        /\ \A j \in Key : FadesAt(j)
    BY <1>2, <1>4 DEF FadesAt
  <1>6. Forgotten(k, at) => ptyProcesses'[k] = None /\ ptyProcesses'[at] = None
                            /\ agentToTerminal'[k] = NoKey
    BY <1>2 DEF Forgotten
  <1>7. \A j \in Key : ptyProcesses'[j] # None =>
           procs'[ptyProcesses'[j]].key = j /\ agentToTerminal'[j] = j
    <2>1. \A j \in Key : ptyProcesses'[j] # None =>
             /\ ptyProcesses'[j] = ptyProcesses[j] /\ ptyProcesses[j] \in DOMAIN procs
             /\ procs'[ptyProcesses[j]].key = procs[ptyProcesses[j]].key
      BY <1>2, <1>3, <1>5 DEF Continued
    <2>2. \A j \in Key : ptyProcesses'[j] # None => agentToTerminal'[j] = j
      BY <1>2, <1>4, <1>5
    <2> QED BY <1>2, <2>1, <2>2
  <1>8. NoOrphan'
    <2>1. ASSUME NEW q \in DOMAIN procs', procs'[q].open
          PROVE  ptyProcesses'[procs'[q].key] = q
      <3>1. q # p /\ q \in DOMAIN procs /\ procs[q].open /\ procs'[q].key = procs[q].key
        BY <2>1, <1>3 DEF Continued
      <3>2. ptyProcesses[procs[q].key] = q /\ procs[q].key \in Key
        BY <3>1, <1>2
      <3>3. procs[q].key # at
        BY <3>1, <3>2, <1>1
      <3> QED BY <3>1, <3>2, <3>3, <1>4, <1>2
    <2> QED BY <2>1 DEF NoOrphan, StillThere
  <1>9. procs' \in Seq(Proc) /\ Len(procs') <= MaxTerminals
    BY <1>3 DEF Continued, TerminalInv
  <1> QED BY <1>3, <1>5, <1>6, <1>7, <1>8, <1>9 DEF TerminalInv, Fades

(* Nothing happens to the terminals, or a process is changed alone.        *)
LEMMA Resting ==
  ASSUME TerminalInv, procs' = procs \/ Continued, DOMAIN procs' = DOMAIN procs,
         UNCHANGED <<ptyProcesses, agentToTerminal>>
  PROVE  TerminalInv' /\ Fades /\ \A j \in Key : FadesAt(j)
  <1>1. Continued
    BY DEF Continued, TerminalInv
  <1>2. /\ ptyProcesses \in [Key -> DOMAIN procs \cup {None}]
        /\ agentToTerminal \in [Key -> Key \cup {NoKey}]
        /\ \A j \in Key : ptyProcesses[j] # None =>
              procs[ptyProcesses[j]].key = j /\ agentToTerminal[j] = j
        /\ \A q \in DOMAIN procs : procs[q].open => ptyProcesses[procs[q].key] = q
    BY DEF TerminalInv, NoOrphan, StillThere
  <1>3. \A j \in Key : ptyProcesses'[j] # None =>
           procs'[ptyProcesses'[j]].key = j /\ agentToTerminal'[j] = j
    BY <1>1, <1>2 DEF Continued
  <1>4. NoOrphan'
    BY <1>1, <1>2 DEF Continued, NoOrphan, StillThere
  <1>5. procs' \in Seq(Proc) /\ Len(procs') <= MaxTerminals
    BY <1>1 DEF Continued, TerminalInv
  <1> QED BY <1>1, <1>2, <1>3, <1>4, <1>5 DEF TerminalInv, Fades, FadesAt

LEMMA Unchanging ==
  ASSUME TerminalInv, UNCHANGED terminalVars
  PROVE  TerminalInv' /\ Fades /\ Quiet /\ \A j \in Key : FadesAt(j)
  <1>1. procs' = procs /\ UNCHANGED <<ptyProcesses, agentToTerminal>>
    BY DEF terminalVars
  <1> QED BY <1>1, Resting DEF Quiet

(* The key whose terminal a key uses.                                      *)
LEMMA UsedKey ==
  ASSUME TerminalInv, NEW k \in Key
  PROVE  /\ HasTerminal(k) =>
               /\ TerminalKey(k) \in Key /\ ptyProcesses[TerminalKey(k)] # None
               /\ agentToTerminal[k] = TerminalKey(k)
               /\ TerminalOf(k) = ptyProcesses[TerminalKey(k)]
               /\ TerminalOf(k) \in DOMAIN procs /\ TerminalOf(k) # None
               /\ procs[TerminalOf(k)].key = TerminalKey(k)
         /\ ~HasTerminal(k) =>
               /\ ptyProcesses[k] = None /\ TerminalOf(k) = None
               /\ agentToTerminal[k] # NoKey => ptyProcesses[agentToTerminal[k]] = None
         /\ HasTerminal(k) <=> TerminalOf(k) # None
  <1>1. /\ ptyProcesses \in [Key -> DOMAIN procs \cup {None}]
        /\ agentToTerminal \in [Key -> Key \cup {NoKey}]
        /\ \A j \in Key : ptyProcesses[j] # None =>
              procs[ptyProcesses[j]].key = j /\ agentToTerminal[j] = j
    BY DEF TerminalInv
  <1>2. k # NoKey /\ NoKey \notin Key
    BY Constants
  <1>3. HasTerminal(k) =>
               /\ TerminalKey(k) \in Key /\ ptyProcesses[TerminalKey(k)] # None
               /\ agentToTerminal[k] = TerminalKey(k)
    BY <1>1, <1>2 DEF HasTerminal, TerminalKey
  <1>4. ~HasTerminal(k) =>
               /\ ptyProcesses[k] = None
               /\ agentToTerminal[k] # NoKey => ptyProcesses[agentToTerminal[k]] = None
    BY <1>1, <1>2 DEF HasTerminal, TerminalKey
  <1>5. TerminalOf(k) = IF HasTerminal(k) THEN ptyProcesses[TerminalKey(k)] ELSE None
    BY DEF TerminalOf
  <1>6. None \notin DOMAIN procs
    BY Procs
  <1> QED BY <1>1, <1>3, <1>4, <1>5, <1>6

LEMMA Evicting ==
  ASSUME TerminalInv, NEW p \in DOMAIN procs, StillThere(p), NEW at, at = procs[p].key,
         procs' = Killed(p, TRUE),
         ptyProcesses' = [ptyProcesses EXCEPT ![at] = None],
         agentToTerminal' = [j \in Key |-> IF agentToTerminal[j] = at THEN NoKey
                                           ELSE agentToTerminal[j]]
  PROVE  /\ TerminalInv' /\ Fades /\ Quiet /\ \A j \in Key : FadesAt(j)
         /\ at \in Key /\ ptyProcesses'[at] = None
  <1>1. /\ p # None /\ at \in Key /\ ptyProcesses[at] = p
        /\ ptyProcesses \in [Key -> DOMAIN procs \cup {None}]
        /\ agentToTerminal \in [Key -> Key \cup {NoKey}]
        /\ \A j \in Key : ptyProcesses[j] # None =>
              procs[ptyProcesses[j]].key = j /\ agentToTerminal[j] = j
        /\ \A q \in DOMAIN procs : procs[q].open => ptyProcesses[procs[q].key] = q
        /\ \A q \in DOMAIN procs : procs[q].key \in Key
    BY Procs DEF TerminalInv, NoOrphan, StillThere, Proc
  <1>2. /\ Continued /\ Quiet /\ DOMAIN procs' = DOMAIN procs /\ ~procs'[p].open
        /\ \A q \in DOMAIN procs : q # p => procs'[q] = procs[q]
    BY KilledProc
  <1>3. /\ ptyProcesses' \in [Key -> DOMAIN procs \cup {None}]
        /\ agentToTerminal' \in [Key -> Key \cup {NoKey}]
        /\ \A j \in Key : ptyProcesses'[j] \in {ptyProcesses[j], None}
        /\ \A j \in Key : FadesAt(j)
        /\ ptyProcesses'[at] = None
    BY <1>1 DEF FadesAt
  <1>4. \A j \in Key : ptyProcesses'[j] # None =>
           procs'[ptyProcesses'[j]].key = j /\ agentToTerminal'[j] = j
    <2>1. ASSUME NEW j \in Key, ptyProcesses'[j] # None
          PROVE  procs'[ptyProcesses'[j]].key = j /\ agentToTerminal'[j] = j
      <3>1. j # at /\ ptyProcesses'[j] = ptyProcesses[j] /\ ptyProcesses[j] \in DOMAIN procs
        BY <2>1, <1>1, <1>3
      <3>2. agentToTerminal[j] = j /\ procs[ptyProcesses[j]].key = j
        BY <2>1, <3>1, <1>1
      <3> QED BY <3>1, <3>2, <1>2 DEF Continued
    <2> QED BY <2>1
  <1>5. NoOrphan'
    <2>1. ASSUME NEW q \in DOMAIN procs', procs'[q].open
          PROVE  ptyProcesses'[procs'[q].key] = q
      <3>1. q # p /\ q \in DOMAIN procs /\ procs[q].open /\ procs'[q].key = procs[q].key
        BY <2>1, <1>2 DEF Continued
      <3>2. ptyProcesses[procs[q].key] = q /\ procs[q].key \in Key
        BY <3>1, <1>1
      <3>3. procs[q].key # at
        BY <3>1, <3>2, <1>1
      <3>4. ptyProcesses'[procs[q].key] = ptyProcesses[procs[q].key]
        BY <3>2, <3>3, <1>1
      <3> QED BY <3>1, <3>2, <3>4
    <2> QED BY <2>1 DEF NoOrphan, StillThere
  <1>6. procs' \in Seq(Proc) /\ Len(procs') <= MaxTerminals
    BY <1>2 DEF Continued, TerminalInv
  <1> QED BY <1>1, <1>2, <1>3, <1>4, <1>5, <1>6 DEF TerminalInv, Fades

LEMMA Exiting ==
  ASSUME TerminalInv, NEW p \in DOMAIN procs, Exits(p)
  PROVE  TerminalInv' /\ Fades /\ Quiet /\ \A j \in Key : FadesAt(j)
  <1>1. procs[p] \in Proc
    BY Procs
  <1>2. PICK x : x = [[[procs[p] EXCEPT !.state = "gone"] EXCEPT !.open = FALSE]
                         EXCEPT !.linked = FALSE]
    OBVIOUS
  <1>3. /\ x \in Proc /\ x.key = procs[p].key /\ x.midKill = procs[p].midKill
        /\ x.session = procs[p].session /\ x.open = FALSE /\ x.linked = FALSE
    BY <1>1, <1>2 DEF Proc
  <1>4. procs' = [procs EXCEPT ![p] = x]
    <2>1. /\ procs = [q \in DOMAIN procs |-> procs[q]]
      BY LenProperties DEF TerminalInv
    <2>2. procs' = [procs EXCEPT ![p].state = "gone", ![p].open = FALSE, ![p].linked = FALSE]
      BY DEF Exits
    <2> QED BY <2>1, <2>2, <1>2
  <1>5. /\ Continued /\ Quiet /\ DOMAIN procs' = DOMAIN procs /\ ~procs'[p].open
        /\ \A q \in DOMAIN procs : q # p => procs'[q] = procs[q]
    BY <1>3, <1>4, Editing
  <1>6. PICK k : k = procs[p].key
    OBVIOUS
  <1>7. /\ p # None /\ k \in Key
        /\ ptyProcesses \in [Key -> DOMAIN procs \cup {None}]
        /\ agentToTerminal \in [Key -> Key \cup {NoKey}]
        /\ \A j \in Key : ptyProcesses[j] # None =>
              procs[ptyProcesses[j]].key = j /\ agentToTerminal[j] = j
        /\ \A q \in DOMAIN procs : procs[q].open => ptyProcesses[procs[q].key] = q
        /\ \A q \in DOMAIN procs : procs[q].key \in Key
    BY <1>6, Procs DEF TerminalInv, NoOrphan, StillThere, Proc
  <1>8. /\ agentToTerminal' = agentToTerminal
        /\ \/ ptyProcesses' = ptyProcesses
           \/ ptyProcesses[k] = p /\ ptyProcesses' = [ptyProcesses EXCEPT ![k] = None]
    BY <1>6 DEF Exits, ExitIsOf
  <1>9. /\ ptyProcesses' \in [Key -> DOMAIN procs \cup {None}]
        /\ \A j \in Key : ptyProcesses'[j] \in {ptyProcesses[j], None}
        /\ \A j \in Key : FadesAt(j)
    BY <1>7, <1>8 DEF FadesAt
  <1>10. \A j \in Key : ptyProcesses'[j] # None =>
           procs'[ptyProcesses'[j]].key = j /\ agentToTerminal'[j] = j
    <2>1. ASSUME NEW j \in Key, ptyProcesses'[j] # None
          PROVE  procs'[ptyProcesses'[j]].key = j /\ agentToTerminal'[j] = j
      <3>1. ptyProcesses'[j] = ptyProcesses[j] /\ ptyProcesses[j] \in DOMAIN procs
        BY <2>1, <1>7, <1>9
      <3> QED BY <2>1, <3>1, <1>5, <1>7, <1>8 DEF Continued
    <2> QED BY <2>1
  <1>11. NoOrphan'
    <2>1. ASSUME NEW q \in DOMAIN procs', procs'[q].open
          PROVE  ptyProcesses'[procs'[q].key] = q
      <3>1. q # p /\ q \in DOMAIN procs /\ procs[q].open /\ procs'[q].key = procs[q].key
        BY <2>1, <1>5 DEF Continued
      <3>2. ptyProcesses[procs[q].key] = q
        BY <3>1, <1>7
      <3> QED BY <3>1, <3>2, <1>7, <1>8
    <2> QED BY <2>1 DEF NoOrphan, StillThere
  <1>12. procs' \in Seq(Proc) /\ Len(procs') <= MaxTerminals
    BY <1>5 DEF Continued, TerminalInv
  <1> QED BY <1>5, <1>7, <1>8, <1>9, <1>10, <1>11, <1>12 DEF TerminalInv, Fades

LEMMA Registering ==
  ASSUME TerminalInv, minted \in Nat, NEW p \in DOMAIN procs, Registers(p),
         procs[p].session <= minted
  PROVE  /\ TerminalInv' /\ Fades /\ \A j \in Key : FadesAt(j)
         /\ DOMAIN procs' = DOMAIN procs
         /\ \A q \in DOMAIN procs : q # p => procs'[q] = procs[q]
         /\ procs'[p].session \in {procs[p].session, minted + 1}
         /\ minted' = IF procs'[p].session > minted THEN procs'[p].session ELSE minted
         /\ procs'[p].session <= MaxSessions
         /\ procs'[p].key = procs[p].key
         /\ IF StillThere(p) THEN Applied(procs[p].key, procs'[p].session)
                             ELSE UNCHANGED <<sessionIds, sessionHistory>>
  <1>1. procs[p] \in Proc
    BY Procs
  <1>2. PICK s \in {procs[p].session, minted + 1} :
           /\ s <= MaxSessions
           /\ minted' = IF s > minted THEN s ELSE minted
           /\ procs' = [procs EXCEPT ![p].linked = TRUE, ![p].session = s,
                                     ![p].signalled = @ \/ StillThere(p)]
           /\ IF StillThere(p) THEN Applied(procs[p].key, s) ELSE UNCHANGED <<sessionIds, sessionHistory>>
    BY DEF Registers
  <1>3. PICK x : x = [[[procs[p] EXCEPT !.linked = TRUE] EXCEPT !.session = s]
                         EXCEPT !.signalled = @ \/ StillThere(p)]
    OBVIOUS
  <1>4. StillThere(p) \in BOOLEAN
    BY DEF StillThere
  <1>5. s \in Session
    BY <1>1, <1>2, Constants DEF Proc
  <1>6. /\ x \in Proc /\ x.key = procs[p].key /\ x.midKill = procs[p].midKill
        /\ x.session = s /\ (x.open <=> procs[p].open)
    BY <1>1, <1>3, <1>4, <1>5 DEF Proc
  <1>7. procs' = [procs EXCEPT ![p] = x]
    <2>1. /\ procs = [q \in DOMAIN procs |-> procs[q]]
      BY LenProperties DEF TerminalInv
    <2> QED BY <2>1, <1>2, <1>3
  <1>8. /\ Continued /\ DOMAIN procs' = DOMAIN procs /\ procs'[p] = x
        /\ \A q \in DOMAIN procs : q # p => procs'[q] = procs[q]
    BY <1>6, <1>7, Editing
  <1>9. UNCHANGED <<ptyProcesses, agentToTerminal>>
    BY DEF Registers
  <1> QED BY <1>2, <1>6, <1>8, <1>9, Resting

LEMMA Unlinking ==
  ASSUME TerminalInv, NEW p \in DOMAIN procs, LosesLink(p)
  PROVE  TerminalInv' /\ Fades /\ Quiet /\ \A j \in Key : FadesAt(j)
  <1>1. procs[p] \in Proc
    BY Procs
  <1>2. PICK x : x = [procs[p] EXCEPT !.linked = FALSE]
    OBVIOUS
  <1>3. /\ x \in Proc /\ x.key = procs[p].key /\ x.midKill = procs[p].midKill
        /\ x.session = procs[p].session /\ x.linked = FALSE /\ (x.open <=> procs[p].open)
    BY <1>1, <1>2 DEF Proc
  <1>4. procs' = [procs EXCEPT ![p] = x]
    BY <1>2 DEF LosesLink
  <1>5. Continued /\ Quiet /\ DOMAIN procs' = DOMAIN procs
    BY <1>3, <1>4, Editing
  <1> QED BY <1>5, Resting DEF LosesLink

LEMMA Transferring ==
  ASSUME TerminalInv, NEW from \in Key, NEW to \in Key, Transfer(from, to)
  PROVE  /\ TerminalInv' /\ Fades /\ Quiet /\ UNCHANGED <<procs, ptyProcesses>>
         /\ \A j \in Key : j # to => agentToTerminal'[j] = agentToTerminal[j]
         /\ agentToTerminal'[to] # NoKey => agentToTerminal'[to] = agentToTerminal[from]
         /\ \A r \in Request : req[r].key # to
         /\ agentToTerminal[to] = NoKey /\ ptyProcesses[to] = None
  <1>1. /\ ptyProcesses \in [Key -> DOMAIN procs \cup {None}]
        /\ agentToTerminal \in [Key -> Key \cup {NoKey}]
        /\ \A j \in Key : ptyProcesses[j] # None =>
              procs[ptyProcesses[j]].key = j /\ agentToTerminal[j] = j
        /\ procs \in Seq(Proc) /\ Len(procs) <= MaxTerminals /\ NoOrphan
    BY DEF TerminalInv
  <1>2. /\ UNCHANGED <<procs, ptyProcesses>>
        /\ ptyProcesses[to] = None /\ agentToTerminal[to] = NoKey
        /\ \A r \in Request : req[r].key # to
        /\ \/ agentToTerminal' = agentToTerminal
           \/ agentToTerminal' = [agentToTerminal EXCEPT ![to] = agentToTerminal[from]]
    BY DEF Transfer, NewOffice
  <1>3. /\ agentToTerminal' \in [Key -> Key \cup {NoKey}]
        /\ \A j \in Key : j # to => agentToTerminal'[j] = agentToTerminal[j]
        /\ agentToTerminal'[to] # NoKey => agentToTerminal'[to] = agentToTerminal[from]
    BY <1>1, <1>2
  <1>4. NoOrphan'
    BY <1>1, <1>2 DEF NoOrphan, StillThere
  <1> QED BY <1>1, <1>2, <1>3, <1>4 DEF TerminalInv, Fades, Continued, Quiet

(* A launched terminal takes a place that is free.                         *)
LEMMA Launching ==
  ASSUME TerminalInv, NEW k \in Key, ptyProcesses[k] = None,
         NEW p, p = Len(procs) + 1, p <= MaxTerminals,
         NEW x \in Proc, x.key = k, procs' = Append(procs, x),
         ptyProcesses' \in [Key -> DOMAIN procs \cup {p, None}], ptyProcesses'[k] = p,
         agentToTerminal' \in [Key -> Key \cup {NoKey}], agentToTerminal'[k] = k,
         \A j \in Key : j # k => /\ ptyProcesses'[j] = ptyProcesses[j]
                                 /\ agentToTerminal'[j] = agentToTerminal[j]
  PROVE  /\ TerminalInv' /\ p \notin DOMAIN procs /\ p # None
         /\ DOMAIN procs' = DOMAIN procs \cup {p}
         /\ \A q \in DOMAIN procs : procs'[q] = procs[q]
         /\ procs'[p] = x
  <1>3. /\ procs \in Seq(Proc) /\ Len(procs) \in Nat /\ DOMAIN procs = 1..Len(procs)
    BY Procs DEF TerminalInv
  <1>5. /\ procs' \in Seq(Proc) /\ Len(procs') = p /\ DOMAIN procs' = 1..p
        /\ procs'[p] = x
        /\ \A q \in DOMAIN procs : procs'[q] = procs[q]
    BY <1>3, AppendProperties, LenProperties
  <1>6. /\ p \notin DOMAIN procs /\ p # None /\ DOMAIN procs' = DOMAIN procs \cup {p}
    BY <1>3, <1>5, Constants
  <1>7. /\ ptyProcesses \in [Key -> DOMAIN procs \cup {None}]
        /\ agentToTerminal \in [Key -> Key \cup {NoKey}]
        /\ \A j \in Key : ptyProcesses[j] # None =>
              procs[ptyProcesses[j]].key = j /\ agentToTerminal[j] = j
        /\ \A q \in DOMAIN procs : procs[q].open => ptyProcesses[procs[q].key] = q
        /\ \A q \in DOMAIN procs : procs[q].key \in Key
        /\ None \notin DOMAIN procs
    BY Procs DEF TerminalInv, NoOrphan, StillThere, Proc
  <1>8. /\ ptyProcesses' \in [Key -> DOMAIN procs' \cup {None}]
        /\ agentToTerminal' \in [Key -> Key \cup {NoKey}]
    BY <1>6, <1>7
  <1>9. \A j \in Key : ptyProcesses'[j] # None =>
           procs'[ptyProcesses'[j]].key = j /\ agentToTerminal'[j] = j
    <2>1. ASSUME NEW j \in Key, ptyProcesses'[j] # None
          PROVE  procs'[ptyProcesses'[j]].key = j /\ agentToTerminal'[j] = j
      <3>1. CASE j = k
        BY <3>1, <1>5, <1>7
      <3>2. CASE j # k
        BY <2>1, <3>2, <1>5, <1>7
      <3> QED BY <3>1, <3>2
    <2> QED BY <2>1
  <1>10. NoOrphan'
    <2>1. ASSUME NEW q \in DOMAIN procs', procs'[q].open
          PROVE  ptyProcesses'[procs'[q].key] = q
      <3>1. CASE q = p
        BY <3>1, <1>5, <1>7
      <3>2. CASE q # p
        <4>1. q \in DOMAIN procs /\ procs'[q] = procs[q]
          BY <3>2, <1>5, <1>6
        <4>2. ptyProcesses[procs[q].key] = q /\ q # None
          BY <2>1, <4>1, <1>7
        <4> QED BY <4>1, <4>2, <1>7
      <3> QED BY <3>1, <3>2
    <2> QED BY <2>1 DEF NoOrphan, StillThere
  <1> QED BY <1>5, <1>6, <1>8, <1>9, <1>10 DEF TerminalInv

-----------------------------------------------------------------------------
(* Event sources and kills under way.                                      *)

LEMMA Watching ==
  ASSUME WatchInv, TerminalInv, Fades,
         agentWatchers' \in [Key -> DOMAIN procs \cup {None}],
         \A k \in Key : \/ agentWatchers'[k] = agentWatchers[k]
                        \/ ptyProcesses'[k] = None \/ k \in killing,
         agentReadyState' \subseteq Key, activeAgentViewers' \subseteq Key,
         killing' \subseteq Key,
         \A k \in killing' : k \in killing \/ ptyProcesses'[k] = None
  PROVE  WatchInv'
  <1>1. /\ \A k \in Key : ptyProcesses[k] \in DOMAIN procs \cup {None}
        /\ \A k \in Key : ptyProcesses'[k] \in {ptyProcesses[k], None}
        /\ \A p \in DOMAIN procs : procs'[p].midKill = procs[p].midKill
        /\ DOMAIN procs' = DOMAIN procs
    BY LenProperties DEF TerminalInv, Fades, Continued
  <1>2. ASSUME NEW k \in Key, ptyProcesses'[k] # None
        PROVE  /\ ptyProcesses'[k] = ptyProcesses[k]
               /\ procs'[ptyProcesses[k]].midKill = procs[ptyProcesses[k]].midKill
               /\ k \in killing => procs'[ptyProcesses'[k]].midKill
               /\ agentWatchers'[k] = ptyProcesses'[k] \/ procs'[ptyProcesses'[k]].midKill
    <2>1. ptyProcesses'[k] = ptyProcesses[k] /\ ptyProcesses[k] \in DOMAIN procs
      BY <1>1, <1>2
    <2>2. procs'[ptyProcesses[k]].midKill = procs[ptyProcesses[k]].midKill
      BY <1>1, <2>1
    <2>3. k \in killing => procs'[ptyProcesses'[k]].midKill
      BY <2>1, <2>2, <1>2 DEF WatchInv
    <2>4. agentWatchers[k] = ptyProcesses[k] \/ procs[ptyProcesses[k]].midKill
      BY <2>1, <1>2 DEF WatchInv, EventsAreSeen
    <2> QED BY <2>1, <2>2, <2>3, <2>4, <1>2
  <1>3. EventsAreSeen'
    BY <1>2 DEF EventsAreSeen
  <1>4. \A k \in killing' : ptyProcesses'[k] # None => procs'[ptyProcesses'[k]].midKill
    BY <1>2
  <1> QED BY <1>1, <1>3, <1>4 DEF WatchInv

-----------------------------------------------------------------------------
(* Sessions.                                                               *)

(* Where the session of a key is changed, no terminal is shown.            *)
LEMMA SessionsKept ==
  ASSUME SessionInv, TerminalInv, Fades, Quiet,
         \A k \in Key : FadesAt(k),
         minted' \in 0..MaxSessions, minted <= minted',
         sessionIds' \in [Key -> 0..minted'],
         sessionHistory' \in [Key -> SUBSET (1..minted')],
         \A k \in Key : sessionIds'[k] \notin sessionHistory'[k],
         \A r \in Request : req'[r].session <= minted',
         \A k \in Key : \/ sessionIds'[k] = sessionIds[k]
                        \/ /\ ptyProcesses'[k] = None
                           /\ agentToTerminal'[k] # NoKey =>
                                 ptyProcesses'[agentToTerminal'[k]] = None
  PROVE  SessionInv'
  <1>1. /\ \A k \in Key : ptyProcesses[k] \in DOMAIN procs \cup {None}
        /\ \A k \in Key : ptyProcesses'[k] \in {ptyProcesses[k], None}
        /\ \A p \in DOMAIN procs : procs'[p].session = procs[p].session
                                   /\ (procs'[p].linked => procs[p].linked)
        /\ DOMAIN procs' = DOMAIN procs
    BY LenProperties DEF TerminalInv, Fades, Continued, Quiet
  <1>2. minted \in Nat /\ minted' \in Nat /\ \A p \in DOMAIN procs : procs[p].session \in Nat
    BY Procs, Constants DEF SessionInv, Proc
  <1>3. \A p \in DOMAIN procs' : procs'[p].session <= minted'
    BY <1>1, <1>2 DEF SessionInv
  <1>4. SessionsAgree'
    <2>1. ASSUME NEW k \in Key, ReadyTerminal(ptyProcesses[k])', NEW j \in Key,
                 j = k \/ agentToTerminal'[j] = k
          PROVE  sessionIds'[j] = procs'[ptyProcesses'[k]].session
      <3>1. ptyProcesses'[k] # None /\ procs'[ptyProcesses'[k]].linked
        BY <2>1 DEF ReadyTerminal
      <3>2. ptyProcesses'[k] = ptyProcesses[k] /\ ptyProcesses[k] \in DOMAIN procs
        BY <1>1, <3>1
      <3>3. ReadyTerminal(ptyProcesses[k])
        BY <1>1, <3>1, <3>2 DEF ReadyTerminal
      <3>4. k # NoKey
        BY Constants
      <3>5. j = k \/ agentToTerminal[j] = k
        BY <2>1, <3>4 DEF FadesAt
      <3>6. sessionIds[j] = procs[ptyProcesses[k]].session
        BY <3>3, <3>5 DEF SessionInv, SessionsAgree, OfficesOf
      <3>7. sessionIds'[j] = sessionIds[j]
        BY <2>1, <3>1, <3>4
      <3> QED BY <1>1, <3>2, <3>6, <3>7
    <2> QED BY <2>1 DEF SessionsAgree, OfficesOf
  <1> QED BY <1>3, <1>4 DEF SessionInv

LEMMA SessionsLeft ==
  ASSUME SessionInv, TerminalInv, Fades, Quiet, \A k \in Key : FadesAt(k),
         UNCHANGED sessionVars, \A r \in Request : req'[r].session <= minted
  PROVE  SessionInv'
  <1>1. minted' = minted /\ sessionIds' = sessionIds /\ sessionHistory' = sessionHistory
    BY DEF sessionVars
  <1>2. minted \in Nat /\ minted <= minted'
    BY <1>1, Constants DEF SessionInv
  <1> QED BY <1>1, <1>2, SessionsKept DEF SessionInv

-----------------------------------------------------------------------------
(* Requests.                                                               *)

LEMMA Requests ==
  ASSUME RequestInv, NEW r \in Request
  PROVE  /\ req[r] \in Req /\ Underway(r) /\ r # None
         /\ req[r].proc \in Terminal \cup {None} /\ req[r].with \in Request \cup {None}
         /\ req[r].session \in Session \cup {None} /\ req[r].key \in Key \cup {NoKey}
         /\ req[r].pc \in {"none", "launching", "delivering", "coalesced", "started",
                           "waiting", "joining", "answered"}
  <1>1. req[r] \in Req /\ Underway(r)
    BY DEF RequestInv
  <1>2. r # None
    BY Constants
  <1> QED BY <1>1, <1>2 DEF Req

LEMMA NothingAsked ==
  /\ NoRequest \in Req /\ NoRequest.pc = "none" /\ NoRequest.proc = None /\ ~NoRequest.re
  /\ NoRequest.session = None /\ NoRequest.with = None /\ NoRequest.key = NoKey
  /\ Answered \in Req /\ Answered.pc = "answered" /\ Answered.proc = None /\ ~Answered.re
  /\ Answered.session = None /\ Answered.with = None /\ Answered.key = NoKey
  /\ Answered.kind = "plain"
  BY DEF NoRequest, Answered, Req, Kind

(* A request that waits for a terminal which is still there knows its key. *)
LEMMA StillWaited ==
  ASSUME TerminalInv, Fades, RequestInv, NEW r \in Request, req[r].pc = "waiting",
         FadesAt(req[r].key), ptyProcesses'[procs'[req[r].proc].key] = req[r].proc
  PROVE  /\ StillThere(req[r].proc)
         /\ agentToTerminal'[req[r].key] = procs'[req[r].proc].key
  <1>1. /\ req[r].proc \in DOMAIN procs /\ req[r].proc # None /\ req[r].key \in Key
        /\ StillThere(req[r].proc) => agentToTerminal[req[r].key] = procs[req[r].proc].key
    BY Requests DEF Underway
  <1>2. PICK p : p = req[r].proc
    OBVIOUS
  <1>3. procs[p].key \in Key /\ procs'[p].key = procs[p].key
    BY <1>1, <1>2, Procs DEF Fades, Continued, Proc
  <1>4. ptyProcesses'[procs[p].key] = p /\ ptyProcesses[procs[p].key] = p
    BY <1>1, <1>2, <1>3 DEF Fades
  <1>5. StillThere(p) /\ agentToTerminal[req[r].key] = procs[p].key
    BY <1>1, <1>2, <1>4 DEF StillThere
  <1>6. procs[p].key # NoKey
    BY <1>3, Constants
  <1> QED BY <1>1, <1>2, <1>3, <1>4, <1>5, <1>6 DEF FadesAt

(* Requests end, or begin to wait, while terminals fade.                   *)
LEMMA RequestsKept ==
  ASSUME RequestInv, TerminalInv, Fades,
         \A r \in Request : req[r].key \in Key => FadesAt(req[r].key),
         req' \in [Request -> Req], inFlightStarts' = inFlightStarts,
         recoveries' \in [Key -> Request \cup {None}],
         \A r \in Request :
            \/ req'[r] = req[r]
            \/ /\ req[r].pc \notin {"launching", "delivering"}
               /\ \/ req'[r].pc = "answered" /\ req'[r].proc = None
                  \/ req'[r].pc = "joining" /\ req'[r].proc = None /\ req'[r].key \in Key
                  \/ /\ req'[r].pc = "waiting" /\ req'[r].key \in Key
                     /\ req'[r].proc \in DOMAIN procs
                     /\ agentToTerminal'[req'[r].key] = procs'[req'[r].proc].key
                     /\ inFlightStarts[req'[r].key] = None
  PROVE  RequestInv'
  <1>1. DOMAIN procs' = DOMAIN procs /\ None \notin DOMAIN procs
    BY Procs, LenProperties DEF Fades, Continued
  <1>2. \A k \in Key : inFlightStarts[k] # None =>
          /\ inFlightStarts[k] \in Request
          /\ req'[inFlightStarts[k]] = req[inFlightStarts[k]]
          /\ req[inFlightStarts[k]].key = k
          /\ req[inFlightStarts[k]].pc \in {"launching", "delivering"}
    BY DEF RequestInv
  <1>3. ASSUME NEW r \in Request
        PROVE  Underway(r)'
    <2>1. CASE req'[r] = req[r]
      <3>1. Underway(r) /\ req[r].key \in Key \cup {NoKey}
        BY Requests
      <3>2. req[r].pc = "launching" => ptyProcesses'[req[r].key] = None
        BY <3>1 DEF Fades, Underway
      <3>3. req[r].pc = "waiting" /\ ptyProcesses'[procs'[req[r].proc].key] = req[r].proc =>
              /\ agentToTerminal'[req[r].key] = procs'[req[r].proc].key
              /\ inFlightStarts[req[r].key] # None =>
                    req'[inFlightStarts[req[r].key]].pc = "delivering"
        <4>1. SUFFICES ASSUME req[r].pc = "waiting",
                              ptyProcesses'[procs'[req[r].proc].key] = req[r].proc
                       PROVE  /\ agentToTerminal'[req[r].key] = procs'[req[r].proc].key
                              /\ inFlightStarts[req[r].key] # None =>
                                    req'[inFlightStarts[req[r].key]].pc = "delivering"
          OBVIOUS
        <4>2. req[r].key \in Key
          BY <3>1, <4>1 DEF Underway
        <4>3. StillThere(req[r].proc) /\ agentToTerminal'[req[r].key] = procs'[req[r].proc].key
          BY <4>1, <4>2, StillWaited
        <4> QED BY <3>1, <4>1, <4>2, <4>3, <1>2 DEF Underway
      <3> QED BY <2>1, <1>1, <3>1, <3>2, <3>3 DEF Underway, StillThere
    <2>2. CASE req'[r] # req[r]
      BY <2>2, <1>1 DEF Underway, StillThere
    <2> QED BY <2>1, <2>2
  <1>4. \A k \in Key : inFlightStarts'[k] # None =>
          /\ req'[inFlightStarts'[k]].key = k
          /\ req'[inFlightStarts'[k]].pc \in {"launching", "delivering"}
    BY <1>2
  <1> QED BY <1>3, <1>4 DEF RequestInv

(* Nobody asks for anything, and what is asked stays.                      *)
LEMMA RequestsLeft ==
  ASSUME RequestInv, TerminalInv, Fades,
         \A r \in Request : req[r].key \in Key => FadesAt(req[r].key),
         UNCHANGED requestVars
  PROVE  RequestInv'
  <1>1. req' = req /\ inFlightStarts' = inFlightStarts /\ recoveries' = recoveries
    BY DEF requestVars
  <1>2. /\ req \in [Request -> Req] /\ recoveries \in [Key -> Request \cup {None}]
    BY DEF RequestInv
  <1> QED BY <1>1, <1>2, RequestsKept

LEMMA Answering ==
  ASSUME RequestInv, NEW R \in SUBSET Request, Answer(R),
         \A r \in R : req[r].pc \in {"started", "waiting"}
  PROVE  /\ req' \in [Request -> Req]
         /\ \A r \in Request :
               \/ req'[r] = req[r]
               \/ /\ req[r].pc \notin {"launching", "delivering", "none"}
                  /\ req'[r] = Answered
         /\ \A r \in R : req'[r] = Answered
         /\ \A r \in Request : req'[r] # req[r] =>
               r \in R \/ (req[r].pc = "joining" /\ req[r].with \in R)
         /\ \A r \in Request : req[r].pc = "joining" /\ req[r].with \in R => req'[r] = Answered
  <1>1. req' = [r \in Request |-> IF r \in R \cup Joined(R) THEN Answered ELSE req[r]]
    BY DEF Answer
  <1>2. Joined(R) = {j \in Request : req[j].pc = "joining" /\ req[j].with \in R}
    BY DEF Joined
  <1>3. req \in [Request -> Req]
    BY DEF RequestInv
  <1>4. \A r \in Request : req'[r] = IF r \in R \cup Joined(R) THEN Answered ELSE req[r]
    BY <1>1
  <1>5. req' \in [Request -> Req]
    BY <1>1, <1>3, NothingAsked
  <1>6. \A r \in Request : r \in Joined(R) <=> req[r].pc = "joining" /\ req[r].with \in R
    BY <1>2
  <1>7. \A r \in R \cup Joined(R) : req[r].pc \notin {"launching", "delivering", "none"}
    BY <1>2
  <1> QED BY <1>4, <1>5, <1>6, <1>7

LEMMA AnswersEnd ==
  ASSUME RequestInv, TerminalInv, Fades,
         \A r \in Request : req[r].key \in Key => FadesAt(req[r].key),
         NEW R \in SUBSET Request, Answer(R),
         \A r \in R : req[r].pc \in {"started", "waiting"},
         inFlightStarts' = inFlightStarts,
         recoveries' = recoveries \/ recoveries' = RecoveriesAfter(R)
  PROVE  /\ RequestInv'
         /\ \A r \in Request : req'[r].pc = "none" => req[r].pc = "none"
         /\ SessionInv => \A r \in Request : req'[r].session <= minted
  <1>1. /\ req' \in [Request -> Req]
        /\ \A r \in Request :
              \/ req'[r] = req[r]
              \/ /\ req[r].pc \notin {"launching", "delivering", "none"}
                 /\ req'[r] = Answered
    BY Answering
  <1>2. recoveries' \in [Key -> Request \cup {None}]
    BY DEF RequestInv, RecoveriesAfter
  <1>3. RequestInv'
    BY <1>1, <1>2, NothingAsked, RequestsKept
  <1>4. \A r \in Request : req'[r].pc = "none" => req[r].pc = "none"
    BY <1>1, NothingAsked
  <1>5. SessionInv => \A r \in Request : req'[r].session <= minted
    BY <1>1, NothingAsked, Constants DEF SessionInv
  <1> QED BY <1>3, <1>4, <1>5

(* A start is over, with or without a terminal of its own.                 *)
LEMMA StartOver ==
  ASSUME RequestInv, TerminalInv, NEW r \in Request,
         req[r].pc \in {"launching", "delivering"},
         NEW ok \in BOOLEAN, NEW reused \in BOOLEAN, Over(r, ok, reused),
         recoveries' = recoveries,
         DOMAIN procs \subseteq DOMAIN procs',
         \A q \in DOMAIN procs : procs'[q].key = procs[q].key,
         \A j \in Key : j # req[r].key => /\ ptyProcesses'[j] = ptyProcesses[j]
                                          /\ agentToTerminal'[j] = agentToTerminal[j],
         ptyProcesses'[req[r].key] = ptyProcesses[req[r].key]
            \/ ptyProcesses'[req[r].key] \notin DOMAIN procs,
         agentToTerminal'[req[r].key] = agentToTerminal[req[r].key] \/ req[r].pc = "launching"
  PROVE  /\ RequestInv'
         /\ \A s \in Request : req'[s].pc = "none" => req[s].pc = "none"
         /\ \A s \in Request : req'[s].session \in {req[s].session, None}
         /\ \A s \in Request : req[s].pc = "coalesced" /\ req[s].with = r => req'[s].pc = "started"
         /\ \A s \in Request : \/ req'[s] = req[s] /\ s # r
                               \/ /\ req'[s].pc = "started" /\ req'[s].key = req[s].key
                                  /\ req'[s].re = req[s].re /\ req'[s].had = req[s].had
                                  /\ req'[s].kind = req[s].kind
                                  /\ req'[s].ok = ok
                                  /\ s = r \/ (req[s].pc = "coalesced" /\ req[s].with = r)
  <1>1. PICK k : k = req[r].key
    OBVIOUS
  <1>2. k \in Key /\ inFlightStarts[k] = r /\ r # None
    BY <1>1, Requests DEF Underway
  <1>3. inFlightStarts' = [inFlightStarts EXCEPT ![k] = None]
    BY <1>1 DEF Over
  <1>4. /\ inFlightStarts' \in [Key -> Request \cup {None}]
        /\ inFlightStarts'[k] = None
        /\ \A j \in Key : j # k => inFlightStarts'[j] = inFlightStarts[j]
    BY <1>2, <1>3 DEF RequestInv
  <1>5. \A s \in Request : req'[s] =
           IF s = r THEN [req[s] EXCEPT !.pc = "started", !.ok = ok, !.reused = reused,
                                        !.session = None, !.proc = None]
           ELSE IF req[s].pc = "coalesced" /\ req[s].with = r
                THEN [req[s] EXCEPT !.pc = "started", !.ok = ok, !.reused = ok, !.with = None]
                ELSE req[s]
    BY DEF Over
  <1>6. ASSUME NEW s \in Request
        PROVE  /\ req'[s] \in Req
               /\ req'[s].pc = "none" => req[s].pc = "none"
               /\ req'[s].session \in {req[s].session, None}
               /\ \/ req'[s] = req[s] /\ s # r
                  \/ /\ req'[s].pc = "started" /\ req'[s].key = req[s].key
                     /\ req'[s].re = req[s].re /\ req'[s].had = req[s].had
                     /\ req'[s].kind = req[s].kind
                     /\ req'[s].ok = ok
                     /\ req'[s].proc \in {req[s].proc, None}
                     /\ s = r \/ (req[s].pc = "coalesced" /\ req[s].with = r)
    <2>1. req[s] \in Req
      BY Requests
    <2>2. CASE s = r
      <3>1. req'[s] = [req[s] EXCEPT !.pc = "started", !.ok = ok, !.reused = reused,
                                     !.session = None, !.proc = None]
        BY <1>5, <2>2
      <3> QED BY <2>1, <2>2, <3>1 DEF Req
    <2>3. CASE s # r /\ req[s].pc = "coalesced" /\ req[s].with = r
      <3>1. req'[s] = [req[s] EXCEPT !.pc = "started", !.ok = ok, !.reused = ok, !.with = None]
        BY <1>5, <2>3
      <3> QED BY <2>1, <2>3, <3>1 DEF Req
    <2>4. CASE s # r /\ ~(req[s].pc = "coalesced" /\ req[s].with = r)
      <3>1. req'[s] = req[s]
        BY <1>5, <2>4
      <3> QED BY <2>1, <2>4, <3>1
    <2> QED BY <2>2, <2>3, <2>4
  <1>7. req' \in [Request -> Req]
    <2>1. req' = [s \in Request |-> req'[s]]
      BY DEF Over
    <2> QED BY <2>1, <1>6
  <1>8. ASSUME NEW s \in Request, req'[s] # req[s] \/ s = r
        PROVE  req[s].key = k
    <2>1. s = r \/ (req[s].pc = "coalesced" /\ req[s].with = r)
      BY <1>6, <1>8
    <2>2. CASE s # r
      <3>1. req[s].key \in Key /\ inFlightStarts[req[s].key] = r
        BY <2>1, <2>2, Requests DEF Underway
      <3> QED BY <1>1, <1>2, <3>1 DEF RequestInv
    <2> QED BY <1>1, <2>2
  <1>9. \A j \in Key : inFlightStarts'[j] # None =>
           /\ j # k /\ inFlightStarts'[j] = inFlightStarts[j]
           /\ req'[inFlightStarts[j]] = req[inFlightStarts[j]]
           /\ req[inFlightStarts[j]].key = j
           /\ req[inFlightStarts[j]].pc \in {"launching", "delivering"}
    <2>1. ASSUME NEW j \in Key, inFlightStarts'[j] # None
          PROVE  /\ j # k /\ inFlightStarts'[j] = inFlightStarts[j]
                 /\ req'[inFlightStarts[j]] = req[inFlightStarts[j]]
                 /\ req[inFlightStarts[j]].key = j
                 /\ req[inFlightStarts[j]].pc \in {"launching", "delivering"}
      <3>1. j # k /\ inFlightStarts'[j] = inFlightStarts[j]
        BY <2>1, <1>4
      <3>2. /\ inFlightStarts[j] \in Request /\ req[inFlightStarts[j]].key = j
            /\ req[inFlightStarts[j]].pc \in {"launching", "delivering"}
        BY <2>1, <3>1 DEF RequestInv
      <3> QED BY <3>1, <3>2, <1>8
    <2> QED BY <2>1
  <1>10. ASSUME NEW s \in Request
         PROVE  Underway(s)'
    <2>1. Underway(s) /\ req[s].key \in Key \cup {NoKey}
      BY Requests
    <2>2. CASE req'[s] # req[s] \/ s = r
      <3>1. req'[s].pc = "started" /\ req'[s].key = k
        BY <2>2, <1>6, <1>8
      <3>2. req'[s].proc \in DOMAIN procs' \cup {None}
        BY <2>1, <2>2, <1>6 DEF Underway
      <3> QED BY <3>1, <3>2, <1>2, <1>4 DEF Underway
    <2>3. CASE req'[s] = req[s] /\ s # r
      <3>1. req[s].pc \in {"launching", "delivering"} =>
               inFlightStarts[req[s].key] = s /\ req[s].key # k
        BY <2>1, <2>3, <1>2 DEF Underway
      <3>2. req[s].pc = "coalesced" =>
               inFlightStarts[req[s].key] = req[s].with /\ req[s].with # None /\ req[s].key # k
        <4>1. req[s].pc = "coalesced" => req[s].with # r
          <5>1. SUFFICES ASSUME req[s].pc = "coalesced", req[s].with = r
                         PROVE  FALSE
            OBVIOUS
          <5>2. req'[s].pc = "started"
            <6>1. req[s] \in Req /\ s # r
              BY <2>3, Requests
            <6>2. req'[s] = [req[s] EXCEPT !.pc = "started", !.ok = ok, !.reused = ok,
                                           !.with = None]
              BY <1>5, <5>1, <6>1
            <6> QED BY <6>1, <6>2 DEF Req
          <5>3. req[s].pc = "started"
            BY <5>2, <2>3
          <5> QED BY <5>1, <5>3
        <4> QED BY <4>1, <2>1, <1>2 DEF Underway
      <3>3. req[s].pc = "started" => inFlightStarts'[req[s].key] = None
        BY <2>1, <1>4 DEF Underway
      <3>4. req[s].pc = "launching" => ptyProcesses'[req[s].key] = None
        BY <2>1, <3>1, <1>1 DEF Underway
      <3>5. req[s].pc = "waiting" /\ ptyProcesses'[procs'[req[s].proc].key] = req[s].proc =>
               /\ agentToTerminal'[req[s].key] = procs'[req[s].proc].key
               /\ inFlightStarts'[req[s].key] # None =>
                     req'[inFlightStarts'[req[s].key]].pc = "delivering"
        <4>1. SUFFICES ASSUME req[s].pc = "waiting",
                              ptyProcesses'[procs'[req[s].proc].key] = req[s].proc
                       PROVE  /\ agentToTerminal'[req[s].key] = procs'[req[s].proc].key
                              /\ inFlightStarts'[req[s].key] # None =>
                                    req'[inFlightStarts'[req[s].key]].pc = "delivering"
          OBVIOUS
        <4>2. /\ req[s].key \in Key /\ req[s].proc \in DOMAIN procs
          BY <2>1, <4>1 DEF Underway
        <4>3. procs'[req[s].proc].key = procs[req[s].proc].key /\ procs[req[s].proc].key \in Key
          BY <4>2, Procs DEF Proc
        <4>4. ptyProcesses[procs[req[s].proc].key] = req[s].proc
          BY <4>1, <4>2, <4>3, <1>1
        <4>5. /\ agentToTerminal[req[s].key] = procs[req[s].proc].key
              /\ inFlightStarts[req[s].key] # None =>
                    req[inFlightStarts[req[s].key]].pc = "delivering"
          BY <2>1, <4>1, <4>4 DEF Underway, StillThere
        <4>6. agentToTerminal'[req[s].key] = agentToTerminal[req[s].key]
          <5>1. CASE req[s].key = k
            BY <5>1, <4>5, <1>1, <1>2
          <5>2. CASE req[s].key # k
            BY <5>2, <4>2, <1>1
          <5> QED BY <5>1, <5>2
        <4>7. inFlightStarts'[req[s].key] # None =>
                 req'[inFlightStarts'[req[s].key]].pc = "delivering"
          BY <4>2, <4>5, <1>9
        <4> QED BY <4>3, <4>5, <4>6, <4>7
      <3>6. req[s].proc \in DOMAIN procs' \cup {None}
        BY <2>1 DEF Underway
      <3>7. \A j \in Key : j # k => inFlightStarts'[j] = inFlightStarts[j]
        BY <1>4
      <3> QED BY <2>1, <2>3, <3>1, <3>2, <3>3, <3>4, <3>5, <3>6, <3>7 DEF Underway, StillThere
    <2> QED BY <2>2, <2>3
  <1>11. \A j \in Key : inFlightStarts'[j] # None =>
            /\ req'[inFlightStarts'[j]].key = j
            /\ req'[inFlightStarts'[j]].pc \in {"launching", "delivering"}
    BY <1>9
  <1>12. RequestInv'
    BY <1>4, <1>7, <1>10, <1>11 DEF RequestInv
  <1>13. \A s \in Request : req[s].pc = "coalesced" /\ req[s].with = r => req'[s].pc = "started"
    <2>1. SUFFICES ASSUME NEW s \in Request, req[s].pc = "coalesced", req[s].with = r
                   PROVE  req'[s].pc = "started"
      OBVIOUS
    <2>2. s # r /\ req[s] \in Req
      BY <2>1, Requests
    <2>3. req'[s] = [req[s] EXCEPT !.pc = "started", !.ok = ok, !.reused = ok, !.with = None]
      BY <1>5, <2>1, <2>2
    <2> QED BY <2>2, <2>3 DEF Req
  <1> QED BY <1>6, <1>12, <1>13


(* A start begins, on the session that its office has or on a new one.     *)
LEMMA BeginSessions ==
  ASSUME RequestInv, SessionInv, TerminalInv, TerminalInv', Fades, Quiet,
         \A j \in Key : FadesAt(j),
         NEW r \in Request, NEW q \in Req, q.key \in Key, q.session <= minted, NEW queue,
         NEW aliases, aliases = agentToTerminal', NEW terminals, terminals = ptyProcesses',
         Begin(r, q, queue, aliases, terminals), sessionHistory' = sessionHistory
  PROVE  SessionInv' /\ sessionIds' \in [Key -> Session \cup {None}]
  <1>1. PICK k \in Key : k = q.key
    OBVIOUS
  <1>2. /\ minted \in 0..MaxSessions /\ minted \in Nat
        /\ sessionIds \in [Key -> 0..minted]
        /\ sessionHistory \in [Key -> SUBSET (1..minted)]
        /\ \A j \in Key : sessionIds[j] \notin sessionHistory[j]
        /\ \A s \in Request : req[s].session <= minted
        /\ req \in [Request -> Req]
        /\ \A s \in Request : req[s].session \in Nat
    <2>1. \A s \in Request : req[s].session \in Nat
      BY Requests, Constants
    <2> QED BY <2>1, Constants DEF SessionInv, RequestInv
  <1>3. \/ /\ UNCHANGED <<sessionIds, minted>>
           /\ \A s \in Request : req'[s].session \in {req[s].session, q.session}
        \/ /\ ~Reusable(k, aliases, terminals)
           /\ \/ sessionIds[k] # None /\ UNCHANGED <<sessionIds, minted>>
              \/ /\ minted < MaxSessions /\ minted' = minted + 1
                 /\ sessionIds' = [sessionIds EXCEPT ![k] = minted + 1]
           /\ \A s \in Request : req'[s].session \in {req[s].session, sessionIds'[k]}
    <2>1. CASE UNCHANGED <<sessionIds, minted>>
               /\ \E f : req' = [req EXCEPT ![r] = f] /\ f.session = q.session
      <3>1. PICK f : req' = [req EXCEPT ![r] = f] /\ f.session = q.session
        BY <2>1
      <3>2. \A s \in Request : req'[s] = IF s = r THEN f ELSE req[s]
        BY <3>1, <1>2
      <3> QED BY <2>1, <3>1, <3>2
    <2>2. CASE /\ ~Reusable(k, aliases, terminals)
               /\ \/ sessionIds[k] # None /\ UNCHANGED <<sessionIds, minted>>
                  \/ /\ minted < MaxSessions /\ minted' = minted + 1
                     /\ sessionIds' = [sessionIds EXCEPT ![k] = minted + 1]
               /\ req' = [req EXCEPT ![r] = [q EXCEPT !.pc = "launching",
                                                      !.session = sessionIds'[k]]]
      <3>1. PICK f : f = [q EXCEPT !.pc = "launching", !.session = sessionIds'[k]]
        OBVIOUS
      <3>2. f.session = sessionIds'[k]
        BY <3>1 DEF Req
      <3>3. \A s \in Request : req'[s] = IF s = r THEN f ELSE req[s]
        BY <2>2, <3>1, <1>2
      <3> QED BY <2>2, <3>2, <3>3
    <2>3. CASE req' = [req EXCEPT ![r] = [q EXCEPT !.pc = "coalesced",
                                                  !.with = inFlightStarts[k]]]
               /\ UNCHANGED <<sessionIds, minted>>
      <3>1. [q EXCEPT !.pc = "coalesced", !.with = inFlightStarts[k]].session = q.session
        BY DEF Req
      <3> QED BY <2>1, <2>3, <3>1
    <2>4. CASE req' = [req EXCEPT ![r] = [q EXCEPT !.pc = "started", !.ok = TRUE,
                                                   !.reused = TRUE]]
               /\ UNCHANGED <<sessionIds, minted>>
      <3>1. [q EXCEPT !.pc = "started", !.ok = TRUE, !.reused = TRUE].session = q.session
        BY DEF Req
      <3> QED BY <2>1, <2>4, <3>1
    <2>5. CASE req' = [req EXCEPT ![r] = [q EXCEPT !.pc = "delivering",
                                                   !.proc = terminals[aliases[k]]]]
               /\ UNCHANGED <<sessionIds, minted>>
      <3>1. [q EXCEPT !.pc = "delivering", !.proc = terminals[aliases[k]]].session = q.session
        BY DEF Req
      <3> QED BY <2>1, <2>5, <3>1
    <2> QED BY <1>1, <2>2, <2>3, <2>4, <2>5 DEF Begin
  <1>4. /\ minted' \in 0..MaxSessions /\ minted <= minted'
        /\ sessionIds' \in [Key -> 0..minted']
        /\ sessionHistory' \in [Key -> SUBSET (1..minted')]
        /\ \A j \in Key : \/ sessionIds'[j] = sessionIds[j]
                          \/ j = k /\ ~Reusable(k, aliases, terminals)
    <2>1. /\ minted' \in 0..MaxSessions /\ minted <= minted' /\ 0..minted \subseteq 0..minted'
          /\ 1..minted \subseteq 1..minted'
      BY <1>2, <1>3, Constants
    <2>2. sessionIds' \in [Key -> 0..minted']
      <3>1. CASE sessionIds' = sessionIds
        BY <3>1, <2>1, <1>2
      <3>2. CASE sessionIds' # sessionIds
        <4>1. sessionIds' = [sessionIds EXCEPT ![k] = minted + 1] /\ minted' = minted + 1
          BY <3>2, <1>3
        <4>2. minted + 1 \in 0..minted'
          BY <4>1, <1>2
        <4> QED BY <4>1, <4>2, <2>1, <1>2
      <3> QED BY <3>1, <3>2
    <2>3. sessionHistory' \in [Key -> SUBSET (1..minted')]
      BY <2>1, <1>2
    <2> QED BY <2>1, <2>2, <2>3, <1>2, <1>3
  <1>5. \A j \in Key : sessionIds'[j] \notin sessionHistory'[j]
    BY <1>2, <1>3
  <1>6. \A s \in Request : req'[s].session <= minted'
    <2>1. q.session <= minted' /\ (\A s \in Request : req[s].session <= minted')
      <3>1. q.session \in Nat
        BY Constants DEF Req
      <3> QED BY <3>1, <1>2, <1>4
    <2>2. sessionIds'[k] <= minted'
      BY <1>4
    <2> QED BY <2>1, <2>2, <1>3
  <1>7. ~Reusable(k, aliases, terminals) =>
           /\ ptyProcesses'[k] = None
           /\ agentToTerminal'[k] # NoKey => ptyProcesses'[agentToTerminal'[k]] = None
    <2>1. ptyProcesses'[k] # None => agentToTerminal'[k] = k
      BY DEF TerminalInv
    <2> QED BY <2>1, Constants DEF Reusable
  <1>8. SessionInv'
    BY <1>4, <1>5, <1>6, <1>7, SessionsKept
  <1>9. \A n \in 0..minted' : n \in Session \cup {None}
    BY <1>4, Constants
  <1> QED BY <1>4, <1>8, <1>9

LEMMA Beginning ==
  ASSUME RequestInv, SessionInv, TerminalInv, TerminalInv', Fades,
         \A j \in Key : FadesAt(j), Settled,
         NEW r \in Request, req[r].pc \in {"none", "waiting"},
         NEW q \in Req, q.key \in Key, q.proc = None, NEW queue,
         NEW aliases, aliases = agentToTerminal', NEW terminals, terminals = ptyProcesses',
         Begin(r, q, queue, aliases, terminals),
         sessionIds' \in [Key -> Session \cup {None}],
         recoveries' \in [Key -> Request \cup {None}]
  PROVE  /\ RequestInv'
         /\ \A s \in Request : s # r => req'[s] = req[s]
         /\ req'[r].pc \in {"coalesced", "started", "delivering", "launching"}
         /\ req'[r].re = q.re /\ req'[r].had = q.had /\ req'[r].kind = q.kind
         /\ req'[r].key = q.key
         /\ agentToTerminal'[q.key] = NoKey => req'[r].pc \in {"coalesced", "launching"}
  <1>1. PICK k \in Key : k = q.key
    OBVIOUS
  <1>2. /\ req \in [Request -> Req] /\ inFlightStarts \in [Key -> Request \cup {None}]
        /\ \A j \in Key : inFlightStarts[j] # None =>
              /\ req[inFlightStarts[j]].key = j
              /\ req[inFlightStarts[j]].pc \in {"launching", "delivering"}
        /\ r # None /\ \A j \in Key : inFlightStarts[j] # r
    BY Constants DEF RequestInv
  <1>3. /\ DOMAIN procs' = DOMAIN procs /\ None \notin DOMAIN procs
        /\ DOMAIN procs \subseteq Terminal
        /\ ptyProcesses' \in [Key -> DOMAIN procs \cup {None}]
        /\ agentToTerminal' \in [Key -> Key \cup {NoKey}]
        /\ \A j \in Key : ptyProcesses'[j] # None => agentToTerminal'[j] = j
    BY Procs, LenProperties DEF Fades, Continued, TerminalInv
  (* What the request becomes. *)
  <1>4. \E f \in Req :
           /\ req' = [req EXCEPT ![r] = f]
           /\ f.key = k /\ f.re = q.re /\ f.had = q.had /\ f.kind = q.kind
           /\ \/ /\ f.pc = "coalesced" /\ inFlightStarts[k] # None
                 /\ f.with = inFlightStarts[k] /\ f.proc = None
                 /\ inFlightStarts' = inFlightStarts
              \/ /\ f.pc = "started" /\ inFlightStarts[k] = None /\ f.proc = None
                 /\ Reusable(k, aliases, terminals)
                 /\ inFlightStarts' = inFlightStarts
              \/ /\ f.pc = "delivering" /\ inFlightStarts[k] = None
                 /\ Reusable(k, aliases, terminals)
                 /\ f.proc \in DOMAIN procs /\ f.proc # None
                 /\ inFlightStarts' = [inFlightStarts EXCEPT ![k] = r]
              \/ /\ f.pc = "launching" /\ inFlightStarts[k] = None /\ f.proc = None
                 /\ f.session # None /\ ~Reusable(k, aliases, terminals)
                 /\ inFlightStarts' = [inFlightStarts EXCEPT ![k] = r]
    <2>1. CASE /\ Coalesced(k)
               /\ req' = [req EXCEPT ![r] = [q EXCEPT !.pc = "coalesced",
                                                      !.with = inFlightStarts[k]]]
               /\ inFlightStarts' = inFlightStarts
      <3>1. PICK f : f = [q EXCEPT !.pc = "coalesced", !.with = inFlightStarts[k]]
        OBVIOUS
      <3>2. inFlightStarts[k] \in Request \cup {None}
        BY <1>2
      <3>3. f \in Req /\ f.key = k /\ f.re = q.re /\ f.had = q.had /\ f.kind = q.kind
            /\ f.pc = "coalesced" /\ f.with = inFlightStarts[k] /\ f.proc = None
        BY <3>1, <3>2, <1>1 DEF Req
      <3> QED BY <2>1, <3>1, <3>3 DEF Coalesced
    <2>2. CASE /\ ~Coalesced(k) /\ Reusable(k, aliases, terminals)
               /\ req' = [req EXCEPT ![r] = [q EXCEPT !.pc = "started", !.ok = TRUE,
                                                      !.reused = TRUE]]
               /\ inFlightStarts' = inFlightStarts
      <3>1. PICK f : f = [q EXCEPT !.pc = "started", !.ok = TRUE, !.reused = TRUE]
        OBVIOUS
      <3>3. f \in Req /\ f.key = k /\ f.re = q.re /\ f.had = q.had /\ f.kind = q.kind
            /\ f.pc = "started" /\ f.proc = None
        BY <3>1, <1>1 DEF Req
      <3> QED BY <2>2, <3>1, <3>3 DEF Coalesced
    <2>3. CASE /\ ~Coalesced(k) /\ Reusable(k, aliases, terminals)
               /\ req' = [req EXCEPT ![r] = [q EXCEPT !.pc = "delivering",
                                                      !.proc = terminals[aliases[k]]]]
               /\ inFlightStarts' = [inFlightStarts EXCEPT ![k] = r]
      <3>1. PICK f : f = [q EXCEPT !.pc = "delivering", !.proc = terminals[aliases[k]]]
        OBVIOUS
      <3>2. terminals[aliases[k]] \in DOMAIN procs /\ terminals[aliases[k]] # None
        BY <2>3, <1>3 DEF Reusable
      <3>3. f \in Req /\ f.key = k /\ f.re = q.re /\ f.had = q.had /\ f.kind = q.kind
            /\ f.pc = "delivering" /\ f.proc = terminals[aliases[k]]
        BY <3>1, <3>2, <1>1, <1>3 DEF Req
      <3> QED BY <2>3, <3>1, <3>2, <3>3 DEF Coalesced
    <2>4. CASE /\ ~Coalesced(k) /\ ~Reusable(k, aliases, terminals)
               /\ sessionIds'[k] # None
               /\ req' = [req EXCEPT ![r] = [q EXCEPT !.pc = "launching",
                                                      !.session = sessionIds'[k]]]
               /\ inFlightStarts' = [inFlightStarts EXCEPT ![k] = r]
      <3>1. PICK f : f = [q EXCEPT !.pc = "launching", !.session = sessionIds'[k]]
        OBVIOUS
      <3>2. sessionIds'[k] \in Session \cup {None}
        OBVIOUS
      <3>3. f \in Req /\ f.key = k /\ f.re = q.re /\ f.had = q.had /\ f.kind = q.kind
            /\ f.pc = "launching" /\ f.session = sessionIds'[k] /\ f.proc = None
        BY <3>1, <3>2, <1>1 DEF Req
      <3> QED BY <2>4, <3>1, <3>3 DEF Coalesced
    <2>5. ASSUME ~Coalesced(k) /\ ~Reusable(k, aliases, terminals),
                 IF sessionIds[k] = None
                 THEN /\ minted < MaxSessions
                      /\ minted' = minted + 1
                      /\ sessionIds' = [sessionIds EXCEPT ![k] = minted + 1]
                 ELSE UNCHANGED <<minted, sessionIds>>
          PROVE  sessionIds'[k] # None
      <3>1. CASE sessionIds[k] # None
        BY <2>5, <3>1
      <3>2. CASE sessionIds[k] = None
        <4>1. minted \in Nat /\ sessionIds \in [Key -> 0..minted]
          BY Constants DEF SessionInv
        <4> QED BY <4>1, <2>5, <3>2, Constants
      <3> QED BY <3>1, <3>2
    <2> QED BY <1>1, <2>1, <2>2, <2>3, <2>4, <2>5 DEF Begin
  <1>5. PICK f \in Req :
           /\ req' = [req EXCEPT ![r] = f]
           /\ f.key = k /\ f.re = q.re /\ f.had = q.had /\ f.kind = q.kind
           /\ \/ /\ f.pc = "coalesced" /\ inFlightStarts[k] # None
                 /\ f.with = inFlightStarts[k] /\ f.proc = None
                 /\ inFlightStarts' = inFlightStarts
              \/ /\ f.pc = "started" /\ inFlightStarts[k] = None /\ f.proc = None
                 /\ Reusable(k, aliases, terminals)
                 /\ inFlightStarts' = inFlightStarts
              \/ /\ f.pc = "delivering" /\ inFlightStarts[k] = None
                 /\ Reusable(k, aliases, terminals)
                 /\ f.proc \in DOMAIN procs /\ f.proc # None
                 /\ inFlightStarts' = [inFlightStarts EXCEPT ![k] = r]
              \/ /\ f.pc = "launching" /\ inFlightStarts[k] = None /\ f.proc = None
                 /\ f.session # None /\ ~Reusable(k, aliases, terminals)
                 /\ inFlightStarts' = [inFlightStarts EXCEPT ![k] = r]
    BY <1>4
  <1>6. /\ req' \in [Request -> Req] /\ req'[r] = f
        /\ \A s \in Request : s # r => req'[s] = req[s]
    BY <1>2, <1>5
  <1>7. /\ inFlightStarts' \in [Key -> Request \cup {None}]
        /\ \A j \in Key : j # k => inFlightStarts'[j] = inFlightStarts[j]
        /\ f.pc \in {"coalesced", "started"} => inFlightStarts'[k] = inFlightStarts[k]
        /\ f.pc \in {"delivering", "launching"} =>
              inFlightStarts'[k] = r /\ inFlightStarts[k] = None
    BY <1>2, <1>5
  <1>8. ASSUME NEW j \in Key, inFlightStarts'[j] # None
        PROVE  /\ req'[inFlightStarts'[j]].key = j
               /\ req'[inFlightStarts'[j]].pc \in {"launching", "delivering"}
    <2>1. CASE j = k /\ f.pc \in {"delivering", "launching"}
      BY <2>1, <1>5, <1>6, <1>7
    <2>2. CASE ~(j = k /\ f.pc \in {"delivering", "launching"})
      <3>1. inFlightStarts'[j] = inFlightStarts[j]
        BY <2>2, <1>5, <1>7
      <3>2. inFlightStarts[j] \in Request /\ inFlightStarts[j] # r
        BY <3>1, <1>8, <1>2
      <3> QED BY <3>1, <3>2, <1>8, <1>2, <1>6
    <2> QED BY <2>1, <2>2
  <1>9. ~Reusable(k, aliases, terminals) => ptyProcesses'[k] = None
    BY <1>3, Constants DEF Reusable
  <1>10. ASSUME NEW s \in Request
         PROVE  Underway(s)'
    <2>1. CASE s = r
      BY <2>1, <1>1, <1>3, <1>5, <1>6, <1>7, <1>9 DEF Underway
    <2>2. CASE s # r
      <3>1. Underway(s) /\ req'[s] = req[s] /\ req[s].pc # "started"
        BY <2>2, <1>6, Requests DEF Settled
      <3>2. req[s].pc \in {"launching", "delivering", "coalesced", "waiting"} =>
               req[s].key \in Key
        BY <3>1 DEF Underway
      <3>3. req[s].pc \in {"launching", "delivering"} =>
               inFlightStarts'[req[s].key] = s /\ inFlightStarts[req[s].key] = s
        BY <3>1, <3>2, <1>2, <1>5, <1>7, Requests DEF Underway
      <3>4. req[s].pc = "launching" => ptyProcesses'[req[s].key] = None
        BY <3>1, <3>2 DEF Underway, Fades
      <3>5. req[s].pc = "coalesced" => inFlightStarts'[req[s].key] = req[s].with
        BY <3>1, <3>2, <1>5, <1>7 DEF Underway
      <3>6. req[s].pc = "waiting" /\ ptyProcesses'[procs'[req[s].proc].key] = req[s].proc =>
               /\ agentToTerminal'[req[s].key] = procs'[req[s].proc].key
               /\ inFlightStarts'[req[s].key] # None =>
                     req'[inFlightStarts'[req[s].key]].pc = "delivering"
        <4>1. SUFFICES ASSUME req[s].pc = "waiting",
                              ptyProcesses'[procs'[req[s].proc].key] = req[s].proc
                       PROVE  /\ agentToTerminal'[req[s].key] = procs'[req[s].proc].key
                              /\ inFlightStarts'[req[s].key] # None =>
                                    req'[inFlightStarts'[req[s].key]].pc = "delivering"
          OBVIOUS
        <4>2. /\ StillThere(req[s].proc)
              /\ agentToTerminal'[req[s].key] = procs'[req[s].proc].key
          BY <4>1, <3>2, StillWaited
        <4>3. /\ req[s].proc # None /\ req[s].proc \in DOMAIN procs
              /\ inFlightStarts[req[s].key] # None =>
                    req[inFlightStarts[req[s].key]].pc = "delivering"
          BY <4>1, <4>2, <3>1 DEF Underway
        <4>4. procs'[req[s].proc].key \in Key
          BY <4>3, <1>3, Procs DEF Fades, Continued, Proc
        <4>5. req[s].key = k => Reusable(k, aliases, terminals)
          BY <4>1, <4>2, <4>3, <4>4, Constants DEF Reusable
        <4>6. inFlightStarts'[req[s].key] # None =>
                 req'[inFlightStarts'[req[s].key]].pc = "delivering"
          <5>1. CASE req[s].key = k /\ f.pc \in {"delivering", "launching"}
            BY <5>1, <4>5, <1>5, <1>6, <1>7
          <5>2. CASE ~(req[s].key = k /\ f.pc \in {"delivering", "launching"})
            <6>1. inFlightStarts'[req[s].key] = inFlightStarts[req[s].key]
              BY <5>2, <4>1, <3>2, <1>5, <1>7
            <6>2. inFlightStarts[req[s].key] # None =>
                     inFlightStarts[req[s].key] \in Request /\ inFlightStarts[req[s].key] # r
              BY <4>1, <3>2, <1>2
            <6> QED BY <6>1, <6>2, <4>3, <1>6
          <5> QED BY <5>1, <5>2
        <4> QED BY <4>2, <4>6
      <3>7. req[s].proc \in DOMAIN procs' \cup {None}
        BY <3>1, <1>3 DEF Underway
      <3> QED BY <3>1, <3>2, <3>3, <3>4, <3>5, <3>6, <3>7 DEF Underway, StillThere
    <2> QED BY <2>1, <2>2
  <1>11. RequestInv'
    BY <1>6, <1>7, <1>8, <1>10 DEF RequestInv
  <1>12. agentToTerminal'[k] = NoKey => ~Reusable(k, aliases, terminals)
    BY DEF Reusable
  <1> QED BY <1>1, <1>5, <1>6, <1>11, <1>12

-----------------------------------------------------------------------------
(* Prompts.                                                                *)

LEMMA Emptied ==
  ASSUME NEW queue, Queued(queue), NEW k \in Key, NEW new, new = [queue EXCEPT ![k] = <<>>]
  PROVE  /\ Queued(new)
         /\ \A j \in Key : \A i \in DOMAIN new[j] :
               j # k /\ new[j] = queue[j] /\ i \in DOMAIN queue[j]
  <1>1. queue \in [Key -> Seq(Request)]
    BY DEF Queued
  <1>2. <<>> \in Seq(Request) /\ DOMAIN <<>> = {}
    BY EmptySeq, LenProperties
  <1>3. new \in [Key -> Seq(Request)] /\ DOMAIN new[k] = {}
        /\ \A j \in Key : j # k => new[j] = queue[j]
    BY <1>1, <1>2
  <1>4. \A j \in Key : \A i \in DOMAIN new[j] :
               j # k /\ new[j] = queue[j] /\ i \in DOMAIN queue[j]
    BY <1>3
  <1> QED BY <1>1, <1>3, <1>4 DEF Queued

LEMMA PromptsLeft ==
  ASSUME PromptInv, taken' = taken,
         prompts' = prompts \/ \E k \in Key : prompts' = Take(k),
         \A r \in Request : req'[r].pc = "none" => req[r].pc = "none"
  PROVE  PromptInv'
  <1>1. prompts \in [Key -> Seq(Request)]
    BY DEF PromptInv, Queued
  <1>2. \A k \in Key : \A i \in DOMAIN prompts[k] : prompts[k][i] \in Request
    BY <1>1, ElementOfSeq, LenProperties
  <1>3. CASE prompts' = prompts
    BY <1>2, <1>3 DEF PromptInv, Queued
  <1>4. CASE \E k \in Key : prompts' = Take(k)
    <2>1. PICK k \in Key : prompts' = [prompts EXCEPT ![k] = <<>>]
      BY <1>4 DEF Take
    <2> DEFINE new == prompts'
    <2>2. /\ Queued(new)
          /\ \A j \in Key : \A i \in DOMAIN new[j] :
                new[j] = prompts[j] /\ i \in DOMAIN prompts[j]
      <3>1. Queued(prompts) /\ new = [prompts EXCEPT ![k] = <<>>]
        BY <2>1 DEF PromptInv
      <3> HIDE DEF new
      <3> QED BY <3>1, Emptied
    <2>3. Queued(prompts)'
      BY <2>1, <2>2 DEF Queued
    <2> QED BY <1>2, <2>2, <2>3 DEF PromptInv
  <1> QED BY <1>3, <1>4

(* A queue is handed out: each of its prompts once.                        *)
LEMMA HandOut ==
  ASSUME NEW queue, Queued(queue), NEW k \in Key,
         \A j \in Key : \A i \in DOMAIN queue[j] : req'[queue[j][i]].pc # "none",
         \A r \in Request : req'[r].pc = "none" => taken[r] = 0,
         taken' = Handed(queue[k]),
         prompts' \in [Key -> Seq(Request)],
         \A j \in Key : prompts'[j] = IF j = k THEN <<>> ELSE queue[j]
  PROVE  PromptInv'
  <1>1. /\ queue \in [Key -> Seq(Request)] /\ taken \in [Request -> {0, 1}]
        /\ \A j \in Key : \A i \in DOMAIN queue[j] :
          /\ taken[queue[j][i]] = 0
          /\ \A l \in Key : \A n \in DOMAIN queue[l] :
                queue[l][n] = queue[j][i] => l = j /\ n = i
    BY DEF Queued
  <1>2. \A j \in Key : \A i \in DOMAIN queue[j] : queue[j][i] \in Request
    BY <1>1, ElementOfSeq, LenProperties
  <1>3. ASSUME NEW r \in Request
        PROVE  \/ taken'[r] = taken[r] /\ \A i \in DOMAIN queue[k] : queue[k][i] # r
               \/ /\ taken'[r] = 1 /\ taken[r] = 0
                  /\ \E i \in DOMAIN queue[k] : queue[k][i] = r
    <2> DEFINE places == {i \in DOMAIN queue[k] : queue[k][i] = r}
    <2>1. taken'[r] = taken[r] + Cardinality(places)
      BY DEF Handed
    <2>2. CASE \E i \in DOMAIN queue[k] : queue[k][i] = r
      <3>1. PICK i \in DOMAIN queue[k] : queue[k][i] = r
        BY <2>2
      <3>2. places = {i}
        BY <3>1, <1>1
      <3>3. Cardinality(places) = 1
        BY <3>2, FS_Singleton
      <3>4. taken[r] = 0
        BY <3>1, <1>1
      <3> HIDE DEF places
      <3> QED BY <2>1, <2>2, <3>3, <3>4
    <2>3. CASE ~ \E i \in DOMAIN queue[k] : queue[k][i] = r
      <3>1. places = {}
        BY <2>3
      <3>2. Cardinality(places) = 0
        BY <3>1, FS_EmptySet
      <3>3. taken[r] \in {0, 1}
        BY <1>1
      <3> HIDE DEF places
      <3> QED BY <2>1, <2>3, <3>2, <3>3
    <2> QED BY <2>2, <2>3
  <1>4. taken' \in [Request -> {0, 1}]
    <2>1. taken' = [r \in Request |-> taken'[r]]
      BY DEF Handed
    <2> QED BY <2>1, <1>1, <1>3
  <1>5. /\ prompts' \in [Key -> Seq(Request)]
        /\ \A j \in Key : \A i \in DOMAIN prompts'[j] :
              j # k /\ prompts'[j] = queue[j] /\ i \in DOMAIN queue[j]
    <2>1. DOMAIN <<>> = {}
      OBVIOUS
    <2> QED BY <2>1
  <1>6. ASSUME NEW j \in Key, NEW i \in DOMAIN prompts'[j]
        PROVE  /\ taken'[prompts'[j][i]] = 0
               /\ \A l \in Key : \A n \in DOMAIN prompts'[l] :
                     prompts'[l][n] = prompts'[j][i] => l = j /\ n = i
    <2>1. j # k /\ prompts'[j] = queue[j] /\ i \in DOMAIN queue[j]
      BY <1>5
    <2>2. taken'[queue[j][i]] = taken[queue[j][i]]
      BY <2>1, <1>1, <1>2, <1>3
    <2>3. \A l \in Key : \A n \in DOMAIN prompts'[l] :
             prompts'[l][n] = prompts'[j][i] => l = j /\ n = i
      BY <2>1, <1>1, <1>5
    <2> QED BY <2>1, <2>2, <2>3, <1>1
  <1>7. Queued(prompts)'
    BY <1>4, <1>5, <1>6 DEF Queued
  <1>8. \A j \in Key : \A i \in DOMAIN prompts'[j] : req'[prompts'[j][i]].pc # "none"
    BY <1>5
  <1>9. \A r \in Request : req'[r].pc = "none" => taken'[r] = 0
    BY <1>3
  <1> QED BY <1>7, <1>8, <1>9 DEF PromptInv

(* A start queues its prompt, if it has one, and may serve the queue.      *)
LEMMA BeginPrompts ==
  ASSUME PromptInv, NEW r \in Request, NEW q, q.key \in Key, NEW queue,
         \/ queue = prompts
         \/ /\ req[r].pc = "none"
            /\ \E k \in Key : queue = [prompts EXCEPT ![k] = Append(@, r)],
         NEW aliases, NEW terminals, Begin(r, q, queue, aliases, terminals),
         req'[r].pc # "none", \A s \in Request : s # r => req'[s] = req[s]
  PROVE  PromptInv'
  <1>1. /\ prompts \in [Key -> Seq(Request)] /\ taken \in [Request -> {0, 1}]
        /\ \A j \in Key : \A i \in DOMAIN prompts[j] :
          /\ taken[prompts[j][i]] = 0
          /\ req[prompts[j][i]].pc # "none"
          /\ \A l \in Key : \A n \in DOMAIN prompts[l] :
                prompts[l][n] = prompts[j][i] => l = j /\ n = i
        /\ \A s \in Request : req[s].pc = "none" => taken[s] = 0
    BY DEF PromptInv, Queued
  <1>2. \A j \in Key : \A i \in DOMAIN prompts[j] : prompts[j][i] \in Request
    BY <1>1, ElementOfSeq, LenProperties
  <1>3. \A s \in Request : req'[s].pc = "none" => taken[s] = 0
    BY <1>1
  <1>4. /\ Queued(queue)
        /\ \A j \in Key : \A i \in DOMAIN queue[j] : req'[queue[j][i]].pc # "none"
        /\ \A j \in Key : \A i \in DOMAIN queue[j] : queue[j][i] \in Request
    <2>1. CASE queue = prompts
      BY <2>1, <1>1, <1>2 DEF PromptInv
    <2>2. CASE /\ req[r].pc = "none"
               /\ \E k \in Key : queue = [prompts EXCEPT ![k] = Append(@, r)]
      <3>1. PICK k \in Key : queue = [prompts EXCEPT ![k] = Append(@, r)]
        BY <2>2
      <3>2. PICK n : n = Len(prompts[k]) + 1
        OBVIOUS
      <3>3. /\ queue \in [Key -> Seq(Request)]
            /\ \A j \in Key : j # k => queue[j] = prompts[j]
            /\ DOMAIN queue[k] = DOMAIN prompts[k] \cup {n}
            /\ n \notin DOMAIN prompts[k]
            /\ queue[k][n] = r
            /\ \A i \in DOMAIN prompts[k] : queue[k][i] = prompts[k][i]
        <4>1. prompts[k] \in Seq(Request) /\ queue[k] = Append(prompts[k], r)
          BY <1>1, <3>1
        <4>2. /\ Append(prompts[k], r) \in Seq(Request)
              /\ Len(Append(prompts[k], r)) = n
              /\ Append(prompts[k], r)[n] = r
              /\ \A i \in 1..Len(prompts[k]) : Append(prompts[k], r)[i] = prompts[k][i]
          BY <4>1, <3>2, AppendProperties
        <4>3. /\ DOMAIN prompts[k] = 1..Len(prompts[k]) /\ Len(prompts[k]) \in Nat
              /\ DOMAIN queue[k] = 1..n
          BY <4>1, <4>2, LenProperties
        <4>4. 1..n = 1..Len(prompts[k]) \cup {n} /\ n \notin 1..Len(prompts[k])
          BY <4>3, <3>2
        <4>5. \A j \in Key : j # k => queue[j] = prompts[j]
          BY <1>1, <3>1
        <4>6. queue \in [Key -> Seq(Request)]
          BY <1>1, <3>1, <4>1, <4>2
        <4> QED BY <4>1, <4>2, <4>3, <4>4, <4>5, <4>6
      <3>4. \A j \in Key : \A i \in DOMAIN queue[j] :
               \/ j = k /\ i = n /\ queue[j][i] = r
               \/ i \in DOMAIN prompts[j] /\ queue[j][i] = prompts[j][i] /\ prompts[j][i] # r
        BY <3>3, <2>2, <1>1
      <3>5. taken[r] = 0
        BY <2>2, <1>1
      <3>6. ASSUME NEW j \in Key, NEW i \in DOMAIN queue[j]
            PROVE  /\ taken[queue[j][i]] = 0 /\ req'[queue[j][i]].pc # "none"
                   /\ queue[j][i] \in Request
                   /\ \A l \in Key : \A m \in DOMAIN queue[l] :
                         queue[l][m] = queue[j][i] => l = j /\ m = i
        <4>1. CASE queue[j][i] = r
          BY <4>1, <3>4, <3>5
        <4>2. CASE queue[j][i] # r
          <5>1. i \in DOMAIN prompts[j] /\ queue[j][i] = prompts[j][i]
            BY <4>2, <3>4
          <5>2. \A l \in Key : \A m \in DOMAIN queue[l] :
                   queue[l][m] = queue[j][i] => l = j /\ m = i
            BY <4>2, <5>1, <3>4, <1>1
          <5> QED BY <4>2, <5>1, <5>2, <1>1, <1>2
        <4> QED BY <4>1, <4>2
      <3> QED BY <3>3, <3>6, <1>1 DEF Queued
    <2> QED BY <2>1, <2>2
  <1>5. CASE prompts' = queue /\ taken' = taken
    BY <1>3, <1>4, <1>5 DEF PromptInv, Queued
  <1>6. CASE prompts' = [queue EXCEPT ![q.key] = <<>>] /\ taken' = Handed(queue[q.key])
    <2>1. PICK k \in Key : k = q.key
      OBVIOUS
    <2>2. taken' = Handed(queue[k]) /\ prompts' = [queue EXCEPT ![k] = <<>>]
      BY <2>1, <1>6
    <2>3. queue \in [Key -> Seq(Request)] /\ <<>> \in Seq(Request)
      BY <1>4, EmptySeq DEF Queued
    <2>4. /\ prompts' \in [Key -> Seq(Request)]
          /\ \A j \in Key : prompts'[j] = IF j = k THEN <<>> ELSE queue[j]
      BY <2>2, <2>3
    <2> QED BY <2>2, <2>4, <1>3, <1>4, HandOut
  <1> QED BY <1>5, <1>6 DEF Begin

-----------------------------------------------------------------------------
(* Repairs.                                                                *)

(* No request's key comes to show a terminal.                              *)
Unshown == \A r \in Request : req[r].key \in Key /\ agentToTerminal[req[r].key] = NoKey
                                 => agentToTerminal'[req[r].key] = NoKey

LEMMA FadingUnshown ==
  ASSUME \A r \in Request : req[r].key \in Key => FadesAt(req[r].key)
  PROVE  Unshown
  BY DEF Unshown, FadesAt

LEMMA RepairUntouched ==
  ASSUME RequestInv, RepairInv, NEW r \in Request, req'[r] = req[r],
         req[r].key \in Key /\ agentToTerminal[req[r].key] = NoKey
            => agentToTerminal'[req[r].key] = NoKey,
         req[r].pc = "waiting" => ~procs'[req[r].proc].linked,
         req[r].pc = "joining" => req'[req[r].with].re
  PROVE  Repair(r)'
  <1>1. Repair(r) /\ Underway(r)
    BY Requests DEF RepairInv
  <1> QED BY <1>1 DEF Repair, Underway

LEMMA StillUnlinked ==
  ASSUME TerminalInv, RequestInv, RepairInv, Quiet
  PROVE  \A r \in Request : req[r].pc = "waiting" => ~procs'[req[r].proc].linked
  <1>1. \A r \in Request : req[r].pc = "waiting" =>
           req[r].proc \in DOMAIN procs /\ ~procs[req[r].proc].linked
    BY Requests DEF Underway, RepairInv, Repair
  <1> QED BY <1>1 DEF Quiet

LEMMA RepairEnding ==
  ASSUME RequestInv, RepairInv, Unshown, NEW R \in SUBSET Request, Answer(R),
         \A r \in R : req[r].pc \in {"started", "waiting"},
         \A r \in Request \ R : req[r].pc = "waiting" => ~procs'[req[r].proc].linked,
         \/ recoveries' = RecoveriesAfter(R)
         \/ recoveries' = recoveries /\ \A r \in R : ~req[r].re
  PROVE  RepairInv'
  <1>1. /\ \A r \in Request : req'[r] = req[r] \/ req'[r] = Answered
        /\ \A r \in R : req'[r] = Answered
        /\ \A r \in Request : req'[r] # req[r] =>
              r \in R \/ (req[r].pc = "joining" /\ req[r].with \in R)
        /\ \A r \in Request : req[r].pc = "joining" /\ req[r].with \in R => req'[r] = Answered
    BY Answering
  <1>2. /\ \A r \in Request : Repair(r) /\ req[r].with \in Request \cup {None}
        /\ \A k \in Key : recoveries[k] \in Request \cup {None}
        /\ \A k \in Key : recoveries[k] # None => req[recoveries[k]].re
    BY Requests DEF RequestInv, RepairInv
  <1>3. \A r \in Request : req[r].re /\ r \notin R => req'[r] = req[r]
    BY <1>1, <1>2 DEF Repair
  <1>4. ASSUME NEW r \in Request
        PROVE  Repair(r)'
    <2>1. CASE req'[r] = Answered
      BY <2>1, NothingAsked DEF Repair
    <2>2. CASE req'[r] # Answered
      <3>1. req'[r] = req[r] /\ r \notin R /\ (req[r].pc = "joining" => req[r].with \notin R)
        BY <2>2, <1>1
      <3>2. req[r].pc = "joining" => req'[req[r].with].re
        BY <3>1, <1>2, <1>3 DEF Repair
      <3> QED BY <3>1, <3>2, RepairUntouched DEF Unshown
    <2> QED BY <2>1, <2>2
  <1>5. ASSUME NEW k \in Key, recoveries'[k] # None
        PROVE  req'[recoveries'[k]].re
    <2>1. /\ recoveries'[k] = recoveries[k] /\ recoveries[k] \in Request
          /\ req[recoveries[k]].re /\ recoveries[k] \notin R
      BY <1>2, <1>5 DEF RecoveriesAfter
    <2> QED BY <2>1, <1>3
  <1> QED BY <1>4, <1>5 DEF RepairInv

LEMMA RepairPausing ==
  ASSUME RequestInv, RepairInv, Unshown, NEW r \in Request, req[r].pc \in {"started", "waiting"},
         NEW f \in Req, req' = [req EXCEPT ![r] = f],
         f.kind = req[r].kind, f.had = req[r].had, f.re = req[r].re,
         \/ f.pc = "joining" /\ ~f.re /\ f.with # None /\ req[f.with].re
         \/ f.pc = "waiting" /\ ~procs'[f.proc].linked,
         \A s \in Request : req[s].pc = "waiting" => ~procs'[req[s].proc].linked,
         recoveries' = recoveries
  PROVE  RepairInv'
  <1>1. /\ req'[r] = f /\ \A s \in Request : s # r => req'[s] = req[s]
        /\ \A s \in Request : Repair(s) /\ req[s].with \in Request \cup {None}
        /\ \A k \in Key : recoveries[k] \in Request \cup {None}
        /\ f.with \in Request \cup {None}
    BY Requests DEF RequestInv, RepairInv, Req
  <1>2. \A s \in Request : req'[s].re = req[s].re
    BY <1>1
  <1>3. ASSUME NEW s \in Request
        PROVE  Repair(s)'
    <2>1. CASE s = r
      BY <2>1, <1>1, <1>2 DEF Repair
    <2>2. CASE s # r
      <3>1. req[s].pc = "joining" => req'[req[s].with].re
        BY <1>1, <1>2 DEF Repair
      <3> QED BY <2>2, <3>1, <1>1, RepairUntouched DEF Unshown
    <2> QED BY <2>1, <2>2
  <1>4. \A k \in Key : recoveries'[k] # None => req'[recoveries'[k]].re
    BY <1>1, <1>2 DEF RepairInv
  <1> QED BY <1>3, <1>4 DEF RepairInv

LEMMA RepairAside ==
  ASSUME TerminalInv, RequestInv, RepairInv, Unshown, Quiet, UNCHANGED requestVars
  PROVE  RepairInv'
  <1>1. req' = req /\ recoveries' = recoveries
    BY DEF requestVars
  <1>2. \A r \in Request : req[r].pc = "joining" => req'[req[r].with].re
    BY <1>1 DEF RepairInv, Repair
  <1>3. \A r \in Request : Repair(r)'
    BY <1>1, <1>2, StillUnlinked, RepairUntouched DEF Unshown
  <1> QED BY <1>1, <1>3 DEF RepairInv

(* A start that repairs never finds a terminal to reuse.                   *)
LEMMA RepairBeginning ==
  ASSUME RequestInv, RepairInv, Unshown, NEW r \in Request, ~req[r].re,
         \A s \in Request : s # r => req'[s] = req[s],
         req'[r].pc \in {"coalesced", "started", "delivering", "launching"},
         req'[r].kind = "launch" => ~req'[r].had,
         req'[r].re => /\ req'[r].pc \in {"coalesced", "launching"}
                       /\ agentToTerminal'[req'[r].key] = NoKey,
         \A s \in Request : req[s].pc = "waiting" => ~procs'[req[s].proc].linked,
         \/ recoveries' = recoveries
         \/ req'[r].re /\ \A k \in Key : recoveries'[k] \in {recoveries[k], r}
  PROVE  RepairInv'
  <1>1. /\ \A s \in Request : Repair(s) /\ req[s].with \in Request \cup {None}
        /\ \A k \in Key : recoveries[k] \in Request \cup {None}
    BY Requests DEF RequestInv, RepairInv
  <1>2. \A s \in Request : req[s].re => req'[s].re
    BY <1>1
  <1>3. ASSUME NEW s \in Request
        PROVE  Repair(s)'
    <2>1. CASE s = r
      BY <2>1 DEF Repair
    <2>2. CASE s # r
      <3>1. req[s].pc = "joining" => req'[req[s].with].re
        BY <1>1, <1>2 DEF Repair
      <3> QED BY <2>2, <3>1, <1>1, RepairUntouched DEF Unshown
    <2> QED BY <2>1, <2>2
  <1>4. \A k \in Key : recoveries'[k] # None => req'[recoveries'[k]].re
    BY <1>1, <1>2 DEF RepairInv
  <1> QED BY <1>3, <1>4 DEF RepairInv

LEMMA RepairOver ==
  ASSUME RequestInv, RepairInv, NEW r \in Request, req[r].pc \in {"launching", "delivering"},
         NEW ok \in BOOLEAN,
         \A s \in Request : \/ req'[s] = req[s] /\ s # r
                            \/ /\ req'[s].pc = "started" /\ req'[s].key = req[s].key
                               /\ req'[s].re = req[s].re /\ req'[s].had = req[s].had
                               /\ req'[s].kind = req[s].kind
                               /\ req'[s].ok = ok
                               /\ s = r \/ (req[s].pc = "coalesced" /\ req[s].with = r),
         \A s \in Request : req[s].pc = "coalesced" /\ req[s].with = r => req'[s].pc = "started",
         \A j \in Key : agentToTerminal'[j] = agentToTerminal[j] \/ (j = req[r].key /\ ok),
         \A s \in Request : req[s].pc = "waiting" => ~procs'[req[s].proc].linked,
         recoveries' = recoveries
  PROVE  RepairInv'
  <1>1. /\ \A s \in Request : Repair(s) /\ Underway(s) /\ req[s].with \in Request \cup {None}
        /\ \A k \in Key : recoveries[k] \in Request \cup {None}
    BY Requests DEF RequestInv, RepairInv
  <1>2. \A s \in Request : req'[s].re = req[s].re
    OBVIOUS
  <1>3. PICK k : k = req[r].key
    OBVIOUS
  <1>4. k \in Key /\ inFlightStarts[k] = r /\ r # None
    BY <1>1, <1>3, Constants DEF Underway
  <1>5. ASSUME NEW s \in Request
        PROVE  Repair(s)'
    <2>1. CASE req'[s] = req[s] /\ s # r
      <3>1. req[s].pc = "joining" => req'[req[s].with].re
        BY <1>1, <1>2 DEF Repair
      <3>2. CASE req[s].key # k
        BY <2>1, <3>1, <3>2, <1>1, <1>3, RepairUntouched
      <3>3. CASE req[s].key = k
        <4>1. req[s].pc \notin {"launching", "coalesced", "started"}
          BY <2>1, <3>3, <1>1, <1>4 DEF Underway
        <4> QED BY <2>1, <3>1, <4>1, <1>1 DEF Repair
      <3> QED BY <3>2, <3>3
    <2>2. CASE /\ req'[s].pc = "started" /\ req'[s].key = req[s].key
               /\ req'[s].re = req[s].re /\ req'[s].had = req[s].had
               /\ req'[s].kind = req[s].kind
               /\ req'[s].ok = ok
               /\ s = r \/ (req[s].pc = "coalesced" /\ req[s].with = r)
      <3>1. req[s].key \in Key
        BY <2>2, <1>1 DEF Underway
      <3>2. req[s].re /\ ~ok => agentToTerminal'[req[s].key] = NoKey
        BY <2>2, <3>1, <1>1 DEF Repair
      <3> QED BY <2>2, <3>2, <1>1 DEF Repair
    <2> QED BY <2>1, <2>2
  <1>6. \A j \in Key : recoveries'[j] # None => req'[recoveries'[j]].re
    BY <1>1, <1>2 DEF RepairInv
  <1> QED BY <1>5, <1>6 DEF RepairInv

-----------------------------------------------------------------------------
(* What a request's steps do to all of it.                                 *)

LEMMA Budget ==
  ASSUME BudgetInv, NEW p, NEW obeyed \in BOOLEAN, KillOutcome(p, obeyed)
  PROVE  killFailures' \in 0..MaxKillFailures
  <1>1. killFailures \in 0..MaxKillFailures /\ MaxKillFailures \in Nat
    BY Constants DEF BudgetInv
  <1>2. \/ killFailures' = killFailures
        \/ killFailures < MaxKillFailures /\ killFailures' = killFailures + 1
    BY DEF KillOutcome
  <1> QED BY <1>1, <1>2

LEMMA Keeping ==
  ASSUME TerminalInv, BudgetInv, Keep
  PROVE  /\ TerminalInv' /\ Fades /\ Quiet /\ \A j \in Key : FadesAt(j)
         /\ killFailures' \in 0..MaxKillFailures
  <1>1. UNCHANGED terminalVars /\ killFailures' = killFailures
    BY DEF Keep
  <1> QED BY <1>1, Unchanging DEF BudgetInv

LEMMA Discarding ==
  ASSUME TerminalInv, BudgetInv, NEW r \in Request, NEW at \in Key, NEW p,
         ptyProcesses[at] = p, p # None,
         req[r].key \in Key, agentToTerminal[req[r].key] = at, Discard(r, at, p)
  PROVE  /\ TerminalInv' /\ Fades /\ Quiet /\ \A j \in Key : FadesAt(j)
         /\ killFailures' \in 0..MaxKillFailures
  <1>1. PICK obeyed \in BOOLEAN :
           /\ KillOutcome(p, obeyed)
           /\ procs' = Killed(p, obeyed)
           /\ IF obeyed THEN Forgotten(req[r].key, at)
                        ELSE UNCHANGED <<ptyProcesses, agentToTerminal>>
    BY DEF Discard
  <1>2. killFailures' \in 0..MaxKillFailures
    BY <1>1, Budget
  <1>3. Forgotten(req[r].key, at) \/ UNCHANGED <<ptyProcesses, agentToTerminal>>
    BY <1>1
  <1>4. procs' = Killed(ptyProcesses[at], obeyed)
    BY <1>1
  <1> QED BY <1>2, <1>3, <1>4, Stopping

(* Requests are answered, and a terminal may be given up.                  *)
LEMMA Ending ==
  ASSUME IInv, TerminalInv', Fades, Quiet, \A j \in Key : FadesAt(j),
         killFailures' \in 0..MaxKillFailures,
         UNCHANGED <<trackingVars, sessionVars, inFlightStarts, promptVars, killing, operations>>,
         activeAgentViewers' \subseteq Key,
         NEW R \in SUBSET Request, Answer(R),
         \A r \in R : req[r].pc \in {"started", "waiting"},
         \/ recoveries' = RecoveriesAfter(R)
         \/ recoveries' = recoveries /\ \A r \in R : ~req[r].re
  PROVE  IInv'
  <1>1. /\ TerminalInv /\ WatchInv /\ SessionInv /\ RequestInv /\ RepairInv
        /\ PromptInv /\ BudgetInv
    BY DEF IInv
  <1>2. /\ inFlightStarts' = inFlightStarts
        /\ agentWatchers' = agentWatchers /\ agentReadyState' = agentReadyState
        /\ killing' = killing /\ operations' = operations
        /\ prompts' = prompts /\ taken' = taken /\ UNCHANGED sessionVars
    BY DEF trackingVars, promptVars
  <1>3. /\ RequestInv'
        /\ \A r \in Request : req'[r].pc = "none" => req[r].pc = "none"
        /\ \A r \in Request : req'[r].session <= minted
    BY <1>1, <1>2, AnswersEnd
  <1>4. SessionInv'
    BY <1>1, <1>2, <1>3, SessionsLeft
  <1>5. WatchInv'
    <2>1. agentWatchers' \in [Key -> DOMAIN procs \cup {None}] /\ agentReadyState' \subseteq Key
          /\ killing' \subseteq Key
      BY <1>1, <1>2 DEF WatchInv
    <2> QED BY <1>1, <1>2, <2>1, Watching
  <1>6. PromptInv'
    BY <1>1, <1>2, <1>3, PromptsLeft
  <1>7. BudgetInv'
    BY <1>1, <1>2 DEF BudgetInv
  <1>8. RepairInv'
    <2>1. Unshown
      BY FadingUnshown
    <2>2. \A r \in Request : req[r].pc = "waiting" => ~procs'[req[r].proc].linked
      BY <1>1, StillUnlinked
    <2> QED BY <1>1, <2>1, <2>2, RepairEnding
  <1> QED BY <1>3, <1>4, <1>5, <1>6, <1>7, <1>8 DEF IInv

(* A request begins to wait, for its terminal or for who repairs it.       *)
LEMMA Pausing ==
  ASSUME IInv, NEW r \in Request, req[r].pc \in {"started", "waiting"}, NEW f \in Req,
         req' = [req EXCEPT ![r] = f], f.key = req[r].key, f.session = req[r].session,
         f.kind = req[r].kind, f.had = req[r].had, f.re = req[r].re,
         \/ f.pc = "joining" /\ f.proc = None /\ ~f.re /\ f.with # None /\ req[f.with].re
         \/ /\ f.pc = "waiting" /\ req[r].pc = "started" /\ ~procs[f.proc].linked
            /\ f.proc \in DOMAIN procs /\ agentToTerminal[f.key] = procs[f.proc].key,
         Keep,
         UNCHANGED <<trackingVars, sessionVars, inFlightStarts, recoveries, promptVars,
                     activeAgentViewers, killing, operations>>
  PROVE  IInv'
  <1>1. /\ TerminalInv /\ WatchInv /\ SessionInv /\ RequestInv /\ RepairInv
        /\ PromptInv /\ BudgetInv
    BY DEF IInv
  <1>2. /\ inFlightStarts' = inFlightStarts /\ recoveries' = recoveries
        /\ agentWatchers' = agentWatchers /\ agentReadyState' = agentReadyState
        /\ killing' = killing /\ operations' = operations
        /\ activeAgentViewers' = activeAgentViewers
        /\ prompts' = prompts /\ taken' = taken /\ UNCHANGED sessionVars
        /\ UNCHANGED terminalVars
        /\ procs' = procs /\ agentToTerminal' = agentToTerminal
    BY DEF trackingVars, promptVars, Keep, terminalVars
  <1>3. /\ TerminalInv' /\ Fades /\ Quiet /\ \A j \in Key : FadesAt(j)
        /\ killFailures' \in 0..MaxKillFailures
    BY <1>1, Keeping
  <1>4. /\ req \in [Request -> Req] /\ req[r].key \in Key
        /\ req[r].pc = "started" => inFlightStarts[req[r].key] = None
    BY <1>1, Requests DEF Underway, RequestInv
  <1>5. /\ req' \in [Request -> Req] /\ req'[r] = f
        /\ \A s \in Request : s # r => req'[s] = req[s]
    BY <1>4
  <1>6. RequestInv'
    <2>1. recoveries' \in [Key -> Request \cup {None}]
      BY <1>1, <1>2 DEF RequestInv
    <2> QED BY <1>1, <1>2, <1>3, <1>4, <1>5, <2>1, RequestsKept
  <1>7. SessionInv'
    <2>1. \A s \in Request : req'[s].session <= minted
      BY <1>1, <1>5 DEF SessionInv
    <2> QED BY <1>1, <1>2, <1>3, <2>1, SessionsLeft
  <1>8. WatchInv'
    <2>1. agentWatchers' \in [Key -> DOMAIN procs \cup {None}] /\ agentReadyState' \subseteq Key
          /\ killing' \subseteq Key /\ activeAgentViewers' \subseteq Key
      BY <1>1, <1>2 DEF WatchInv
    <2> QED BY <1>1, <1>2, <1>3, <2>1, Watching
  <1>9. PromptInv'
    <2>1. \A s \in Request : req'[s].pc = "none" => req[s].pc = "none"
      BY <1>5
    <2> QED BY <1>1, <1>2, <2>1, PromptsLeft
  <1>10. BudgetInv'
    BY <1>1, <1>2, <1>3 DEF BudgetInv
  <1>11. RepairInv'
    <2>1. Unshown
      BY <1>3, FadingUnshown
    <2>2. \A s \in Request : req[s].pc = "waiting" => ~procs'[req[s].proc].linked
      BY <1>1, <1>3, StillUnlinked
    <2>3. f.pc = "waiting" => ~procs'[f.proc].linked
      BY <1>2
    <2> QED BY <1>1, <1>2, <2>1, <2>2, <2>3, RepairPausing
  <1> QED BY <1>3, <1>6, <1>7, <1>8, <1>9, <1>10, <1>11 DEF IInv

LEMMA GoingOn ==
  ASSUME IInv, NEW r \in Request, GoesOn(r)
  PROVE  IInv'
  <1>1. /\ TerminalInv /\ WatchInv /\ RequestInv /\ BudgetInv
    BY DEF IInv
  <1>2. PICK k : k = req[r].key
    OBVIOUS
  <1>3. PICK p : p = TerminalOf(k)
    OBVIOUS
  <1>4. k \in Key /\ req[r].pc = "started" /\ ~req[r].re
    BY <1>1, <1>2, Requests DEF Underway, GoesOn
  <1>5. /\ UNCHANGED <<trackingVars, sessionVars, inFlightStarts, promptVars, killing, operations>>
        /\ recoveries' = recoveries
    BY DEF GoesOn
  <1>6. CASE Keep /\ Answer({r}) /\ activeAgentViewers' \in {activeAgentViewers,
                                                             activeAgentViewers \cup BothKeys(k)}
    <2>1. activeAgentViewers' \subseteq Key
      BY <1>1, <1>4, <1>6 DEF WatchInv, BothKeys, TerminalInv
    <2>2. /\ TerminalInv' /\ Fades /\ Quiet /\ \A j \in Key : FadesAt(j)
          /\ killFailures' \in 0..MaxKillFailures
      BY <1>1, <1>6, Keeping
    <2>3. {r} \in SUBSET Request /\ \A s \in {r} : req[s].pc \in {"started", "waiting"} /\ ~req[s].re
      BY <1>4
    <2> QED BY <1>5, <1>6, <2>1, <2>2, <2>3, Ending
  <1>7. CASE /\ p # None /\ Discard(r, TerminalKey(k), p)
             /\ Answer({r}) /\ activeAgentViewers' = activeAgentViewers
    <2>1. activeAgentViewers' \subseteq Key
      BY <1>1, <1>7 DEF WatchInv
    <2>2. /\ TerminalKey(k) \in Key /\ ptyProcesses[TerminalKey(k)] = p
          /\ agentToTerminal[k] = TerminalKey(k)
      BY <1>1, <1>3, <1>4, <1>7, UsedKey
    <2>3. /\ TerminalInv' /\ Fades /\ Quiet /\ \A j \in Key : FadesAt(j)
          /\ killFailures' \in 0..MaxKillFailures
      BY <1>1, <1>2, <1>4, <1>7, <2>2, Discarding
    <2>4. {r} \in SUBSET Request /\ \A s \in {r} : req[s].pc \in {"started", "waiting"} /\ ~req[s].re
      BY <1>4
    <2> QED BY <1>5, <1>7, <2>1, <2>3, <2>4, Ending
  <1>8. CASE /\ p # None /\ ~ReadyTerminal(p) /\ req' = [req EXCEPT ![r].pc = "waiting", ![r].proc = p]
             /\ Keep /\ activeAgentViewers' = activeAgentViewers
    <2>1. /\ p \in DOMAIN procs /\ procs[p].key = TerminalKey(k)
          /\ agentToTerminal[k] = TerminalKey(k) /\ ~procs[p].linked
      BY <1>1, <1>3, <1>4, <1>8, UsedKey DEF ReadyTerminal
    <2>2. PICK f : f = [[req[r] EXCEPT !.pc = "waiting"] EXCEPT !.proc = p]
      OBVIOUS
    <2>3. p \in Terminal /\ req[r] \in Req /\ req \in [Request -> Req]
      BY <1>1, <2>1, Procs, Requests DEF RequestInv
    <2>4. /\ f \in Req /\ f.key = k /\ f.session = req[r].session
          /\ f.kind = req[r].kind /\ f.had = req[r].had /\ f.re = req[r].re
          /\ f.pc = "waiting" /\ f.proc = p
      BY <1>2, <2>2, <2>3 DEF Req
    <2>5. req' = [req EXCEPT ![r] = f]
      BY <1>8, <2>2, <2>3
    <2>6. /\ f.pc = "waiting" /\ req[r].pc = "started" /\ ~procs[f.proc].linked
          /\ f.proc \in DOMAIN procs /\ agentToTerminal[f.key] = procs[f.proc].key
      BY <1>2, <1>4, <2>1, <2>4
    <2>7. /\ f.key = req[r].key /\ f.session = req[r].session /\ f.kind = req[r].kind
          /\ f.had = req[r].had /\ f.re = req[r].re /\ req[r].pc \in {"started", "waiting"}
      BY <1>2, <1>4, <2>4
    <2>8. f \in Req /\ Keep
      BY <1>8, <2>4
    <2>9. UNCHANGED <<trackingVars, sessionVars, inFlightStarts, recoveries, promptVars,
                      activeAgentViewers, killing, operations>>
      BY <1>5, <1>8
    <2> HIDE DEF IInv
    <2> QED BY <2>5, <2>6, <2>7, <2>8, <2>9, Pausing
  <1>9. \/ Keep /\ Answer({r}) /\ activeAgentViewers' \in {activeAgentViewers,
                                                           activeAgentViewers \cup BothKeys(k)}
        \/ /\ p # None /\ Discard(r, TerminalKey(k), p)
           /\ Answer({r}) /\ activeAgentViewers' = activeAgentViewers
        \/ /\ p # None /\ ~ReadyTerminal(p) /\ req' = [req EXCEPT ![r].pc = "waiting", ![r].proc = p]
           /\ Keep /\ activeAgentViewers' = activeAgentViewers
    BY <1>2, <1>3 DEF GoesOn
  <1> QED BY <1>6, <1>7, <1>8, <1>9

(* The replacement did not come up either, or it did: the repair is over.  *)
LEMMA RecoveryFailing ==
  ASSUME IInv, NEW r \in Request, req[r].pc \in {"started", "waiting"},
         NEW p \in DOMAIN procs \cup {None},
         p # None /\ StillThere(p) => agentToTerminal[req[r].key] = procs[p].key,
         RecoveryFails(r, p),
         UNCHANGED <<trackingVars, activeAgentViewers, sessionVars, inFlightStarts,
                     promptVars, killing, operations>>
  PROVE  IInv'
  <1>1. TerminalInv /\ WatchInv /\ RequestInv /\ BudgetInv
    BY DEF IInv
  <1>2. req[r].key \in Key
    BY <1>1, Requests DEF Underway
  <1>3. /\ Answer({r}) /\ recoveries' = RecoveriesAfter({r})
        /\ Keep \/ (p # None /\ StillThere(p) /\ Discard(r, procs[p].key, p))
    BY DEF RecoveryFails
  <1>4. /\ TerminalInv' /\ Fades /\ Quiet /\ \A j \in Key : FadesAt(j)
        /\ killFailures' \in 0..MaxKillFailures
    <2>1. CASE Keep
      BY <1>1, <2>1, Keeping
    <2>2. CASE p # None /\ StillThere(p) /\ Discard(r, procs[p].key, p)
      <3>1. procs[p].key \in Key /\ ptyProcesses[procs[p].key] = p
        BY <1>1, <2>2, Procs DEF Proc, StillThere
      <3> QED BY <1>1, <1>2, <2>2, <3>1, Discarding
    <2> QED BY <1>3, <2>1, <2>2
  <1>5. activeAgentViewers' \subseteq Key
    BY <1>1 DEF WatchInv
  <1>6. {r} \in SUBSET Request /\ \A s \in {r} : req[s].pc \in {"started", "waiting"}
    OBVIOUS
  <1> QED BY <1>3, <1>4, <1>5, <1>6, Ending

LEMMA RecoveryGoingOn ==
  ASSUME IInv, NEW r \in Request, RecoveryGoesOn(r)
  PROVE  IInv'
  <1>1. TerminalInv /\ WatchInv /\ RequestInv /\ BudgetInv
    BY DEF IInv
  <1>2. PICK k : k = req[r].key
    OBVIOUS
  <1>3. PICK p : p = TerminalOf(k)
    OBVIOUS
  <1>4. k \in Key /\ req[r].pc = "started"
    BY <1>1, <1>2, Requests DEF Underway, RecoveryGoesOn
  <1>5. /\ UNCHANGED <<trackingVars, activeAgentViewers, sessionVars, inFlightStarts,
                       promptVars, killing, operations>>
    BY DEF RecoveryGoesOn
  <1>6. /\ p \in DOMAIN procs \cup {None}
        /\ p # None => agentToTerminal[k] = procs[p].key
    BY <1>1, <1>3, <1>4, UsedKey
  <1>7. CASE RecoveryFails(r, p)
    BY <1>2, <1>4, <1>5, <1>6, <1>7, RecoveryFailing
  <1>8. CASE Answer({r}) /\ recoveries' = RecoveriesAfter({r}) /\ Keep
    <2>1. /\ TerminalInv' /\ Fades /\ Quiet /\ \A j \in Key : FadesAt(j)
          /\ killFailures' \in 0..MaxKillFailures
      BY <1>1, <1>8, Keeping
    <2>2. activeAgentViewers' \subseteq Key
      BY <1>1, <1>5 DEF WatchInv
    <2>3. {r} \in SUBSET Request /\ \A s \in {r} : req[s].pc \in {"started", "waiting"}
      BY <1>4
    <2> QED BY <1>5, <1>8, <2>1, <2>2, <2>3, Ending
  <1>9. CASE /\ p # None /\ ~ReadyTerminal(p)
             /\ req' = [req EXCEPT ![r].pc = "waiting", ![r].proc = p]
             /\ Keep /\ UNCHANGED recoveries
    <2>2. PICK f : f = [[req[r] EXCEPT !.pc = "waiting"] EXCEPT !.proc = p]
      OBVIOUS
    <2>3. p \in DOMAIN procs /\ p \in Terminal /\ req[r] \in Req /\ req \in [Request -> Req]
      BY <1>1, <1>6, <1>9, Procs, Requests DEF RequestInv
    <2>4. /\ f \in Req /\ f.key = k /\ f.session = req[r].session
          /\ f.kind = req[r].kind /\ f.had = req[r].had /\ f.re = req[r].re
          /\ f.pc = "waiting" /\ f.proc = p /\ ~procs[f.proc].linked
      BY <1>2, <1>9, <2>2, <2>3 DEF Req, ReadyTerminal
    <2>5. req' = [req EXCEPT ![r] = f]
      BY <1>9, <2>2, <2>3
    <2>6. agentToTerminal[f.key] = procs[f.proc].key
      BY <1>6, <1>9, <2>4
    <2>7. UNCHANGED <<trackingVars, sessionVars, inFlightStarts, recoveries, promptVars,
                      activeAgentViewers, killing, operations>>
      BY <1>5, <1>9
    <2>8. Keep /\ f.key = req[r].key
      BY <1>2, <1>9, <2>4
    <2> QED BY <1>4, <2>3, <2>4, <2>5, <2>6, <2>7, <2>8, Pausing
  <1> QED BY <1>2, <1>3, <1>7, <1>8, <1>9 DEF RecoveryGoesOn

LEMMA RecoveryWaitFailing ==
  ASSUME IInv, NEW r \in Request, RecoveryWaitFails(r)
  PROVE  IInv'
  <1>1. /\ req[r].pc = "waiting" /\ RecoveryFails(r, req[r].proc)
        /\ UNCHANGED <<trackingVars, activeAgentViewers, sessionVars, inFlightStarts,
                       promptVars, killing, operations>>
    BY DEF RecoveryWaitFails
  <1>2. /\ req[r].proc \in DOMAIN procs
        /\ StillThere(req[r].proc) => agentToTerminal[req[r].key] = procs[req[r].proc].key
    BY <1>1, Requests DEF Underway, IInv
  <1> QED BY <1>1, <1>2, RecoveryFailing

(* A terminal is replaced: it is killed, and a start of its own begins.    *)
LEMMA Replacing ==
  ASSUME IInv, Settled, NEW r \in Request, req[r].pc = "waiting", NEW p, p = req[r].proc,
         StillThere(p), Evict(r, p), UNCHANGED sessionHistory,
         ~req[r].re, req[r].had, UNCHANGED <<activeAgentViewers, killing, operations>>
  PROVE  /\ IInv' /\ Fades /\ agentToTerminal'[req[r].key] = NoKey
         /\ req'[r].pc \in {"coalesced", "started", "delivering", "launching"}
         /\ req'[r].re /\ req'[r].had = req[r].had /\ req'[r].kind = req[r].kind
         /\ req'[r].key = req[r].key
         /\ \A s \in Request : s # r => req'[s] = req[s]
  <1>1. /\ TerminalInv /\ WatchInv /\ SessionInv /\ RequestInv /\ RepairInv
        /\ PromptInv /\ BudgetInv
    BY DEF IInv
  <1>2. PICK at : at = procs[p].key
    OBVIOUS
  <1>3. PICK q : q = [req[r] EXCEPT !.re = TRUE, !.proc = None, !.reused = FALSE, !.ok = FALSE]
    OBVIOUS
  <1>4. /\ p \in DOMAIN procs /\ p # None /\ req[r].key \in Key /\ req[r] \in Req
        /\ agentToTerminal[req[r].key] = at /\ req[r].session <= minted
    BY <1>1, <1>2, Requests DEF Underway, SessionInv
  <1>5. /\ q \in Req /\ q.key = req[r].key /\ q.proc = None /\ q.re /\ q.had = req[r].had
        /\ q.kind = req[r].kind /\ q.session = req[r].session
    BY <1>3, <1>4, Constants DEF Req
  <1>6. /\ KillOutcome(p, TRUE) /\ procs' = Killed(p, TRUE)
        /\ ptyProcesses' = [ptyProcesses EXCEPT ![at] = None]
        /\ agentToTerminal' = [j \in Key |-> IF agentToTerminal[j] = at THEN NoKey
                                             ELSE agentToTerminal[j]]
        /\ agentWatchers' = [agentWatchers EXCEPT ![at] = None]
        /\ agentReadyState' = agentReadyState \ {at}
        /\ recoveries' = [recoveries EXCEPT ![at] = r]
        /\ sessionHistory' = sessionHistory
    BY <1>2 DEF Evict, Silenced
  <1>7. Begin(r, q, prompts, agentToTerminal', ptyProcesses')
    BY <1>2, <1>3 DEF Evict
  <1>8. PICK aliases, terminals : aliases = agentToTerminal' /\ terminals = ptyProcesses'
    OBVIOUS
  <1>9. Begin(r, q, prompts, aliases, terminals)
    BY <1>7, <1>8
  <1>10. /\ TerminalInv' /\ Fades /\ Quiet /\ \A j \in Key : FadesAt(j)
         /\ at \in Key /\ ptyProcesses'[at] = None
    BY <1>1, <1>2, <1>4, <1>6, Evicting
  <1>11. agentToTerminal'[req[r].key] = NoKey
    BY <1>4, <1>6
  <1>12. SessionInv' /\ sessionIds' \in [Key -> Session \cup {None}]
    BY <1>1, <1>4, <1>5, <1>6, <1>8, <1>9, <1>10, BeginSessions
  <1>13. recoveries' \in [Key -> Request \cup {None}]
    BY <1>1, <1>6 DEF RequestInv
  <1>14. /\ RequestInv'
         /\ \A s \in Request : s # r => req'[s] = req[s]
         /\ req'[r].pc \in {"coalesced", "started", "delivering", "launching"}
         /\ req'[r].re = q.re /\ req'[r].had = q.had /\ req'[r].kind = q.kind
         /\ req'[r].key = q.key
         /\ agentToTerminal'[q.key] = NoKey => req'[r].pc \in {"coalesced", "launching"}
    BY <1>1, <1>4, <1>5, <1>8, <1>9, <1>10, <1>12, <1>13, Beginning
  <1>15. PromptInv'
    BY <1>1, <1>4, <1>5, <1>9, <1>14, BeginPrompts
  <1>16. WatchInv'
    <2>1. /\ agentWatchers' \in [Key -> DOMAIN procs \cup {None}] /\ agentReadyState' \subseteq Key
          /\ activeAgentViewers' \subseteq Key /\ killing' \subseteq Key
          /\ \A j \in Key : agentWatchers'[j] = agentWatchers[j] \/ ptyProcesses'[j] = None
      BY <1>1, <1>6, <1>10 DEF WatchInv
    <2> QED BY <1>1, <1>10, <2>1, Watching
  <1>17. BudgetInv'
    <2>1. killFailures' \in 0..MaxKillFailures
      BY <1>1, <1>6, Budget
    <2> QED BY <1>1, <2>1 DEF BudgetInv
  <1>18. RepairInv'
    <2>1. Unshown
      BY <1>10, FadingUnshown
    <2>2. \A s \in Request : req[s].pc = "waiting" => ~procs'[req[s].proc].linked
      BY <1>1, <1>10, StillUnlinked
    <2>3. req'[r].kind = "launch" => ~req'[r].had
      BY <1>1, <1>5, <1>14 DEF RepairInv, Repair
    <2>4. req'[r].re /\ req'[r].pc \in {"coalesced", "launching"}
          /\ agentToTerminal'[req'[r].key] = NoKey
      BY <1>5, <1>11, <1>14
    <2>5. \A j \in Key : recoveries'[j] \in {recoveries[j], r}
      BY <1>1, <1>6 DEF RequestInv
    <2> QED BY <1>1, <1>14, <2>1, <2>2, <2>3, <2>4, <2>5, RepairBeginning
  <1> QED BY <1>5, <1>10, <1>11, <1>12, <1>14, <1>15, <1>16, <1>17, <1>18 DEF IInv

LEMMA WaitFailing ==
  ASSUME IInv, Settled, NEW r \in Request, WaitFails(r)
  PROVE  IInv'
  <1>1. /\ TerminalInv /\ WatchInv /\ SessionInv /\ RequestInv /\ RepairInv
        /\ PromptInv /\ BudgetInv
    BY DEF IInv
  <1>2. PICK p : p = req[r].proc
    OBVIOUS
  <1>3. PICK at : at = procs[p].key
    OBVIOUS
  <1>4. /\ req[r].pc = "waiting" /\ ~req[r].re
        /\ UNCHANGED <<activeAgentViewers, killing, operations>>
    BY DEF WaitFails
  <1>5. /\ p \in DOMAIN procs /\ p # None /\ at \in Key /\ req[r].key \in Key /\ req[r] \in Req
        /\ StillThere(p) => agentToTerminal[req[r].key] = at /\ ptyProcesses[at] = p
    BY <1>1, <1>2, <1>3, <1>4, Requests, Procs DEF Underway, StillThere, Proc
  <1>6. CASE /\ recoveries[at] # None
             /\ req' = [req EXCEPT ![r] = [@ EXCEPT !.pc = "joining", !.proc = None,
                                                    !.with = recoveries[at]]]
             /\ Keep
             /\ UNCHANGED <<trackingVars, sessionVars, inFlightStarts, recoveries, promptVars>>
    <2>1. PICK f : f = [req[r] EXCEPT !.pc = "joining", !.proc = None, !.with = recoveries[at]]
      OBVIOUS
    <2>2. recoveries[at] \in Request \cup {None} /\ req \in [Request -> Req]
      BY <1>1, <1>5 DEF RequestInv
    <2>3. /\ f \in Req /\ f.key = req[r].key /\ f.session = req[r].session
          /\ f.kind = req[r].kind /\ f.had = req[r].had /\ f.re = req[r].re
          /\ f.pc = "joining" /\ f.proc = None /\ f.with = recoveries[at]
      BY <1>5, <2>1, <2>2 DEF Req
    <2>5. ~f.re /\ f.with # None /\ req[f.with].re
      BY <1>1, <1>4, <1>5, <1>6, <2>3 DEF RepairInv
    <2>4. req' = [req EXCEPT ![r] = f]
      BY <1>6, <2>1, <2>2
    <2> QED BY <1>4, <1>6, <2>3, <2>4, <2>5, Pausing
  <1>7. CASE StillThere(p) /\ req[r].had /\ Evict(r, p) /\ UNCHANGED sessionHistory
    BY <1>2, <1>4, <1>7, Replacing
  <1>8. CASE /\ StillThere(p) /\ KillOutcome(p, FALSE) /\ procs' = Killed(p, FALSE)
             /\ Answer({r})
             /\ UNCHANGED <<ptyProcesses, agentToTerminal, trackingVars, sessionVars,
                            inFlightStarts, recoveries, promptVars>>
    <2>1. killFailures' \in 0..MaxKillFailures
      BY <1>1, <1>8, Budget
    <2>2. procs' = Killed(ptyProcesses[at], FALSE) /\ ptyProcesses[at] # None
      BY <1>5, <1>8
    <2>3. UNCHANGED <<ptyProcesses, agentToTerminal>>
      BY <1>8
    <2>4. TerminalInv' /\ Fades /\ Quiet /\ \A j \in Key : FadesAt(j)
      BY <1>1, <1>5, <1>8, <2>2, <2>3, Stopping
    <2>5. activeAgentViewers' \subseteq Key
      BY <1>1, <1>4 DEF WatchInv
    <2>6. {r} \in SUBSET Request /\ \A s \in {r} : req[s].pc \in {"started", "waiting"} /\ ~req[s].re
      BY <1>4
    <2> QED BY <1>4, <1>8, <2>1, <2>4, <2>5, <2>6, Ending
  <1>9. CASE /\ Keep \/ (StillThere(p) /\ Discard(r, at, p))
             /\ Answer({r})
             /\ UNCHANGED <<trackingVars, sessionVars, inFlightStarts, recoveries, promptVars>>
    <2>1. /\ TerminalInv' /\ Fades /\ Quiet /\ \A j \in Key : FadesAt(j)
          /\ killFailures' \in 0..MaxKillFailures
      <3>1. CASE Keep
        BY <1>1, <3>1, Keeping
      <3>2. CASE StillThere(p) /\ Discard(r, at, p)
        BY <1>1, <1>5, <3>2, Discarding
      <3> QED BY <1>9, <3>1, <3>2
    <2>2. activeAgentViewers' \subseteq Key
      BY <1>1, <1>4 DEF WatchInv
    <2>3. {r} \in SUBSET Request /\ \A s \in {r} : req[s].pc \in {"started", "waiting"} /\ ~req[s].re
      BY <1>4
    <2> QED BY <1>4, <1>9, <2>1, <2>2, <2>3, Ending
  <1> QED BY <1>2, <1>3, <1>6, <1>7, <1>8, <1>9 DEF WaitFails, MayRecover

LEMMA Starting ==
  ASSUME IInv, Settled, NEW k \in Key, NEW kind \in Kind, Start(k, kind)
  PROVE  /\ IInv'
         /\ \E r \in Request :
               /\ req[r].pc = "none" /\ \A s \in Request : s # r => req'[s] = req[s]
               /\ req'[r].pc \in {"coalesced", "started", "delivering", "launching"}
               /\ ~req'[r].re /\ req'[r].had = HasTerminal(k) /\ req'[r].kind = kind
  <1>1. /\ TerminalInv /\ WatchInv /\ SessionInv /\ RequestInv /\ RepairInv
        /\ PromptInv /\ BudgetInv
    BY DEF IInv
  <1> DEFINE Q == [NoRequest EXCEPT !.key = k, !.kind = kind, !.had = HasTerminal(k)]
             Queue(r) == IF kind = "prompt" THEN [prompts EXCEPT ![k] = Append(@, r)] ELSE prompts
  <1>2. PICK r \in Request :
           /\ req[r].pc = "none" /\ (kind = "launch" => ~HasTerminal(k))
           /\ activeAgentViewers' \in {activeAgentViewers, activeAgentViewers \cup BothKeys(k)}
           /\ Begin(r, Q, Queue(r), agentToTerminal, ptyProcesses)
           /\ UNCHANGED <<terminalVars, trackingVars, sessionHistory, recoveries, killing,
                          budgetVars>>
    BY DEF Start
  <1>3. PICK q, queue : q = Q /\ queue = Queue(r)
    OBVIOUS
  <1>4. /\ q \in Req /\ q.key = k /\ q.proc = None /\ ~q.re /\ q.had = HasTerminal(k)
        /\ q.kind = kind /\ q.session = None
    BY <1>3, Constants DEF Req, NoRequest, HasTerminal, Kind
  <1>5. queue = prompts \/ \E j \in Key : queue = [prompts EXCEPT ![j] = Append(@, r)]
    BY <1>3
  <1>6. /\ TerminalInv' /\ Fades /\ Quiet /\ \A j \in Key : FadesAt(j)
    BY <1>1, <1>2, Unchanging
  <1>7. PICK aliases, terminals : aliases = agentToTerminal' /\ terminals = ptyProcesses'
    OBVIOUS
  <1>8. aliases = agentToTerminal /\ terminals = ptyProcesses
    BY <1>2, <1>7 DEF terminalVars
  <1>9. Begin(r, q, queue, aliases, terminals)
    BY <1>2, <1>3, <1>8
  <1> HIDE DEF Q, Queue
  <1>10. /\ sessionHistory' = sessionHistory /\ recoveries' = recoveries /\ killing' = killing
         /\ agentWatchers' = agentWatchers /\ agentReadyState' = agentReadyState
         /\ operations' = operations /\ killFailures' = killFailures
    BY <1>2 DEF trackingVars, budgetVars
  <1>11. SessionInv' /\ sessionIds' \in [Key -> Session \cup {None}]
    <2>1. q.session <= minted
      BY <1>1, <1>4, Constants DEF SessionInv
    <2> QED BY <1>1, <1>4, <1>6, <1>7, <1>9, <1>10, <2>1, BeginSessions
  <1>12. recoveries' \in [Key -> Request \cup {None}]
    BY <1>1, <1>10 DEF RequestInv
  <1>13. /\ RequestInv'
         /\ \A s \in Request : s # r => req'[s] = req[s]
         /\ req'[r].pc \in {"coalesced", "started", "delivering", "launching"}
         /\ req'[r].re = q.re /\ req'[r].had = q.had /\ req'[r].kind = q.kind
         /\ req'[r].key = q.key
    BY <1>1, <1>2, <1>4, <1>6, <1>7, <1>9, <1>11, <1>12, Beginning
  <1>14. PromptInv'
    BY <1>1, <1>2, <1>4, <1>5, <1>9, <1>13, BeginPrompts
  <1>15. WatchInv'
    <2>1. activeAgentViewers' \subseteq Key
      BY <1>1, <1>2 DEF WatchInv, BothKeys, TerminalInv
    <2>2. /\ agentWatchers' \in [Key -> DOMAIN procs \cup {None}] /\ agentReadyState' \subseteq Key
          /\ killing' \subseteq Key
      BY <1>1, <1>10 DEF WatchInv
    <2> QED BY <1>1, <1>6, <1>10, <2>1, <2>2, Watching
  <1>16. BudgetInv'
    BY <1>1, <1>10 DEF BudgetInv
  <1>17. RepairInv'
    <2>1. Unshown
      BY <1>6, FadingUnshown
    <2>2. \A s \in Request : req[s].pc = "waiting" => ~procs'[req[s].proc].linked
      BY <1>1, <1>6, StillUnlinked
    <2>3. ~req[r].re
      BY <1>1, <1>2 DEF RepairInv, Repair
    <2>4. (req'[r].kind = "launch" => ~req'[r].had) /\ ~req'[r].re
      BY <1>2, <1>4, <1>13
    <2> QED BY <1>1, <1>10, <1>13, <2>1, <2>2, <2>3, <2>4, RepairBeginning
  <1>18. IInv'
    BY <1>6, <1>11, <1>13, <1>14, <1>15, <1>16, <1>17 DEF IInv
  <1> QED BY <1>2, <1>4, <1>13, <1>18

LEMMA LaunchSucceeding ==
  ASSUME IInv, NEW r \in Request, Launched(r)
  PROVE  IInv'
  <1>1. /\ TerminalInv /\ WatchInv /\ SessionInv /\ RequestInv /\ RepairInv
        /\ PromptInv /\ BudgetInv
    BY DEF IInv
  <1>2. PICK k : k = req[r].key
    OBVIOUS
  <1>3. PICK p : p = Len(procs) + 1
    OBVIOUS
  <1>4. /\ req[r].pc = "launching" /\ p <= MaxTerminals
        /\ procs' = Append(procs, [key |-> k, session |-> req[r].session, state |-> "up",
                                   open |-> TRUE, linked |-> FALSE, signalled |-> FALSE,
                                   midKill |-> k \in killing])
        /\ ptyProcesses' = [ptyProcesses EXCEPT ![k] = p]
        /\ agentToTerminal' = [agentToTerminal EXCEPT ![k] = k]
        /\ agentReadyState' = agentReadyState \ {k}
        /\ agentWatchers' = [agentWatchers EXCEPT ![k] = p]
        /\ Over(r, TRUE, FALSE)
        /\ UNCHANGED <<activeAgentViewers, sessionVars, recoveries, promptVars, killing,
                       budgetVars>>
    BY <1>2, <1>3 DEF Launched
  <1>5. /\ k \in Key /\ req[r].session \in Session /\ ptyProcesses[k] = None
        /\ req[r].session <= minted
    BY <1>1, <1>2, <1>4, Requests DEF Underway, SessionInv
  <1>6. PICK x : x = [key |-> k, session |-> req[r].session, state |-> "up", open |-> TRUE,
                      linked |-> FALSE, signalled |-> FALSE, midKill |-> k \in killing]
    OBVIOUS
  <1>7. /\ x \in Proc /\ x.key = k /\ x.session = req[r].session /\ ~x.linked
        /\ x.midKill = (k \in killing) /\ procs' = Append(procs, x)
    BY <1>4, <1>5, <1>6 DEF Proc
  <1>8. /\ ptyProcesses \in [Key -> DOMAIN procs \cup {None}]
        /\ agentToTerminal \in [Key -> Key \cup {NoKey}]
        /\ ptyProcesses' \in [Key -> DOMAIN procs \cup {p, None}]
        /\ agentToTerminal' \in [Key -> Key \cup {NoKey}]
        /\ ptyProcesses'[k] = p /\ agentToTerminal'[k] = k
        /\ \A j \in Key : j # k => /\ ptyProcesses'[j] = ptyProcesses[j]
                                   /\ agentToTerminal'[j] = agentToTerminal[j]
    BY <1>1, <1>4, <1>5 DEF TerminalInv
  <1>9. /\ TerminalInv' /\ p \notin DOMAIN procs /\ p # None
        /\ DOMAIN procs' = DOMAIN procs \cup {p}
        /\ \A q \in DOMAIN procs : procs'[q] = procs[q]
        /\ procs'[p] = x
    BY <1>1, <1>3, <1>4, <1>5, <1>7, <1>8, Launching
  <1>10. /\ RequestInv'
         /\ \A s \in Request : req'[s].pc = "none" => req[s].pc = "none"
         /\ \A s \in Request : req'[s].session \in {req[s].session, None}
         /\ \A s \in Request : req[s].pc = "coalesced" /\ req[s].with = r => req'[s].pc = "started"
         /\ \A s \in Request : \/ req'[s] = req[s] /\ s # r
                               \/ /\ req'[s].pc = "started" /\ req'[s].key = req[s].key
                                  /\ req'[s].re = req[s].re /\ req'[s].had = req[s].had
                                  /\ req'[s].kind = req[s].kind
                                  /\ req'[s].ok = TRUE
                                  /\ s = r \/ (req[s].pc = "coalesced" /\ req[s].with = r)
    <2>1. recoveries' = recoveries
      BY <1>4
    <2>2. /\ ptyProcesses'[req[r].key] \notin DOMAIN procs
          /\ DOMAIN procs \subseteq DOMAIN procs'
          /\ \A q \in DOMAIN procs : procs'[q].key = procs[q].key
          /\ \A j \in Key : j # req[r].key => /\ ptyProcesses'[j] = ptyProcesses[j]
                                              /\ agentToTerminal'[j] = agentToTerminal[j]
      BY <1>2, <1>8, <1>9
    <2>3. /\ req[r].pc \in {"launching", "delivering"} /\ Over(r, TRUE, FALSE)
          /\ agentToTerminal'[req[r].key] = agentToTerminal[req[r].key] \/ req[r].pc = "launching"
      BY <1>4
    <2> QED BY <1>1, <2>1, <2>2, <2>3, StartOver
  <1>11. /\ minted' = minted /\ sessionIds' = sessionIds /\ sessionHistory' = sessionHistory
         /\ prompts' = prompts /\ taken' = taken /\ operations' = operations
         /\ killFailures' = killFailures /\ killing' = killing
         /\ activeAgentViewers' = activeAgentViewers
    BY <1>4 DEF sessionVars, promptVars, budgetVars
  <1>12. SessionInv'
    <2>1. minted \in Nat
      BY <1>1, Constants DEF SessionInv
    <2>2. \A s \in Request : req'[s].session <= minted'
      BY <1>1, <1>10, <1>11, <2>1, Constants DEF SessionInv
    <2>3. \A q \in DOMAIN procs' : procs'[q].session <= minted'
      BY <1>1, <1>5, <1>7, <1>9, <1>11 DEF SessionInv
    <2>4. SessionsAgree'
      <3>1. ASSUME NEW l \in Key, ReadyTerminal(ptyProcesses[l])', NEW j \in Key,
                   j = l \/ agentToTerminal'[j] = l
            PROVE  sessionIds'[j] = procs'[ptyProcesses'[l]].session
        <4>1. ptyProcesses'[l] # None /\ procs'[ptyProcesses'[l]].linked
          BY <3>1 DEF ReadyTerminal
        <4>2. l # k
          BY <4>1, <1>7, <1>8, <1>9
        <4>3. /\ ptyProcesses'[l] = ptyProcesses[l] /\ ptyProcesses[l] \in DOMAIN procs
              /\ procs'[ptyProcesses[l]] = procs[ptyProcesses[l]]
          BY <4>1, <4>2, <1>8, <1>9
        <4>4. ReadyTerminal(ptyProcesses[l])
          BY <4>1, <4>3 DEF ReadyTerminal
        <4>5. j = l \/ agentToTerminal[j] = l
          BY <3>1, <4>2, <1>8
        <4>6. sessionIds[j] = procs[ptyProcesses[l]].session
          BY <4>4, <4>5, <1>1 DEF SessionInv, SessionsAgree, OfficesOf
        <4> QED BY <4>3, <4>6, <1>11
      <3> QED BY <3>1 DEF SessionsAgree, OfficesOf
    <2> QED BY <1>1, <1>11, <2>2, <2>3, <2>4 DEF SessionInv
  <1>13. WatchInv'
    <2>1. /\ agentWatchers \in [Key -> DOMAIN procs \cup {None}]
          /\ agentReadyState \subseteq Key /\ activeAgentViewers \subseteq Key /\ killing \subseteq Key
          /\ \A j \in Key : ptyProcesses[j] # None =>
                /\ agentWatchers[j] = ptyProcesses[j] \/ procs[ptyProcesses[j]].midKill
                /\ j \in killing => procs[ptyProcesses[j]].midKill
      BY <1>1 DEF WatchInv, EventsAreSeen
    <2>2. /\ agentWatchers' \in [Key -> DOMAIN procs' \cup {None}]
          /\ agentWatchers'[k] = p
          /\ \A j \in Key : j # k => agentWatchers'[j] = agentWatchers[j]
          /\ agentReadyState' \subseteq Key /\ activeAgentViewers' \subseteq Key /\ killing' \subseteq Key
      BY <1>4, <1>5, <1>9, <1>11, <2>1
    <2>3. ASSUME NEW j \in Key, ptyProcesses'[j] # None
          PROVE  /\ agentWatchers'[j] = ptyProcesses'[j] \/ procs'[ptyProcesses'[j]].midKill
                 /\ j \in killing' => procs'[ptyProcesses'[j]].midKill
      <3>1. CASE j = k
        BY <3>1, <1>7, <1>8, <1>9, <1>11, <2>2
      <3>2. CASE j # k
        <4>1. /\ ptyProcesses'[j] = ptyProcesses[j]
              /\ procs'[ptyProcesses[j]] = procs[ptyProcesses[j]]
          BY <3>2, <2>3, <1>8, <1>9
        <4> QED BY <3>2, <4>1, <2>1, <2>2, <2>3, <1>11
      <3> QED BY <3>1, <3>2
    <2> QED BY <2>2, <2>3 DEF WatchInv, EventsAreSeen
  <1>14. PromptInv'
    BY <1>1, <1>10, <1>11, PromptsLeft
  <1>15. BudgetInv'
    BY <1>1, <1>11 DEF BudgetInv
  <1>16. RepairInv'
    <2>1. \A s \in Request : req[s].pc = "waiting" => ~procs'[req[s].proc].linked
      <3>1. \A s \in Request : req[s].pc = "waiting" =>
               req[s].proc \in DOMAIN procs /\ ~procs[req[s].proc].linked
        BY <1>1, Requests DEF Underway, RepairInv, Repair
      <3> QED BY <3>1, <1>9
    <2>2. /\ recoveries' = recoveries
          /\ \A j \in Key : agentToTerminal'[j] = agentToTerminal[j] \/ j = req[r].key
      BY <1>2, <1>4, <1>8
    <2> QED BY <1>1, <1>4, <1>10, <2>1, <2>2, RepairOver
  <1> QED BY <1>16, <1>9, <1>10, <1>12, <1>13, <1>14, <1>15 DEF IInv

LEMMA OtherStartOver ==
  ASSUME IInv, NEW r \in Request, req[r].pc \in {"launching", "delivering"},
         NEW ok \in BOOLEAN, NEW reused \in BOOLEAN, Over(r, ok, reused),
         taken' = taken, prompts' = prompts \/ \E k \in Key : prompts' = Take(k),
         UNCHANGED <<terminalVars, trackingVars, activeAgentViewers, sessionVars, recoveries,
                     killing, budgetVars>>
  PROVE  IInv'
  <1>1. /\ TerminalInv /\ WatchInv /\ SessionInv /\ RequestInv /\ RepairInv
        /\ PromptInv /\ BudgetInv
    BY DEF IInv
  <1>2. TerminalInv' /\ Fades /\ Quiet /\ \A j \in Key : FadesAt(j)
    BY <1>1, Unchanging
  <1>3. /\ procs' = procs /\ ptyProcesses' = ptyProcesses /\ agentToTerminal' = agentToTerminal
        /\ agentWatchers' = agentWatchers /\ agentReadyState' = agentReadyState
        /\ activeAgentViewers' = activeAgentViewers /\ recoveries' = recoveries
        /\ killing' = killing /\ operations' = operations /\ killFailures' = killFailures
        /\ UNCHANGED sessionVars
    BY DEF terminalVars, trackingVars, budgetVars
  <1>4. /\ RequestInv'
        /\ \A s \in Request : req'[s].pc = "none" => req[s].pc = "none"
        /\ \A s \in Request : req'[s].session \in {req[s].session, None}
        /\ \A s \in Request : req[s].pc = "coalesced" /\ req[s].with = r => req'[s].pc = "started"
        /\ \A s \in Request : \/ req'[s] = req[s] /\ s # r
                              \/ /\ req'[s].pc = "started" /\ req'[s].key = req[s].key
                                 /\ req'[s].re = req[s].re /\ req'[s].had = req[s].had
                                 /\ req'[s].kind = req[s].kind
                                 /\ req'[s].ok = ok
                                 /\ s = r \/ (req[s].pc = "coalesced" /\ req[s].with = r)
    BY <1>1, <1>3, StartOver
  <1>5. SessionInv'
    <2>1. \A s \in Request : req'[s].session <= minted
      BY <1>1, <1>4, Constants DEF SessionInv
    <2> QED BY <1>1, <1>2, <1>3, <2>1, SessionsLeft
  <1>6. WatchInv'
    <2>1. agentWatchers' \in [Key -> DOMAIN procs \cup {None}] /\ agentReadyState' \subseteq Key
          /\ killing' \subseteq Key /\ activeAgentViewers' \subseteq Key
      BY <1>1, <1>3 DEF WatchInv
    <2> QED BY <1>1, <1>2, <1>3, <2>1, Watching
  <1>7. PromptInv'
    BY <1>1, <1>4, PromptsLeft
  <1>8. BudgetInv'
    BY <1>1, <1>3 DEF BudgetInv
  <1>9. RepairInv'
    <2>1. \A s \in Request : req[s].pc = "waiting" => ~procs'[req[s].proc].linked
      BY <1>1, <1>2, StillUnlinked
    <2> QED BY <1>1, <1>3, <1>4, <2>1, RepairOver
  <1> QED BY <1>2, <1>4, <1>5, <1>6, <1>7, <1>8, <1>9 DEF IInv

LEMMA StartFailing ==
  ASSUME IInv, NEW r \in Request, StartFails(r)
  PROVE  IInv'
  <1>1. /\ req[r].pc \in {"launching", "delivering"}
        /\ prompts' = Take(req[r].key)
        /\ Over(r, FALSE, req[r].pc = "delivering")
        /\ UNCHANGED <<terminalVars, trackingVars, activeAgentViewers, sessionVars, recoveries,
                       killing, budgetVars>>
        /\ taken' = taken
    BY DEF StartFails
  <1>2. req[r].key \in Key
    BY <1>1, Requests DEF Underway, IInv
  <1>3. \E k \in Key : prompts' = Take(k)
    BY <1>1, <1>2
  <1>4. PICK reused \in BOOLEAN : reused = (req[r].pc = "delivering")
    OBVIOUS
  <1>5. Over(r, FALSE, reused)
    BY <1>1, <1>4
  <1> QED BY <1>1, <1>3, <1>5, OtherStartOver

LEMMA Delivering ==
  ASSUME IInv, NEW r \in Request, Delivered(r)
  PROVE  IInv'
  <1>1. /\ req[r].pc \in {"launching", "delivering"} /\ Over(r, TRUE, TRUE)
        /\ UNCHANGED <<terminalVars, trackingVars, activeAgentViewers, sessionVars, recoveries,
                       killing, budgetVars>>
        /\ prompts' = prompts /\ taken' = taken
    BY DEF Delivered, promptVars
  <1> QED BY <1>1, OtherStartOver

-----------------------------------------------------------------------------
(* What users and terminals do to all of it.                               *)

(* Nobody's request is touched.                                            *)
LEMMA Aside ==
  ASSUME IInv, TerminalInv', Fades, Quiet,
         \A r \in Request : req[r].key \in Key => FadesAt(req[r].key),
         UNCHANGED requestVars, SessionInv', WatchInv', BudgetInv', taken' = taken,
         prompts' = prompts \/ \E k \in Key : prompts' = Take(k)
  PROVE  IInv'
  <1>1. RequestInv' /\ req' = req
    BY RequestsLeft DEF IInv, requestVars
  <1>2. PromptInv'
    BY <1>1, PromptsLeft DEF IInv
  <1>3. RepairInv'
    BY FadingUnshown, RepairAside DEF IInv
  <1> QED BY <1>1, <1>2, <1>3 DEF IInv

LEMMA AsideSessions ==
  ASSUME IInv, UNCHANGED requestVars
  PROVE  \A r \in Request : req'[r].session <= minted
  BY DEF IInv, requestVars, SessionInv

LEMMA Operating ==
  ASSUME BudgetInv, Operate, killFailures' \in 0..MaxKillFailures
  PROVE  BudgetInv'
  <1>1. operations \in 0..MaxOperations /\ MaxOperations \in Nat
    BY Constants DEF BudgetInv
  <1> QED BY <1>1 DEF BudgetInv, Operate

(* A key's terminal is stopped.                                            *)
LEMMA StoppingFor ==
  ASSUME TerminalInv, BudgetInv, NEW k \in Key,
         \/ /\ HasTerminal(k)
            /\ \E obeyed \in BOOLEAN :
                  /\ KillOutcome(TerminalOf(k), obeyed)
                  /\ procs' = Killed(TerminalOf(k), obeyed)
            /\ Forgotten(k, TerminalKey(k))
         \/ ~HasTerminal(k) /\ Keep
  PROVE  /\ TerminalInv' /\ Fades /\ Quiet /\ \A j \in Key : FadesAt(j)
         /\ killFailures' \in 0..MaxKillFailures
         /\ ptyProcesses'[k] = None
         /\ agentToTerminal'[k] # NoKey => ptyProcesses'[agentToTerminal'[k]] = None
  <1>1. CASE /\ HasTerminal(k)
             /\ \E obeyed \in BOOLEAN :
                   /\ KillOutcome(TerminalOf(k), obeyed)
                   /\ procs' = Killed(TerminalOf(k), obeyed)
             /\ Forgotten(k, TerminalKey(k))
    <2>1. PICK obeyed \in BOOLEAN : /\ KillOutcome(TerminalOf(k), obeyed)
                                    /\ procs' = Killed(TerminalOf(k), obeyed)
      BY <1>1
    <2>2. killFailures' \in 0..MaxKillFailures
      BY <2>1, Budget
    <2>3. PICK at \in Key : /\ at = TerminalKey(k) /\ ptyProcesses[at] # None
                            /\ agentToTerminal[k] = at /\ TerminalOf(k) = ptyProcesses[at]
      BY <1>1, UsedKey
    <2>4. procs' = Killed(ptyProcesses[at], obeyed) /\ Forgotten(k, at)
      BY <1>1, <2>1, <2>3
    <2>5. /\ TerminalInv' /\ Fades /\ Quiet /\ \A j \in Key : FadesAt(j)
          /\ ptyProcesses'[k] = None /\ agentToTerminal'[k] = NoKey
      BY <2>3, <2>4, Stopping
    <2> QED BY <2>2, <2>5
  <1>2. CASE ~HasTerminal(k) /\ Keep
    <2>1. /\ ptyProcesses[k] = None
          /\ agentToTerminal[k] # NoKey => ptyProcesses[agentToTerminal[k]] = None
      BY <1>2, UsedKey
    <2>2. ptyProcesses' = ptyProcesses /\ agentToTerminal' = agentToTerminal
      BY <1>2 DEF Keep, terminalVars
    <2> QED BY <1>2, <2>1, <2>2, Keeping
  <1> QED BY <1>1, <1>2

(* The session of a key is archived, and another one or none takes its     *)
(* place, where no terminal is shown.                                      *)
LEMMA Archiving ==
  ASSUME IInv, TerminalInv', Fades, Quiet, \A j \in Key : FadesAt(j), NEW k \in Key,
         ptyProcesses'[k] = None,
         agentToTerminal'[k] # NoKey => ptyProcesses'[agentToTerminal'[k]] = None,
         UNCHANGED requestVars,
         NEW s, sessionIds' = [sessionIds EXCEPT ![k] = s],
         \/ s = None /\ sessionHistory' = Archived(k) /\ minted' = minted
         \/ /\ s = minted + 1 /\ minted < MaxSessions /\ minted' = minted + 1
            /\ sessionHistory' = Archived(k)
         \/ /\ s \in sessionHistory[k] /\ minted' = minted
            /\ sessionHistory' = [Archived(k) EXCEPT ![k] = @ \ {s}]
  PROVE  SessionInv'
  <1>1. TerminalInv /\ SessionInv
    BY DEF IInv
  <1>2. /\ minted \in 0..MaxSessions /\ minted \in Nat /\ MaxSessions \in Nat
        /\ sessionIds \in [Key -> 0..minted]
        /\ sessionHistory \in [Key -> SUBSET (1..minted)]
        /\ \A j \in Key : sessionIds[j] \notin sessionHistory[j]
    BY <1>1, Constants DEF SessionInv
  <1>3. /\ minted' \in 0..MaxSessions /\ minted <= minted' /\ minted' \in Nat
        /\ 0..minted \subseteq 0..minted' /\ 1..minted \subseteq 1..minted'
    BY <1>2
  <1>4. s \in 0..minted'
    BY <1>2, <1>3, Constants
  <1>5. /\ sessionIds' \in [Key -> 0..minted'] /\ sessionIds'[k] = s
        /\ \A j \in Key : j # k => sessionIds'[j] = sessionIds[j]
    BY <1>2, <1>3, <1>4
  <1>6. /\ Archived(k) \in [Key -> SUBSET (1..minted)]
        /\ \A j \in Key : j # k => Archived(k)[j] = sessionHistory[j]
    <2>1. {sessionIds[k]} \ {None} \subseteq 1..minted
      BY <1>2, Constants
    <2> QED BY <1>2, <2>1 DEF Archived
  <1>7. /\ sessionHistory' \in [Key -> SUBSET (1..minted)]
        /\ \A j \in Key : j # k => sessionHistory'[j] = sessionHistory[j]
        /\ s \notin sessionHistory'[k]
    <2>1. CASE s \notin 1..minted /\ sessionHistory' = Archived(k)
      BY <1>6, <2>1
    <2>2. CASE sessionHistory' = [Archived(k) EXCEPT ![k] = @ \ {s}]
      BY <1>6, <2>2
    <2>3. s = None \/ s = minted + 1 => s \notin 1..minted
      BY <1>2, Constants
    <2> QED BY <2>1, <2>2, <2>3
  <1>8. sessionHistory' \in [Key -> SUBSET (1..minted')]
    BY <1>3, <1>7
  <1>9. \A j \in Key : sessionIds'[j] \notin sessionHistory'[j]
    BY <1>2, <1>5, <1>7
  <1>10. \A r \in Request : req'[r].session <= minted'
    <2>1. \A r \in Request : req'[r].session <= minted /\ req'[r].session \in Nat
      BY Requests, Constants, AsideSessions DEF IInv, requestVars
    <2> QED BY <2>1, <1>2, <1>3
  <1> QED BY <1>1, <1>3, <1>5, <1>8, <1>9, <1>10, SessionsKept

LEMMA Killing ==
  ASSUME IInv, NEW k \in Key, Kill(k)
  PROVE  IInv'
  <1>1. TerminalInv /\ WatchInv /\ SessionInv /\ BudgetInv
    BY DEF IInv
  <1>2. /\ TerminalInv' /\ Fades /\ Quiet /\ \A j \in Key : FadesAt(j)
        /\ killFailures' \in 0..MaxKillFailures
        /\ ptyProcesses'[k] = None
        /\ agentToTerminal'[k] # NoKey => ptyProcesses'[agentToTerminal'[k]] = None
    <2>1. /\ HasTerminal(k)
          /\ \E obeyed \in BOOLEAN :
                /\ KillOutcome(TerminalOf(k), obeyed)
                /\ procs' = Killed(TerminalOf(k), obeyed)
          /\ Forgotten(k, TerminalKey(k))
      BY DEF Kill
    <2> QED BY <1>1, <2>1, StoppingFor
  <1>3. /\ Operate /\ sessionHistory' = Archived(k)
        /\ sessionIds' = [sessionIds EXCEPT ![k] = None]
        /\ killing' = killing \cup {k} /\ minted' = minted
        /\ agentWatchers' = agentWatchers /\ agentReadyState' = agentReadyState
        /\ activeAgentViewers' = activeAgentViewers /\ UNCHANGED requestVars
        /\ prompts' = prompts /\ taken' = taken
    BY DEF Kill, trackingVars, promptVars
  <1>4. SessionInv'
    BY <1>2, <1>3, Archiving
  <1>5. WatchInv'
    <2>1. /\ agentWatchers' \in [Key -> DOMAIN procs \cup {None}] /\ agentReadyState' \subseteq Key
          /\ activeAgentViewers' \subseteq Key /\ killing' \subseteq Key
          /\ \A j \in killing' : j \in killing \/ ptyProcesses'[j] = None
      BY <1>1, <1>2, <1>3 DEF WatchInv
    <2> QED BY <1>1, <1>2, <1>3, <2>1, Watching
  <1>6. BudgetInv'
    BY <1>1, <1>2, <1>3, Operating
  <1> QED BY <1>2, <1>3, <1>4, <1>5, <1>6, Aside

LEMMA KillSaving ==
  ASSUME IInv, NEW k \in Key, KillSaved(k)
  PROVE  IInv'
  <1>1. TerminalInv /\ WatchInv /\ SessionInv /\ BudgetInv
    BY DEF IInv
  <1>2. /\ k \in killing /\ killing' = killing \ {k}
        /\ agentWatchers' = [agentWatchers EXCEPT ![k] = None]
        /\ agentReadyState' = agentReadyState \ {k}
        /\ prompts' = Take(k) /\ taken' = taken
        /\ activeAgentViewers' = activeAgentViewers
        /\ UNCHANGED <<terminalVars, sessionVars, requestVars>>
        /\ operations' = operations /\ killFailures' = killFailures
    BY DEF KillSaved, Silenced, budgetVars
  <1>3. TerminalInv' /\ Fades /\ Quiet /\ \A j \in Key : FadesAt(j)
    BY <1>1, <1>2, Unchanging
  <1>4. SessionInv'
    BY <1>1, <1>2, <1>3, SessionsLeft, AsideSessions
  <1>5. WatchInv'
    <2>1. /\ agentWatchers' \in [Key -> DOMAIN procs \cup {None}] /\ agentReadyState' \subseteq Key
          /\ activeAgentViewers' \subseteq Key /\ killing' \subseteq Key
          /\ \A j \in killing' : j \in killing
          /\ \A j \in Key : agentWatchers'[j] = agentWatchers[j] \/ j \in killing
      BY <1>1, <1>2 DEF WatchInv
    <2> QED BY <1>1, <1>3, <2>1, Watching
  <1>6. BudgetInv'
    BY <1>1, <1>2 DEF BudgetInv
  <1> QED BY <1>2, <1>3, <1>4, <1>5, <1>6, Aside

(* Reset and restore, which clear all of the key at once.                  *)
LEMMA Clearing ==
  ASSUME IInv, NEW k \in Key, Reset(k) \/ Restore(k)
  PROVE  IInv'
  <1>1. TerminalInv /\ WatchInv /\ SessionInv /\ BudgetInv
    BY DEF IInv
  <1>2. /\ Operate /\ StopFor(k) /\ UNCHANGED requestVars /\ taken' = taken
        /\ killing' = killing
        /\ activeAgentViewers' \in {activeAgentViewers, activeAgentViewers \ {k}}
    BY DEF Reset, Restore
  <1>3. /\ TerminalInv' /\ Fades /\ Quiet /\ \A j \in Key : FadesAt(j)
        /\ killFailures' \in 0..MaxKillFailures
        /\ ptyProcesses'[k] = None
        /\ agentToTerminal'[k] # NoKey => ptyProcesses'[agentToTerminal'[k]] = None
    <2>1. \/ /\ HasTerminal(k)
             /\ \E obeyed \in BOOLEAN :
                   /\ KillOutcome(TerminalOf(k), obeyed)
                   /\ procs' = Killed(TerminalOf(k), obeyed)
             /\ Forgotten(k, TerminalKey(k))
          \/ ~HasTerminal(k) /\ Keep
      BY <1>2 DEF StopFor
    <2> QED BY <1>1, <2>1, StoppingFor
  <1>4. /\ agentWatchers' = [agentWatchers EXCEPT ![k] = None]
        /\ agentReadyState' = agentReadyState \ {k} /\ prompts' = Take(k)
    BY <1>2 DEF StopFor, Silenced
  <1>5. SessionInv'
    <2>1. CASE Reset(k)
      <3>1. /\ minted < MaxSessions /\ minted' = minted + 1 /\ sessionHistory' = Archived(k)
            /\ sessionIds' = [sessionIds EXCEPT ![k] = minted + 1]
        BY <2>1 DEF Reset
      <3> QED BY <1>2, <1>3, <3>1, Archiving
    <2>2. CASE Restore(k)
      <3>1. PICK s \in sessionHistory[k] :
               /\ sessionHistory' = [Archived(k) EXCEPT ![k] = @ \ {s}]
               /\ sessionIds' = [sessionIds EXCEPT ![k] = s]
        BY <2>2 DEF Restore
      <3>2. minted' = minted
        BY <2>2 DEF Restore
      <3> QED BY <1>2, <1>3, <3>1, <3>2, Archiving
    <2> QED BY <2>1, <2>2
  <1>6. WatchInv'
    <2>1. /\ agentWatchers' \in [Key -> DOMAIN procs \cup {None}] /\ agentReadyState' \subseteq Key
          /\ activeAgentViewers' \subseteq Key /\ killing' \subseteq Key
          /\ \A j \in Key : agentWatchers'[j] = agentWatchers[j] \/ ptyProcesses'[j] = None
      BY <1>1, <1>2, <1>3, <1>4 DEF WatchInv
    <2> QED BY <1>1, <1>2, <1>3, <2>1, Watching
  <1>7. BudgetInv'
    BY <1>1, <1>2, <1>3, Operating
  <1> QED BY <1>2, <1>3, <1>4, <1>5, <1>6, <1>7, Aside

LEMMA TransferringOver ==
  ASSUME IInv, NEW from \in Key, NEW to \in Key, Transfer(from, to)
  PROVE  IInv'
  <1>1. TerminalInv /\ WatchInv /\ SessionInv /\ RequestInv /\ BudgetInv
    BY DEF IInv
  <1>2. /\ TerminalInv' /\ Fades /\ Quiet /\ procs' = procs /\ ptyProcesses' = ptyProcesses
        /\ \A j \in Key : j # to => agentToTerminal'[j] = agentToTerminal[j]
        /\ agentToTerminal'[to] # NoKey => agentToTerminal'[to] = agentToTerminal[from]
        /\ \A r \in Request : req[r].key # to
        /\ agentToTerminal[to] = NoKey /\ ptyProcesses[to] = None
    BY <1>1, Transferring
  <1>3. /\ Operate /\ from # to
        /\ sessionIds' = [sessionIds EXCEPT ![to] = sessionIds[from]]
        /\ sessionHistory' = [sessionHistory EXCEPT ![to] = sessionHistory[from]]
        /\ agentWatchers' = agentWatchers /\ minted' = minted /\ UNCHANGED requestVars
        /\ prompts' = prompts /\ taken' = taken
        /\ killing' = killing /\ killFailures' = killFailures
    BY DEF Transfer, promptVars
  <1>4. agentReadyState' \subseteq Key /\ activeAgentViewers' \subseteq Key
    <2>1. PICK at : at = agentToTerminal[from]
      OBVIOUS
    <2>2. CASE /\ at # NoKey
               /\ agentReadyState' = agentReadyState
                                      \cup (IF from \in agentReadyState THEN {to} ELSE {})
               /\ activeAgentViewers' = activeAgentViewers
                                         \cup (IF from \in activeAgentViewers THEN {to, at} ELSE {})
      <3>1. at \in Key
        BY <1>1, <2>1, <2>2 DEF TerminalInv
      <3> QED BY <1>1, <2>2, <3>1 DEF WatchInv
    <2>3. CASE agentReadyState' = agentReadyState /\ activeAgentViewers' = activeAgentViewers
      BY <1>1, <2>3 DEF WatchInv
    <2> QED BY <2>1, <2>2, <2>3 DEF Transfer
  <1>5. \A r \in Request : req[r].key \in Key => FadesAt(req[r].key)
    BY <1>2 DEF FadesAt
  <1>6. SessionInv'
    <2>1. /\ sessionIds \in [Key -> 0..minted]
          /\ sessionHistory \in [Key -> SUBSET (1..minted)]
          /\ \A j \in Key : sessionIds[j] \notin sessionHistory[j]
      BY <1>1 DEF SessionInv
    <2>2. /\ sessionIds' \in [Key -> 0..minted]
          /\ sessionHistory' \in [Key -> SUBSET (1..minted)]
          /\ \A j \in Key : sessionIds'[j] \notin sessionHistory'[j]
          /\ sessionIds'[to] = sessionIds[from]
          /\ \A j \in Key : j # to => sessionIds'[j] = sessionIds[j]
      BY <1>3, <2>1
    <2>3. SessionsAgree'
      <3>1. ASSUME NEW k \in Key, ReadyTerminal(ptyProcesses[k])', NEW j \in Key,
                   j = k \/ agentToTerminal'[j] = k
            PROVE  sessionIds'[j] = procs'[ptyProcesses'[k]].session
        <4>1. ReadyTerminal(ptyProcesses[k])
          BY <3>1, <1>2 DEF ReadyTerminal
        <4>2. \A i \in Key : i = k \/ agentToTerminal[i] = k =>
                 sessionIds[i] = procs[ptyProcesses[k]].session
          BY <1>1, <4>1 DEF SessionInv, SessionsAgree, OfficesOf
        <4>3. CASE j = to
          <5>1. k # to /\ k # NoKey
            BY <1>2, <4>1, Constants DEF ReadyTerminal
          <5>2. agentToTerminal[from] = k
            BY <3>1, <4>3, <5>1, <1>2
          <5> QED BY <4>2, <4>3, <5>2, <2>2, <1>2
        <4>4. CASE j # to
          BY <3>1, <4>2, <4>4, <2>2, <1>2
        <4> QED BY <4>3, <4>4
      <3> QED BY <3>1 DEF SessionsAgree, OfficesOf
    <2>4. \A r \in Request : req'[r].session <= minted
      BY <1>3, AsideSessions
    <2> QED BY <1>1, <1>2, <1>3, <2>2, <2>3, <2>4 DEF SessionInv
  <1>7. WatchInv'
    <2>1. agentWatchers' \in [Key -> DOMAIN procs \cup {None}] /\ killing' \subseteq Key
      BY <1>1, <1>3 DEF WatchInv
    <2> QED BY <1>1, <1>2, <1>3, <1>4, <2>1, Watching
  <1>8. BudgetInv'
    <2>1. killFailures' \in 0..MaxKillFailures
      BY <1>1, <1>3 DEF BudgetInv
    <2> QED BY <1>1, <1>3, <2>1, Operating
  <1> QED BY <1>2, <1>3, <1>5, <1>6, <1>7, <1>8, Aside

LEMMA Viewing ==
  ASSUME IInv, NEW k \in Key, Attach(k) \/ Detach(k)
  PROVE  IInv'
  <1>1. TerminalInv /\ WatchInv /\ SessionInv /\ BudgetInv
    BY DEF IInv
  <1>2. /\ agentWatchers' = agentWatchers /\ agentReadyState' = agentReadyState
        /\ UNCHANGED <<terminalVars, sessionVars, requestVars>>
        /\ prompts' = prompts /\ taken' = taken /\ killing' = killing
        /\ operations' = operations /\ killFailures' = killFailures
        /\ activeAgentViewers' \in {activeAgentViewers \cup BothKeys(k),
                                    activeAgentViewers \ BothKeys(k)}
    BY DEF Attach, Detach, trackingVars, promptVars, budgetVars
  <1>3. TerminalInv' /\ Fades /\ Quiet /\ \A j \in Key : FadesAt(j)
    BY <1>1, <1>2, Unchanging
  <1>4. SessionInv'
    BY <1>1, <1>2, <1>3, SessionsLeft, AsideSessions
  <1>5. WatchInv'
    <2>1. activeAgentViewers' \subseteq Key
      BY <1>1, <1>2 DEF WatchInv, BothKeys, TerminalInv
    <2>2. /\ agentWatchers' \in [Key -> DOMAIN procs \cup {None}] /\ agentReadyState' \subseteq Key
          /\ killing' \subseteq Key
      BY <1>1, <1>2 DEF WatchInv
    <2> QED BY <1>1, <1>2, <1>3, <2>1, <2>2, Watching
  <1>6. BudgetInv'
    BY <1>1, <1>2 DEF BudgetInv
  <1> QED BY <1>2, <1>3, <1>4, <1>5, <1>6, Aside

LEMMA LinkLosing ==
  ASSUME IInv, NEW p \in DOMAIN procs, LosesLink(p)
  PROVE  IInv'
  <1>1. TerminalInv /\ WatchInv /\ SessionInv /\ BudgetInv
    BY DEF IInv
  <1>2. /\ agentWatchers' = agentWatchers /\ agentReadyState' = agentReadyState
        /\ activeAgentViewers' = activeAgentViewers
        /\ UNCHANGED <<sessionVars, requestVars>>
        /\ prompts' = prompts /\ taken' = taken /\ killing' = killing
        /\ operations' = operations /\ killFailures' = killFailures
    BY DEF LosesLink, trackingVars, promptVars, budgetVars
  <1>3. TerminalInv' /\ Fades /\ Quiet /\ \A j \in Key : FadesAt(j)
    BY <1>1, Unlinking
  <1>4. SessionInv'
    BY <1>1, <1>2, <1>3, SessionsLeft, AsideSessions
  <1>5. WatchInv'
    <2>1. /\ agentWatchers' \in [Key -> DOMAIN procs \cup {None}] /\ agentReadyState' \subseteq Key
          /\ killing' \subseteq Key /\ activeAgentViewers' \subseteq Key
      BY <1>1, <1>2 DEF WatchInv
    <2> QED BY <1>1, <1>2, <1>3, <2>1, Watching
  <1>6. BudgetInv'
    BY <1>1, <1>2 DEF BudgetInv
  <1> QED BY <1>2, <1>3, <1>4, <1>5, <1>6, Aside

LEMMA ProcessExiting ==
  ASSUME IInv, NEW p \in DOMAIN procs, Exits(p)
  PROVE  IInv'
  <1>1. TerminalInv /\ WatchInv /\ SessionInv /\ BudgetInv
    BY DEF IInv
  <1>2. PICK k : k = procs[p].key
    OBVIOUS
  <1>3. k \in Key
    BY <1>1, <1>2, Procs DEF Proc
  <1>4. /\ UNCHANGED <<sessionVars, requestVars>>
        /\ taken' = taken /\ killing' = killing
        /\ operations' = operations /\ killFailures' = killFailures
        /\ \/ /\ ptyProcesses[k] = p
              /\ ptyProcesses' = [ptyProcesses EXCEPT ![k] = None]
              /\ activeAgentViewers' = activeAgentViewers \ {k}
              /\ agentReadyState' = agentReadyState \ {k}
              /\ prompts' = Take(k)
              /\ agentWatchers' = [agentWatchers EXCEPT ![k] = None]
           \/ /\ activeAgentViewers' = activeAgentViewers /\ agentReadyState' = agentReadyState
              /\ prompts' = prompts /\ agentWatchers' = agentWatchers
    BY <1>2 DEF Exits, ExitIsOf, Silenced, trackingVars, budgetVars
  <1>5. TerminalInv' /\ Fades /\ Quiet /\ \A j \in Key : FadesAt(j)
    BY <1>1, Exiting
  <1>6. SessionInv'
    BY <1>1, <1>4, <1>5, SessionsLeft, AsideSessions
  <1>7. WatchInv'
    <2>1. /\ agentWatchers' \in [Key -> DOMAIN procs \cup {None}] /\ agentReadyState' \subseteq Key
          /\ killing' \subseteq Key /\ activeAgentViewers' \subseteq Key
      BY <1>1, <1>4 DEF WatchInv
    <2>2. \A j \in Key : agentWatchers'[j] = agentWatchers[j] \/ ptyProcesses'[j] = None
      BY <1>1, <1>3, <1>4 DEF WatchInv, TerminalInv
    <2> QED BY <1>1, <1>4, <1>5, <2>1, <2>2, Watching
  <1>8. BudgetInv'
    BY <1>1, <1>4 DEF BudgetInv
  <1>9. prompts' = prompts \/ \E j \in Key : prompts' = Take(j)
    BY <1>3, <1>4
  <1> QED BY <1>4, <1>5, <1>6, <1>7, <1>8, <1>9, Aside

LEMMA RegisteringAll ==
  ASSUME IInv, NEW p \in DOMAIN procs, Registers(p)
  PROVE  IInv'
  <1>1. /\ TerminalInv /\ WatchInv /\ SessionInv /\ RequestInv /\ RepairInv
        /\ PromptInv /\ BudgetInv
    BY DEF IInv
  <1>2. /\ minted \in 0..MaxSessions /\ minted \in Nat /\ MaxSessions \in Nat
        /\ procs[p].session <= minted
        /\ sessionIds \in [Key -> 0..minted]
        /\ sessionHistory \in [Key -> SUBSET (1..minted)]
        /\ \A j \in Key : sessionIds[j] \notin sessionHistory[j]
    BY <1>1, Constants DEF SessionInv
  <1>3. /\ TerminalInv' /\ Fades /\ \A j \in Key : FadesAt(j)
        /\ DOMAIN procs' = DOMAIN procs
        /\ \A q \in DOMAIN procs : q # p => procs'[q] = procs[q]
        /\ procs'[p].session \in {procs[p].session, minted + 1}
        /\ minted' = IF procs'[p].session > minted THEN procs'[p].session ELSE minted
        /\ procs'[p].session <= MaxSessions
        /\ procs'[p].key = procs[p].key
        /\ IF StillThere(p) THEN Applied(procs[p].key, procs'[p].session)
                            ELSE UNCHANGED <<sessionIds, sessionHistory>>
    BY <1>1, <1>2, Registering
  <1>4. PICK k \in Key : k = procs[p].key
    BY <1>1, Procs DEF Proc
  <1>5. PICK s : s = procs'[p].session
    OBVIOUS
  <1>6. s \in Session /\ procs[p].session \in Session
    <2>1. procs[p].session \in Session
      BY <1>1, Procs DEF Proc
    <2> QED BY <2>1, <1>2, <1>3, <1>5, Constants
  <1>7. PICK R \in SUBSET Request : R = {r \in Request : req[r].pc = "waiting" /\ req[r].proc = p}
    OBVIOUS
  <1>8. /\ Answer(R) /\ recoveries' = RecoveriesAfter(R)
        /\ ptyProcesses' = ptyProcesses /\ agentToTerminal' = agentToTerminal
        /\ agentWatchers' = agentWatchers /\ activeAgentViewers' = activeAgentViewers
        /\ inFlightStarts' = inFlightStarts /\ killing' = killing
        /\ operations' = operations /\ killFailures' = killFailures
    BY <1>7 DEF Registers, budgetVars
  <1>9. \/ /\ agentReadyState' = agentReadyState \cup {k}
           /\ prompts' = Take(k) /\ taken' = Handed(prompts[k])
        \/ agentReadyState' = agentReadyState /\ prompts' = prompts /\ taken' = taken
    BY <1>4 DEF Registers, promptVars
  <1>10. /\ RequestInv'
         /\ \A r \in Request : req'[r].pc = "none" => req[r].pc = "none"
         /\ \A r \in Request : req'[r].session <= minted
    BY <1>1, <1>3, <1>7, <1>8, AnswersEnd
  <1>11. PromptInv'
    <2>1. CASE prompts' = Take(k) /\ taken' = Handed(prompts[k])
      <3>1. Queued(prompts) /\ prompts \in [Key -> Seq(Request)]
        BY <1>1 DEF PromptInv, Queued
      <3>2. \A j \in Key : \A i \in DOMAIN prompts[j] :
               prompts[j][i] \in Request /\ req'[prompts[j][i]].pc # "none"
        <4>1. \A j \in Key : \A i \in DOMAIN prompts[j] : prompts[j][i] \in Request
          BY <3>1, ElementOfSeq, LenProperties
        <4> QED BY <4>1, <1>1, <1>10 DEF PromptInv
      <3>3. \A r \in Request : req'[r].pc = "none" => taken[r] = 0
        BY <1>1, <1>10 DEF PromptInv
      <3>4. <<>> \in Seq(Request)
        BY EmptySeq
      <3>5. /\ prompts' \in [Key -> Seq(Request)]
            /\ \A j \in Key : prompts'[j] = IF j = k THEN <<>> ELSE prompts[j]
        BY <2>1, <3>1, <3>4 DEF Take
      <3>6. PICK queue : queue = prompts
        OBVIOUS
      <3>7. /\ Queued(queue) /\ taken' = Handed(queue[k])
            /\ \A j \in Key : \A i \in DOMAIN queue[j] : req'[queue[j][i]].pc # "none"
            /\ \A j \in Key : prompts'[j] = IF j = k THEN <<>> ELSE queue[j]
        BY <2>1, <3>1, <3>2, <3>5, <3>6
      <3> QED BY <3>3, <3>5, <3>7, HandOut
    <2>2. CASE prompts' = prompts /\ taken' = taken
      BY <1>1, <1>10, <2>2, PromptsLeft
    <2> QED BY <1>9, <2>1, <2>2
  <1>12. /\ minted' \in 0..MaxSessions /\ minted <= minted' /\ minted' \in Nat /\ s <= minted'
         /\ 0..minted \subseteq 0..minted' /\ 1..minted \subseteq 1..minted'
    BY <1>2, <1>3, <1>5, <1>6, Constants
  <1>13. s \in 0..minted' /\ s # None
    BY <1>6, <1>12, Constants
  <1>14. /\ sessionIds' \in [Key -> 0..minted']
         /\ sessionHistory' \in [Key -> SUBSET (1..minted')]
         /\ \A j \in Key : sessionIds'[j] \notin sessionHistory'[j]
         /\ StillThere(p) => \A j \in Key :
               sessionIds'[j] = IF j = k \/ agentToTerminal[j] = k THEN s ELSE sessionIds[j]
         /\ ~StillThere(p) => sessionIds' = sessionIds
    <2>1. CASE StillThere(p)
      <3>1. Applied(k, s)
        BY <1>3, <1>4, <1>5, <2>1
      <3> DEFINE changed == {j \in OfficesOf(k) : sessionIds[j] # s}
      <3>2. /\ sessionIds' = [j \in Key |-> IF j \in changed THEN s ELSE sessionIds[j]]
            /\ sessionHistory' = [j \in Key |->
                  IF j \in changed THEN (sessionHistory[j] \cup {sessionIds[j]}) \ {s, None}
                                   ELSE sessionHistory[j]]
        BY <3>1 DEF Applied
      <3>3. \A j \in Key : j \in changed <=> (j = k \/ agentToTerminal[j] = k) /\ sessionIds[j] # s
        BY <1>4 DEF OfficesOf
      <3> HIDE DEF changed
      <3>4. sessionIds' \in [Key -> 0..minted']
        BY <3>2, <1>2, <1>12, <1>13
      <3>5. ASSUME NEW j \in Key
            PROVE  /\ sessionHistory'[j] \subseteq 1..minted'
                   /\ sessionIds'[j] \notin sessionHistory'[j]
                   /\ sessionIds'[j] = IF j = k \/ agentToTerminal[j] = k THEN s
                                       ELSE sessionIds[j]
        <4>1. CASE j \in changed
          <5>1. /\ sessionIds'[j] = s
                /\ sessionHistory'[j] = (sessionHistory[j] \cup {sessionIds[j]}) \ {s, None}
            BY <3>2, <4>1
          <5>2. sessionIds[j] \in 0..minted /\ sessionHistory[j] \subseteq 1..minted
            BY <1>2
          <5>3. sessionIds[j] # None => sessionIds[j] \in 1..minted
            BY <5>2, Constants
          <5> QED BY <5>1, <5>2, <5>3, <3>3, <4>1, <1>12
        <4>2. CASE j \notin changed
          BY <3>2, <3>3, <4>2, <1>2, <1>12
        <4> QED BY <4>1, <4>2
      <3>6. sessionHistory' \in [Key -> SUBSET (1..minted')]
        <4>1. sessionHistory' = [j \in Key |-> sessionHistory'[j]]
          BY <3>2
        <4> QED BY <4>1, <3>5
      <3> QED BY <2>1, <3>4, <3>5, <3>6
    <2>2. CASE ~StillThere(p)
      BY <1>2, <1>3, <1>12, <2>2
    <2> QED BY <2>1, <2>2
  <1>15. SessionInv'
    <2>1. ASSUME NEW q \in DOMAIN procs'
          PROVE  procs'[q].session <= minted'
      <3>1. CASE q = p
        BY <3>1, <1>5, <1>12
      <3>2. CASE q # p
        <4>1. procs'[q].session = procs[q].session /\ procs[q].session <= minted
              /\ procs[q].session \in Session
          BY <3>2, <1>1, <1>3, Procs DEF SessionInv, Proc
        <4> QED BY <4>1, <1>2, <1>12, Constants
      <3> QED BY <3>1, <3>2
    <2>2. \A r \in Request : req'[r].session <= minted'
      <3>1. \A r \in Request : req'[r].session \in Nat
        BY <1>10, Constants DEF RequestInv, Req
      <3> QED BY <3>1, <1>2, <1>10, <1>12
    <2>3. SessionsAgree'
      <3>1. ASSUME NEW l \in Key, ReadyTerminal(ptyProcesses[l])', NEW j \in Key,
                   j = l \/ agentToTerminal'[j] = l
            PROVE  sessionIds'[j] = procs'[ptyProcesses'[l]].session
        <4>1. /\ ptyProcesses[l] # None /\ ptyProcesses[l] \in DOMAIN procs
              /\ procs[ptyProcesses[l]].key = l
              /\ agentToTerminal[l] = l /\ procs'[ptyProcesses[l]].linked
              /\ agentToTerminal[j] = l
          BY <3>1, <1>1, <1>8 DEF ReadyTerminal, TerminalInv
        <4>2. CASE ptyProcesses[l] = p
          BY <4>1, <4>2, <1>4, <1>5, <1>8, <1>14 DEF StillThere
        <4>3. CASE ptyProcesses[l] # p
          <5>1. procs'[ptyProcesses[l]] = procs[ptyProcesses[l]]
            BY <4>1, <4>3, <1>3
          <5>2. ReadyTerminal(ptyProcesses[l])
            BY <4>1, <5>1 DEF ReadyTerminal
          <5>3. sessionIds[j] = procs[ptyProcesses[l]].session
            BY <4>1, <5>2, <1>1 DEF SessionInv, SessionsAgree, OfficesOf
          <5>4. sessionIds'[j] = sessionIds[j]
            <6>1. CASE StillThere(p)
              <7>1. ptyProcesses[k] = p
                BY <6>1, <1>4 DEF StillThere
              <7>2. agentToTerminal[k] = k
                BY <7>1, <1>1, Procs DEF TerminalInv
              <7>3. k # l /\ j # k /\ agentToTerminal[j] # k
                BY <7>1, <7>2, <4>1, <4>3
              <7> QED BY <6>1, <7>3, <1>14
            <6>2. CASE ~StillThere(p)
              BY <6>2, <1>14
            <6> QED BY <6>1, <6>2
          <5> QED BY <5>1, <5>3, <5>4, <1>8
        <4> QED BY <4>2, <4>3
      <3> QED BY <3>1 DEF SessionsAgree, OfficesOf
    <2> QED BY <1>12, <1>14, <2>1, <2>2, <2>3 DEF SessionInv
  <1>16. WatchInv'
    <2>1. /\ agentWatchers' \in [Key -> DOMAIN procs \cup {None}] /\ agentReadyState' \subseteq Key
          /\ killing' \subseteq Key /\ activeAgentViewers' \subseteq Key
      BY <1>1, <1>4, <1>8, <1>9 DEF WatchInv
    <2> QED BY <1>1, <1>3, <1>8, <2>1, Watching
  <1>17. BudgetInv'
    BY <1>1, <1>8 DEF BudgetInv
  <1>18. RepairInv'
    <2>1. Unshown
      BY <1>3, FadingUnshown
    <2>2. \A r \in Request \ R : req[r].pc = "waiting" => ~procs'[req[r].proc].linked
      <3>1. \A r \in Request : req[r].pc = "waiting" =>
               req[r].proc \in DOMAIN procs /\ ~procs[req[r].proc].linked
        BY <1>1, Requests DEF Underway, RepairInv, Repair
      <3> QED BY <3>1, <1>3, <1>7
    <2> QED BY <1>1, <1>7, <1>8, <2>1, <2>2, RepairEnding
  <1> QED BY <1>3, <1>10, <1>11, <1>15, <1>16, <1>17, <1>18 DEF IInv

-----------------------------------------------------------------------------
(* The theorems.                                                           *)

LEMMA Initially == Init => IInv
  <1> SUFFICES ASSUME Init
               PROVE  IInv
    OBVIOUS
  <1>1. /\ procs = <<>> /\ procs \in Seq(Proc) /\ Len(procs) = 0 /\ DOMAIN procs = {}
        /\ <<>> \in Seq(Request) /\ DOMAIN <<>> = {}
    BY EmptySeq DEF Init
  <1>2. TerminalInv
    BY <1>1, Constants DEF Init, TerminalInv, NoOrphan
  <1>3. WatchInv
    BY <1>1, Constants DEF Init, WatchInv, EventsAreSeen
  <1>4. SessionInv
    BY <1>1, Constants, NothingAsked DEF Init, SessionInv, SessionsAgree, ReadyTerminal
  <1>5. RequestInv
    BY <1>1, Constants, NothingAsked DEF Init, RequestInv, Underway
  <1>6. PromptInv
    BY <1>1, Constants DEF Init, PromptInv, Queued
  <1>7. BudgetInv
    BY Constants DEF Init, BudgetInv
  <1>8. RepairInv
    BY Constants, NothingAsked DEF Init, RepairInv, Repair, NoRequest
  <1> QED BY <1>2, <1>3, <1>4, <1>5, <1>6, <1>7, <1>8 DEF IInv

LEMMA Stuttering ==
  ASSUME IInv, UNCHANGED vars
  PROVE  IInv'
  <1>1. /\ UNCHANGED <<terminalVars, trackingVars, sessionVars, requestVars, promptVars, budgetVars>>
        /\ killing' = killing /\ activeAgentViewers' = activeAgentViewers
    BY DEF vars
  <1>2. /\ agentWatchers' = agentWatchers /\ agentReadyState' = agentReadyState
        /\ prompts' = prompts /\ taken' = taken
        /\ operations' = operations /\ killFailures' = killFailures
    BY <1>1 DEF trackingVars, promptVars, budgetVars
  <1>3. TerminalInv' /\ Fades /\ Quiet /\ \A j \in Key : FadesAt(j)
    BY <1>1, Unchanging DEF IInv
  <1>4. SessionInv'
    BY <1>1, <1>3, SessionsLeft, AsideSessions DEF IInv
  <1>5. WatchInv'
    <2>1. /\ agentWatchers' \in [Key -> DOMAIN procs \cup {None}] /\ agentReadyState' \subseteq Key
          /\ killing' \subseteq Key /\ activeAgentViewers' \subseteq Key
      BY <1>1, <1>2 DEF IInv, WatchInv
    <2> QED BY <1>1, <1>2, <1>3, <2>1, Watching DEF IInv
  <1>6. BudgetInv'
    BY <1>2 DEF IInv, BudgetInv
  <1> QED BY <1>1, <1>2, <1>3, <1>4, <1>5, <1>6, Aside

LEMMA EveryStep == IInv /\ [Next]_vars => IInv'
  <1> SUFFICES ASSUME IInv, [Next]_vars
               PROVE  IInv'
    OBVIOUS
  <1>1. ASSUME NEW r \in Request, GoesOn(r) \/ RecoveryGoesOn(r)
        PROVE  IInv'
    BY <1>1, GoingOn, RecoveryGoingOn
  <1>2. ASSUME Settled, NEW k \in Key, NEW kind \in Kind, Start(k, kind)
        PROVE  IInv'
    BY <1>2, Starting
  <1>3. ASSUME Settled, NEW r \in Request,
               \/ Launched(r) \/ StartFails(r) \/ Delivered(r)
               \/ WaitFails(r) \/ RecoveryWaitFails(r)
        PROVE  IInv'
    BY <1>3, LaunchSucceeding, StartFailing, Delivering, WaitFailing, RecoveryWaitFailing
  <1>4. ASSUME NEW k \in Key, \/ Kill(k) \/ KillSaved(k) \/ Reset(k) \/ Restore(k)
                              \/ Attach(k) \/ Detach(k)
        PROVE  IInv'
    BY <1>4, Killing, KillSaving, Clearing, Viewing
  <1>5. ASSUME NEW from \in Key, NEW to \in Key, Transfer(from, to)
        PROVE  IInv'
    BY <1>5, TransferringOver
  <1>6. ASSUME NEW p \in DOMAIN procs, Registers(p) \/ LosesLink(p) \/ Exits(p)
        PROVE  IInv'
    BY <1>6, RegisteringAll, LinkLosing, ProcessExiting
  <1>7. CASE UNCHANGED vars
    BY <1>7, Stuttering
  <1> QED BY <1>1, <1>2, <1>3, <1>4, <1>5, <1>6, <1>7 DEF Next

(* Terminals, event sources, sessions, requests, and prompts are in order  *)
(* after every step of every number of offices, requests and terminals.    *)
THEOREM Invariance == Spec => []IInv
  BY Initially, EveryStep, PTL DEF Spec

LEMMA Types == IInv => TypeOK
  <1> SUFFICES ASSUME IInv
               PROVE  TypeOK
    OBVIOUS
  <1>1. /\ TerminalInv /\ WatchInv /\ SessionInv /\ RequestInv /\ RepairInv
        /\ PromptInv /\ BudgetInv
    BY DEF IInv
  <1>2. /\ procs \in Seq([key : Key, session : Session, state : {"up", "dying", "gone"},
                          open : BOOLEAN, linked : BOOLEAN, signalled : BOOLEAN,
                          midKill : BOOLEAN])
        /\ Len(procs) <= MaxTerminals
        /\ ptyProcesses \in [Key -> DOMAIN procs \cup {None}]
        /\ agentToTerminal \in [Key -> Key \cup {NoKey}]
        /\ \A k \in Key : ptyProcesses[k] # None => procs[ptyProcesses[k]].key = k
    BY <1>1 DEF TerminalInv, Proc
  <1>3. /\ agentWatchers \in [Key -> DOMAIN procs \cup {None}]
        /\ agentReadyState \subseteq Key /\ activeAgentViewers \subseteq Key /\ killing \subseteq Key
    BY <1>1 DEF WatchInv
  <1>4. /\ minted \in 0..MaxSessions
        /\ sessionIds \in [Key -> 0..minted]
        /\ sessionHistory \in [Key -> SUBSET (1..minted)]
        /\ \A k \in Key : sessionIds[k] \notin sessionHistory[k]
    BY <1>1 DEF SessionInv
  <1>5. /\ inFlightStarts \in [Key -> Request \cup {None}]
        /\ recoveries \in [Key -> Request \cup {None}]
    BY <1>1 DEF RequestInv
  <1>6. req \in [Request -> [key : Key \cup {NoKey}, kind : Kind,
                            pc : {"none", "launching", "delivering", "coalesced", "started",
                                  "waiting", "joining", "answered"},
                            had : BOOLEAN, re : BOOLEAN, reused : BOOLEAN, ok : BOOLEAN,
                            session : 0..minted, proc : DOMAIN procs \cup {None},
                            with : Request \cup {None}]]
    <2>1. ASSUME NEW r \in Request
          PROVE  req[r] \in [key : Key \cup {NoKey}, kind : Kind,
                            pc : {"none", "launching", "delivering", "coalesced", "started",
                                  "waiting", "joining", "answered"},
                            had : BOOLEAN, re : BOOLEAN, reused : BOOLEAN, ok : BOOLEAN,
                            session : 0..minted, proc : DOMAIN procs \cup {None},
                            with : Request \cup {None}]
      <3>1. req[r] \in Req /\ req[r].proc \in DOMAIN procs \cup {None}
        BY <1>1, Requests DEF Underway
      <3>2. req[r].session \in 0..minted
        <4>1. req[r].session \in Nat /\ req[r].session <= minted /\ minted \in Nat
          BY <1>1, <3>1, Constants DEF SessionInv, Req
        <4> QED BY <4>1
      <3> QED BY <3>1, <3>2 DEF Req
    <2>2. req = [r \in Request |-> req[r]]
      BY <1>1 DEF RequestInv
    <2> QED BY <2>1, <2>2
  <1>7. prompts \in [Key -> Seq(Request)] /\ taken \in [Request -> Nat]
    BY <1>1 DEF PromptInv, Queued
  <1>8. operations \in 0..MaxOperations /\ killFailures \in 0..MaxKillFailures
    BY <1>1 DEF BudgetInv
  <1> QED BY <1>2, <1>3, <1>4, <1>5, <1>6, <1>7, <1>8 DEF TypeOK

(* No terminal is lost: a process that nobody tried to kill is registered  *)
(* at its key, and the events of a registered one are listened to, however *)
(* starts, kills, repairs and late exits interleave.                       *)
THEOREM TerminalsAreFound == Spec => []NoTerminalIsLost
  <1>1. IInv => NoTerminalIsLost
    BY Types DEF IInv, TerminalInv, WatchInv, NoTerminalIsLost
  <1> QED BY <1>1, Invariance, PTL

(* The offices that show a connected terminal have the session its TUI is  *)
(* on: a transfer, a restore or a reset never leaves one behind.           *)
THEOREM OfficesFollowTheirTerminal == Spec => []SessionsAgree
  <1>1. IInv => SessionsAgree
    BY DEF IInv, SessionInv
  <1> QED BY <1>1, Invariance, PTL

(* A prompt is handed out at most once, whoever comes to it first.         *)
THEOREM PromptsAreTakenOnce == Spec => []PromptOnce
  <1>1. IInv => PromptOnce
    BY DEF IInv, PromptInv, Queued, PromptOnce
  <1> QED BY <1>1, Invariance, PTL

-----------------------------------------------------------------------------
(* What a repair spares.                                                   *)

LEMMA ClosedByKill ==
  ASSUME TerminalInv, NEW q \in DOMAIN procs, NEW obeyed \in BOOLEAN, procs' = Killed(q, obeyed),
         NEW p \in DOMAIN procs, procs[p].open, ~procs'[p].open
  PROVE  p = q
  BY KilledProc

LEMMA DiscardCloses ==
  ASSUME TerminalInv, NEW s, NEW at, NEW q \in DOMAIN procs, Discard(s, at, q),
         NEW p \in DOMAIN procs, procs[p].open, ~procs'[p].open
  PROVE  p = q
  <1>1. PICK obeyed \in BOOLEAN : procs' = Killed(q, obeyed)
    BY DEF Discard
  <1> QED BY <1>1, ClosedByKill

(* Whom an answer to s changes, when nobody has joined s.                  *)
LEMMA OnlyAnswered ==
  ASSUME IInv, NEW s \in Request, ~req[s].re, req[s].pc \in {"started", "waiting"}, Answer({s}),
         NEW r \in Request, req'[r] # req[r]
  PROVE  r = s
  <1>1. RequestInv /\ Repair(r)
    BY DEF IInv, RepairInv
  <1>2. r = s \/ (req[r].pc = "joining" /\ req[r].with = s)
    BY <1>1, Answering
  <1> QED BY <1>1, <1>2 DEF Repair

LEMMA Spared ==
  ASSUME IInv, [Next]_vars, NEW r \in Request, NEW p \in DOMAIN procs,
         req'[r] # req[r], req[r].had, procs[p].open, ~procs'[p].open
  PROVE  ~procs[p].linked /\ ~Viewed(procs[p].key)
  <1>1. TerminalInv /\ RequestInv /\ RepairInv
    BY DEF IInv
  <1>2. procs' # procs /\ req' # req
    OBVIOUS
  <1>3. ASSUME NEW s \in Request, req[s].pc = "waiting"
        PROVE  req[s].proc \in DOMAIN procs /\ ~procs[req[s].proc].linked
    BY <1>1, <1>3, Requests DEF Underway, RepairInv, Repair
  <1>4. ASSUME NEW s \in Request, GoesOn(s)
        PROVE  FALSE
    <2>1. /\ ~req[s].re /\ req[s].pc = "started" /\ Answer({s})
          /\ req[s].kind = "launch"
      BY <1>2, <1>4 DEF GoesOn, Keep, terminalVars
    <2>2. r = s
      BY <2>1, OnlyAnswered
    <2> QED BY <1>1, <2>1, <2>2 DEF RepairInv, Repair
  <1>5. ASSUME NEW s \in Request, NEW q \in DOMAIN procs \cup {None}, RecoveryFails(s, q)
        PROVE  p = q /\ q # None /\ ~Viewed(procs[q].key)
    <2>1. q # None /\ ~Viewed(procs[q].key) /\ Discard(s, procs[q].key, q)
      BY <1>2, <1>5 DEF RecoveryFails, Keep, terminalVars
    <2> QED BY <1>1, <2>1, DiscardCloses
  <1>6. ASSUME NEW s \in Request, RecoveryGoesOn(s)
        PROVE  FALSE
    <2>1. PICK k : k = req[s].key
      OBVIOUS
    <2>2. PICK q : q = TerminalOf(k)
      OBVIOUS
    <2>3. /\ req[s].pc = "started" /\ req[s].re
          /\ RecoveryFails(s, q) /\ (~req[s].ok \/ q = None)
      BY <1>2, <1>6, <2>1, <2>2 DEF RecoveryGoesOn, Keep, terminalVars
    <2>4. k \in Key /\ NoKey \notin Key
      BY <1>1, <2>1, <2>3, Requests, Constants DEF Underway
    <2>5. q \in DOMAIN procs \cup {None}
      BY <1>1, <2>2, <2>4, UsedKey
    <2>6. q # None
      BY <1>5, <2>3, <2>5
    <2>7. agentToTerminal[k] = NoKey
      BY <1>1, <2>1, <2>3, <2>6 DEF RepairInv, Repair
    <2> QED BY <1>1, <2>2, <2>4, <2>6, <2>7, UsedKey
  <1>7. ASSUME NEW s \in Request, RecoveryWaitFails(s)
        PROVE  ~procs[p].linked /\ ~Viewed(procs[p].key)
    <2>1. req[s].pc = "waiting" /\ RecoveryFails(s, req[s].proc)
      BY <1>7 DEF RecoveryWaitFails
    <2>2. req[s].proc \in DOMAIN procs /\ ~procs[req[s].proc].linked
      BY <2>1, <1>3
    <2> QED BY <1>5, <2>1, <2>2
  <1>8. ASSUME NEW s \in Request, WaitFails(s)
        PROVE  ~procs[p].linked /\ ~Viewed(procs[p].key)
    <2>1. PICK q : q = req[s].proc
      OBVIOUS
    <2>2. req[s].pc = "waiting" /\ ~req[s].re
      BY <1>8 DEF WaitFails
    <2>3. q \in DOMAIN procs /\ ~procs[q].linked
      BY <2>1, <2>2, <1>3
    <2>4. \/ ~Viewed(procs[q].key) /\ procs' = Killed(q, TRUE)
          \/ ~Viewed(procs[q].key) /\ procs' = Killed(q, FALSE)
          \/ ~req[s].had /\ Discard(s, procs[q].key, q) /\ Answer({s})
      BY <1>2, <1>8, <2>1 DEF WaitFails, Evict, MayRecover, Keep, terminalVars
    <2>5. CASE ~Viewed(procs[q].key) /\ (procs' = Killed(q, TRUE) \/ procs' = Killed(q, FALSE))
      <3>1. p = q
        BY <1>1, <2>3, <2>5, ClosedByKill
      <3> QED BY <2>3, <2>5, <3>1
    <2>6. CASE ~req[s].had /\ Answer({s})
      <3>1. r = s
        BY <2>2, <2>6, OnlyAnswered
      <3> QED BY <2>6, <3>1
    <2> QED BY <2>4, <2>5, <2>6
  <1>9. ASSUME NEW s \in Request, Launched(s)
        PROVE  FALSE
    <2>1. PICK x : procs' = Append(procs, x)
      BY <1>9 DEF Launched
    <2>2. procs \in Seq(Proc) /\ DOMAIN procs = 1..Len(procs) /\ Len(procs) \in Nat
      BY <1>1, Procs DEF TerminalInv
    <2>3. procs'[p] = procs[p]
      BY <2>1, <2>2
    <2> QED BY <2>3
  <1>10. ASSUME NEW q \in DOMAIN procs, Registers(q)
         PROVE  FALSE
    <2>1. PICK s : procs' = [procs EXCEPT ![q].linked = TRUE, ![q].session = s,
                                          ![q].signalled = @ \/ StillThere(q)]
      BY <1>10 DEF Registers
    <2>2. procs[p] \in Proc /\ procs[q] \in Proc
      BY <1>1, Procs
    <2>3. procs = [i \in DOMAIN procs |-> procs[i]]
      BY <1>1, LenProperties DEF TerminalInv
    <2>4. procs'[p].open = procs[p].open
      BY <2>1, <2>2, <2>3 DEF Proc
    <2> QED BY <2>4
  <1>11. ASSUME NEW k \in Key, NEW kind \in Kind, Start(k, kind)
         PROVE  FALSE
    BY <1>2, <1>11 DEF Start, terminalVars
  <1>12. ASSUME NEW s \in Request, StartFails(s) \/ Delivered(s)
         PROVE  FALSE
    BY <1>2, <1>12 DEF StartFails, Delivered, terminalVars
  <1>13. ASSUME NEW k \in Key, \/ Kill(k) \/ KillSaved(k) \/ Reset(k) \/ Restore(k)
                               \/ Attach(k) \/ Detach(k)
         PROVE  FALSE
    BY <1>2, <1>13 DEF Kill, KillSaved, Reset, Restore, Attach, Detach, requestVars
  <1>14. ASSUME NEW from \in Key, NEW to \in Key, Transfer(from, to)
         PROVE  FALSE
    BY <1>2, <1>14 DEF Transfer, requestVars
  <1>15. ASSUME NEW q \in DOMAIN procs, LosesLink(q) \/ Exits(q)
         PROVE  FALSE
    BY <1>2, <1>15 DEF LosesLink, Exits, requestVars
  <1>16. CASE UNCHANGED vars
    BY <1>2, <1>16 DEF vars, terminalVars
  <1> QED BY <1>4, <1>6, <1>7, <1>8, <1>9, <1>10, <1>11, <1>12, <1>13, <1>14, <1>15, <1>16 DEF Next

(* A start that finds a terminal and times out on it closes none that has  *)
(* connected meanwhile, or that somebody looks at: neither in its place    *)
(* nor when the replacement fails as well.                                 *)
THEOREM UsedTerminalsAreSpared == Spec => RecoverySparesTheUsed
  <1>1. IInv /\ [Next]_vars =>
           [\A r \in Request : \A p \in DOMAIN procs :
              req'[r] # req[r] /\ req[r].had /\ procs[p].open /\ ~procs'[p].open
                 => ~procs[p].linked /\ ~Viewed(procs[p].key)]_vars
    BY Spared
  <1> QED BY <1>1, Invariance, PTL DEF Spec, RecoverySparesTheUsed
=============================================================================
