--------------------------- MODULE NativeBridgeMC ---------------------------
(* Model checking of NativeBridge.  A launch is checked for one concern at *)
(* a time: the scope, chosen in the initial state, switches off what its   *)
(* environment does not do.                                                *)
EXTENDS NativeBridge, TLC

CONSTANTS
    Scope,      \* the scopes of the run
    MaxBorn     \* bound: instances forked, of the MaxForks there could be

(* "command": one command and no session events; "queue": several, and no  *)
(* link fails; "events": those of one instance, and no command, with a     *)
(* second instance or a link that fails; "links": neither, nobody          *)
(* subscribes to the session, 1 is the oldest instance, and what fails is  *)
(* a link of the first two.                                                *)
VARIABLE scope

(* Commands are interchangeable. *)
CmdSymmetry == Permutations(Cmd)

(* Without session events nothing reads or depends on `subscribed'. *)
ScopeView ==
    <<scope, closed, credential, registration, generation, nextGeneration, ready, waiting,
      scope = "events" /\ subscribed, linkVars, extVars, procVars, commandVars, delivered>>

InScope ==
    /\ scope # "events" => emitted' = emitted
    /\ scope = "links" =>
         /\ subscribed' = subscribed
         /\ 3 \in Instance => (phase'[3] # "unborn" => drops' = 0)
         /\ phase'[1] # "unborn" \/ \A i \in Instance : phase'[i] = "unborn"
    /\ scope = "command" => Cardinality({r \in Cmd : command'[r] # "idle"}) <= 1
    /\ scope = "queue" => drops' = 0
    /\ scope = "events" =>
         /\ command' = command
         /\ Cardinality({i \in Instance : phase'[i] # "unborn"}) = 2 => drops' = 0
         /\ \E i \in Instance : \A j \in Instance \ {i} : emitted'[j] = 0
    /\ Cardinality({i \in Instance : phase'[i] # "unborn"}) <= MaxBorn

Scoped(A) == A /\ InScope /\ UNCHANGED scope

ScopedNext ==
    \/ \E i \in Instance :
          \/ Scoped(Fork(i)) \/ Scoped(Join(i)) \/ Scoped(ConnectRefused(i))
          \/ Scoped(StandDown(i)) \/ Scoped(InstanceDies(i)) \/ Scoped(ExtRegistered(i))
          \/ Scoped(ExtSeesClose(i)) \/ Scoped(EmitEvent(i)) \/ Scoped(ExtRequest(i))
          \/ \E c \in Conn : Scoped(Connect(i, c))
    \/ \E c \in Conn :
          \/ Scoped(RegisterRefused(c)) \/ Scoped(Register(c)) \/ Scoped(MarkReady(c))
          \/ Scoped(BrokerEvent(c)) \/ Scoped(BrokerResponse(c))
          \/ Scoped(BrokerRejectsFrame(c)) \/ Scoped(SupersededTimeout(c))
          \/ Scoped(BrokerSeesClose(c)) \/ Scoped(LinkFails(c))
          \/ \E r \in Cmd, ok \in BOOLEAN : Scoped(ExtResponds(r, c, ok))
    \/ \E r \in Cmd :
          Scoped(Issue(r)) \/ Scoped(ConnectTimeout(r)) \/ Scoped(RequestTimeout(r))
    \/ Scoped(Subscribe) \/ Scoped(Release) \/ Scoped(CloseBroker)

ScopedInit == Init /\ scope \in Scope

ScopedSpec == ScopedInit /\ [][ScopedNext]_<<vars, scope>>

(* Forks are not fair: a bound on them takes no promised step away.        *)
ScopedFairSpec == ScopedSpec /\ Fairness

=============================================================================
