--------------------------- MODULE CommandChannel ---------------------------
(***************************************************************************)
(* What the native bridge promises to the callers of submitPrompt,         *)
(* submitAnswer, submitPlanDecision, submitElicitation and runControl:     *)
(* every call settles at most once, the extension starts its command at    *)
(* most once, and a call succeeds only if its command was started.  It     *)
(* does not promise that a failed call was not, or will not be, executed.  *)
(***************************************************************************)
EXTENDS Naturals

CONSTANT Call

VARIABLES outcome,  \* what each caller has been told
          runs      \* how often each command was started

channel == <<outcome, runs>>

Init ==
    /\ outcome = [r \in Call |-> "none"]
    /\ runs = [r \in Call |-> 0]

Submit(r) ==
    /\ outcome[r] = "none"
    /\ outcome' = [outcome EXCEPT ![r] = "pending"]
    /\ UNCHANGED runs

(* The caller may have been told of a failure before the command starts. *)
Start(r) ==
    /\ outcome[r] \in {"pending", "failed"}
    /\ runs[r] = 0
    /\ runs' = [runs EXCEPT ![r] = 1]
    /\ UNCHANGED outcome

Succeed(r) ==
    /\ outcome[r] = "pending"
    /\ runs[r] = 1
    /\ outcome' = [outcome EXCEPT ![r] = "ok"]
    /\ UNCHANGED runs

(* Refused at once, or after a wait: several calls may fail together. *)
Fail(rs) ==
    /\ \A r \in rs : outcome[r] \in {"none", "pending"}
    /\ outcome' = [r \in Call |-> IF r \in rs THEN "failed" ELSE outcome[r]]
    /\ UNCHANGED runs

Next ==
    \/ \E r \in Call : Submit(r) \/ Start(r) \/ Succeed(r)
    \/ \E rs \in SUBSET Call : Fail(rs)

Spec == Init /\ [][Next]_channel

=============================================================================
