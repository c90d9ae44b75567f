---------------------------- MODULE PtyRegistry ----------------------------
(***************************************************************************)
(* The file .data/pty-pids.json: a record for every pseudo-terminal that a *)
(* server spawned, by which the processes that outlive their server are    *)
(* found and killed later.  Each operation reads the whole file and writes *)
(* it back without a pause; its callers run one at a time.                 *)
(*                                                                         *)
(* An incarnation is one process that had a pid; records hold the time at  *)
(* which theirs was spawned, abstracted to the incarnation.  The two       *)
(* seconds of grace and a start time that cannot be read are left out.     *)
(***************************************************************************)
LOCAL INSTANCE FiniteSets

(* Records are [pid, of], a pid and the incarnation that was spawned.      *)
RegisterPty(registry, pid, of) ==
    {r \in registry : r.pid # pid} \cup {[pid |-> pid, of |-> of]}

UnregisterPty(registry, pid) == {r \in registry : r.pid # pid}

(* A bug: whatever has the pid now is killed.                              *)
AnyProcessMatches(os, record) == TRUE

(* The process that has the pid now is the one the record is about.        *)
ProcessIdentityMatches(os, record) == os[record.pid] = record.of

(* The records whose process reapRegisteredPtys tries to kill.             *)
Reapable(registry, os, dead) ==
    {r \in registry : os[r.pid] # dead /\ ProcessIdentityMatches(os, r)}

(* The file and the processes after a reap that could not kill "failed".   *)
Reaped(registry, os, dead, failed) ==
    [registry |-> {r \in Reapable(registry, os, dead) : r.pid \in failed},
     os |-> [pid \in DOMAIN os |->
                IF \E r \in Reapable(registry, os, dead) : r.pid = pid /\ pid \notin failed
                THEN dead ELSE os[pid]]]
=============================================================================
