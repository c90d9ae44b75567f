----------------------------- MODULE DataBackup -----------------------------
(* The snapshots of the .data directory: taken when the application opens  *)
(* and closes, pruned by age, and put back by a command that stages the    *)
(* snapshot and swaps it in.  Copies can fail half way, and the command    *)
(* can end between any two steps.                                          *)
EXTENDS Naturals, FiniteSets

CONSTANTS
    MaxVersions, \* contents the application has written to .data
    MaxBackups,  \* snapshots kept at a time
    MaxFailures  \* file operations that fail, and commands that are killed

VARIABLES
    data,     \* .data: its content, or None when it is not there
    version,  \* the last content written
    backups,  \* .data-backups: snapshots with content, reason and age
    staging, previous,  \* the command's .data-restore-tmp-*, .data-restore-old-*
    orphans,  \* what commands have left behind of the latter
    restore,  \* the restore command: its step, source and safety backup
    failures

backupVars == <<data, version, backups, staging, previous, orphans, restore, failures>>

None == [of |-> 0, whole |-> TRUE]
Whole(v) == [of |-> v, whole |-> TRUE]
Part(c) == [c EXCEPT !.whole = FALSE]
NoRestore == [step |-> "idle", source |-> None, safety |-> None, replaced |-> None]
Fails == failures < MaxFailures /\ failures' = failures + 1

Init == /\ data = None /\ version = 0 /\ backups = {}
        /\ staging = None /\ previous = None /\ orphans = {}
        /\ restore = NoRestore /\ failures = 0

(* The application writes its data.                                        *)
Write ==
    /\ version < MaxVersions
    /\ version' = version + 1 /\ data' = Whole(version + 1)
    /\ UNCHANGED <<backups, staging, previous, orphans, restore, failures>>

(* backupDataDir: every snapshot has a name of its own; a copy that fails  *)
(* leaves what it has copied under that name.                              *)
Snapshot(content, reason) == [content |-> content, reason |-> reason, old |-> FALSE]
BackupDataDir(reason) ==
    \/ backups' = backups \cup {Snapshot(data, reason)} /\ UNCHANGED failures
    \/ backups' = backups \cup {Snapshot(Part(data), reason)} /\ Fails
    \/ UNCHANGED backups /\ Fails
Pruned(kept) == {b \in kept : ~b.old}
RunLifecycleBackup ==
    /\ data # None /\ Cardinality(backups) < MaxBackups
    /\ \/ backups' = Pruned(backups \cup {Snapshot(data, "lifecycle")}) /\ UNCHANGED failures
       \/ backups' = Pruned(backups \cup {Snapshot(Part(data), "lifecycle")}) /\ Fails
       \/ backups' = Pruned(backups) /\ Fails
    /\ UNCHANGED <<data, version, staging, previous, orphans, restore>>
(* Thirty days pass.                                                       *)
Ages == /\ backups' = {[b EXCEPT !.old = TRUE] : b \in backups} /\ backups' # backups
        /\ UNCHANGED <<data, version, staging, previous, orphans, restore, failures>>

-----------------------------------------------------------------------------
(* restoreDataBackup, step by step.                                        *)

Step(s) == restore' = [restore EXCEPT !.step = s]
RestoreDataBackup(b) ==
    /\ restore.step = "idle" /\ b \in backups /\ Cardinality(backups) < MaxBackups
    /\ IF data = None THEN UNCHANGED <<backups, failures>> ELSE BackupDataDir("prerestore")
    /\ restore' = [step |-> "stage", source |-> b.content, replaced |-> data,
                   safety |-> IF Snapshot(data, "prerestore") \in backups' /\ UNCHANGED failures
                                THEN data ELSE None]
    /\ UNCHANGED <<data, version, staging, previous, orphans>>
Stage == /\ restore.step = "stage"
         /\ \/ staging' = restore.source /\ Step("setAside") /\ UNCHANGED failures
            \/ staging' = Part(restore.source) /\ Step("rollBack") /\ Fails
         /\ UNCHANGED <<data, version, backups, previous, orphans>>
(* A bug: .data is removed, not renamed.                                   *)
Removed == previous
Kept == IF data = None THEN previous ELSE data
SetAside == /\ restore.step = "setAside"
            /\ \/ /\ previous' = Kept
                  /\ data' = None /\ Step("swapIn") /\ UNCHANGED failures
               \/ Step("rollBack") /\ Fails /\ UNCHANGED <<data, previous>>
            /\ UNCHANGED <<version, backups, staging, orphans>>
SwapIn == /\ restore.step = "swapIn"
          /\ \/ data' = staging /\ staging' = None /\ Step("cleanUp") /\ UNCHANGED failures
             \/ Step("rollBack") /\ Fails /\ UNCHANGED <<data, staging>>
          /\ UNCHANGED <<version, backups, previous, orphans>>
CleanUp == /\ restore.step = "cleanUp"
           /\ previous' = None
           /\ \/ UNCHANGED <<orphans, failures>>
              \/ orphans' = orphans \cup {previous} /\ Fails
           /\ restore' = NoRestore
           /\ UNCHANGED <<data, version, backups, staging>>
RollBack == /\ restore.step = "rollBack"
            /\ previous' = None
            /\ \/ /\ data' = IF data = None THEN previous ELSE data
                  /\ UNCHANGED <<orphans, failures>>
               \/ /\ data = None /\ orphans' = orphans \cup {previous}
                  /\ UNCHANGED data /\ Fails
            /\ staging' = None /\ restore' = NoRestore
            /\ UNCHANGED <<version, backups>>
Killed == /\ restore.step # "idle" /\ restore' = NoRestore /\ Fails
          /\ orphans' = orphans \cup {previous} /\ previous' = None
          /\ UNCHANGED <<data, version, backups, staging>>

Restores == \/ \E b \in backups : RestoreDataBackup(b)
            \/ Stage \/ SetAside \/ SwapIn \/ CleanUp \/ RollBack \/ Killed
Next == \/ restore.step = "idle" /\ (Write \/ RunLifecycleBackup)
        \/ Ages \/ Restores
Spec == Init /\ [][Next]_backupVars

-----------------------------------------------------------------------------
(* The variables have their types.                                         *)
Contents == [of : 0..MaxVersions, whole : BOOLEAN]
TypeOK == /\ {data, staging, previous, restore.source, restore.safety} \cup orphans \subseteq Contents
          /\ \A b \in backups : b.content \in Contents \ {None}
          /\ Cardinality(backups) <= MaxBackups
          /\ failures \in 0..MaxFailures

(* A restore never leaves the application without its data: what it takes  *)
(* out of .data stays beside it until the snapshot has been put in, and    *)
(* afterwards in the safety backup, when there is one, for thirty days.    *)
DataIsNeverLost ==
    /\ version > 0 /\ data = None => \E c \in {previous} \cup orphans : c # None
    /\ restore.step \in {"stage", "setAside", "swapIn", "cleanUp", "rollBack"} =>
         restore.replaced \in {None, data, previous}
                              \cup {b.content : b \in backups}
ReplacedDataIsKept ==
    [][\A c \in {data, previous} : c # None /\ c \notin {data', previous'} /\ restore.step # "idle"
         => restore.safety = None \/ \E b \in backups' : b.content = restore.safety]_backupVars
=============================================================================
