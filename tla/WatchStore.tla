----------------------------- MODULE WatchStore -----------------------------
(***************************************************************************)
(* The tables the watcher and the folder requests share: watch_folders,    *)
(* and of jobs and job_reports only which files they name.  The statements *)
(* are those of internal/db/queries.go, each atomic.  Nothing in the       *)
(* schema keeps a file from having several rows in jobs.                   *)
(***************************************************************************)
EXTENDS Naturals

CONSTANTS
    Files,       \* media files the watcher does not ignore by their name
    Roots,       \* paths a watch folder may have
    RootOf,      \* the root each file lies under
    MaxRows,     \* bound: rows of one file, enough for all that insert at once
    MaxFaults    \* bound: statements that fail, and ends of the process

ASSUME StoreAssumption ==
    /\ RootOf \in [Files -> Roots]
    /\ MaxRows \in Nat
    /\ MaxFaults \in Nat

VARIABLES
    folder,    \* the row of each path: "none", or its column enabled
    rows,      \* how many rows of jobs name the file
    reported,  \* files that job_reports names
    faults

storeVars == <<folder, rows, reported, faults>>

Under(r) == {f \in Files : RootOf[f] = r}
Enabled == {r \in Roots : folder[r] = "on"}

StoreTypeOK ==
    /\ folder \in [Roots -> {"none", "on", "off"}]
    /\ rows \in [Files -> 0 .. MaxRows]
    /\ reported \in SUBSET Files
    /\ faults \in 0 .. MaxFaults

DbFails ==
    /\ faults < MaxFaults
    /\ faults' = faults + 1
    /\ UNCHANGED <<folder, rows, reported>>

-----------------------------------------------------------------------------
(* Queries. *)
IsFileQueued(f) == rows[f] > 0

(* Mutant: the query forgets the table jobs. *)
IsFileProcessed(f) == f \in reported

IsFileAlreadyProcessedOrQueued(f) == rows[f] > 0 \/ f \in reported

QueuedUnder(r) == {f \in Under(r) : IsFileQueued(f)}
KnownUnder(r) == {f \in Under(r) : IsFileAlreadyProcessedOrQueued(f)}

(* AddWatchFolder, SetWatchFolderEnabled, DeleteWatchFolder. *)
SetFolder(r, state) ==
    /\ folder' = [folder EXCEPT ![r] = state]
    /\ UNCHANGED <<rows, reported, faults>>

(* UpdateWatchFolder with another path keeps the column enabled. *)
RenameFolder(r, to) ==
    /\ folder' = [folder EXCEPT ![r] = "none", ![to] = folder[r]]
    /\ UNCHANGED <<rows, reported, faults>>

AddRow(f) ==
    /\ rows[f] < MaxRows
    /\ rows' = [rows EXCEPT ![f] = @ + 1]
    /\ UNCHANGED <<folder, reported, faults>>

(* The report of the failed run a user queues again may be the only one.   *)
AddRequeuedRow(f) ==
    /\ rows[f] < MaxRows
    /\ rows' = [rows EXCEPT ![f] = @ + 1]
    /\ reported' \in {reported, reported \ {f}}
    /\ UNCHANGED <<folder, faults>>

AddSkipReport(f) ==
    /\ reported' = reported \cup {f}
    /\ UNCHANGED <<folder, rows, faults>>

DeleteJobsUnder(r) ==
    /\ rows' = [f \in Files |-> IF RootOf[f] = r THEN 0 ELSE rows[f]]
    /\ UNCHANGED <<folder, reported, faults>>

DeleteReportsUnder(r) ==
    /\ reported' = reported \ Under(r)
    /\ UNCHANGED <<folder, rows, faults>>

(* A run of the encode queue removes its row, and leaves a report unless   *)
(* it was cancelled (Settle to DeleteOwnJob of EncodeQueue).               *)
FinishRow(f, leavesReport) ==
    /\ rows[f] > 0
    /\ rows' = [rows EXCEPT ![f] = @ - 1]
    /\ reported' = IF leavesReport THEN reported \cup {f} ELSE reported
    /\ UNCHANGED <<folder, faults>>
=============================================================================
