------------------------------ MODULE JobStore ------------------------------
(***************************************************************************)
(* The persistent side of the encode queue: the tables jobs and            *)
(* job_reports and the app_config row of the pause switch, with the        *)
(* statements of internal/db that change them.  Each statement is a single *)
(* SQL statement outside any transaction, so each is one atomic operator;  *)
(* what happens between two of them belongs to the callers.                *)
(*                                                                         *)
(* The id of a job is AUTOINCREMENT and is never used twice: a job is      *)
(* "new" until it is inserted and "gone" for ever once its row is deleted. *)
(* The file, the settings and the timestamps of a row are abstracted away. *)
(***************************************************************************)
EXTENDS Naturals, FiniteSets

CONSTANTS
    Jobs,             \* ids the jobs table may hand out
    RequeuePriority,  \* priority of a re-queued or downloaded file (5 in the code)
    MaxPrio,          \* bound: Bump does not raise a priority beyond it
    MaxDbErrors       \* bound: how many statements may fail in one behaviour

ASSUME StoreAssumption ==
    /\ MaxPrio \in Nat
    /\ MaxDbErrors \in Nat
    /\ RequeuePriority \in 0 .. MaxPrio

VARIABLES
    row,        \* row[j]: status column of job j, or "new" / "gone"
    prio,       \* prio[j]: priority column
    reports,    \* reports[j]: the verdicts job_reports holds for job j
    pausedRow,  \* app_config["queue_paused"] = "1"
    dbErrs      \* statements that have failed so far

storeVars == <<row, prio, reports, pausedRow, dbErrs>>

Statuses == {"pending", "processing", "failed"}

Verdicts == {"success", "skipped", "failed"}

StoreTypeOK ==
    /\ row \in [Jobs -> Statuses \cup {"new", "gone"}]
    /\ prio \in [Jobs -> 0 .. MaxPrio]
    /\ reports \in [Jobs -> SUBSET Verdicts]
    /\ pausedRow \in BOOLEAN
    /\ dbErrs \in 0 .. MaxDbErrors

StoreInit ==
    /\ row = [j \in Jobs |-> "new"]
    /\ prio = [j \in Jobs |-> 0]
    /\ reports = [j \in Jobs |-> {}]
    /\ pausedRow = FALSE
    /\ dbErrs = 0

-----------------------------------------------------------------------------
Pending == {j \in Jobs : row[j] = "pending"}

(* The rows GetPendingJobs can return first among the pending ones: highest *)
(* priority; rows of one priority come in any order (created_at has a      *)
(* resolution of one second).                                              *)
FirstPending == {j \in Pending : \A k \in Pending : prio[k] <= prio[j]}

(* A statement fails and changes nothing. *)
DbFails ==
    /\ dbErrs < MaxDbErrors
    /\ dbErrs' = dbErrs + 1
    /\ UNCHANGED <<row, prio, reports, pausedRow>>

SetStatus(j, s) ==
    /\ row' = [row EXCEPT ![j] = s]
    /\ UNCHANGED <<prio, reports, pausedRow, dbErrs>>

InsertJob(j, p) ==
    /\ row[j] = "new"
    /\ row' = [row EXCEPT ![j] = "pending"]
    /\ prio' = [prio EXCEPT ![j] = p]
    /\ UNCHANGED <<reports, pausedRow, dbErrs>>

(* Mutant: the claim without its AND status = 'pending'. *)
ClaimJobAnyStatus(j) ==
    /\ row[j] \in Statuses
    /\ SetStatus(j, "processing")

(* UPDATE ... WHERE id = ? AND status = 'pending'; one row was affected. *)
ClaimJob(j) ==
    /\ row[j] = "pending"
    /\ SetStatus(j, "processing")

(* Mutant: a status the column does not know. *)
UpdateJobStatusError(j) ==
    SetStatus(j, IF row[j] \in Statuses THEN "error" ELSE row[j])

(* UPDATE ... SET status = 'failed' WHERE id = ?: no effect on a deleted row. *)
UpdateJobStatusFailed(j) ==
    SetStatus(j, IF row[j] \in Statuses THEN "failed" ELSE row[j])

BumpJobPriority(j) ==
    /\ row[j] \in Statuses
    /\ prio[j] < MaxPrio
    /\ prio' = [prio EXCEPT ![j] = @ + 1]
    /\ UNCHANGED <<row, reports, pausedRow, dbErrs>>

DeleteJobs(S) ==
    /\ row' = [j \in Jobs |-> IF j \in S /\ row[j] \in Statuses
                                 THEN "gone" ELSE row[j]]
    /\ UNCHANGED <<prio, reports, pausedRow, dbErrs>>

(* Mutant: rows of the previous life stay as they are. *)
MarkNothing == UNCHANGED <<row, prio, reports, pausedRow, dbErrs>>

(* Mutant: what a dead process was running is queued once more. *)
MarkProcessingAsPending ==
    /\ row' = [j \in Jobs |-> IF row[j] = "processing" THEN "pending" ELSE row[j]]
    /\ UNCHANGED <<prio, reports, pausedRow, dbErrs>>

MarkProcessingAsFailed ==
    /\ row' = [j \in Jobs |-> IF row[j] = "processing" THEN "failed" ELSE row[j]]
    /\ UNCHANGED <<prio, reports, pausedRow, dbErrs>>

AddJobReport(j, verdict) ==
    /\ reports' = [reports EXCEPT ![j] = @ \cup {verdict}]
    /\ UNCHANGED <<row, prio, pausedRow, dbErrs>>

SetPausedRow(b) ==
    /\ pausedRow' = b
    /\ UNCHANGED <<row, prio, reports, dbErrs>>
=============================================================================
