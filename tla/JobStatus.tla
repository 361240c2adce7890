------------------------------ MODULE JobStatus ------------------------------
(* The statuses of internal/job/job.go, shared by the fleet's queue and by  *)
(* the standalone engine: a job is rolled up from one row per repository it *)
(* writes to.                                                               *)
EXTENDS FiniteSets

Status == {"pending", "running", "success", "partial_success", "failed", "cancelled"}

TargetStatus == {"pending", "running", "success", "failed", "skipped"}

(* One row of backup_job_targets: its status and whether the snapshot was  *)
(* made while some source files could not be read.                          *)
TargetResult == [status: TargetStatus, incomplete: BOOLEAN]

FreshTarget == [status |-> "pending", incomplete |-> FALSE]

Succeeded(t) == t.status = "success" /\ ~t.incomplete
Failed(t)    == t.status = "failed" \/ (t.status = "success" /\ t.incomplete)
Unfinished(t) == t.status \in {"pending", "running"}

(* Mutant: one copy makes a success                                         *)
RollupAnyCopy(targets) ==
    IF \E r \in DOMAIN targets : Unfinished(targets[r])
    THEN "running"
    ELSE IF \E r \in DOMAIN targets : Succeeded(targets[r]) THEN "success" ELSE "failed"

(* Rollup: a job with a copy and a failure is neither a success nor a       *)
(* failure, and one with no target at all is a failure.                     *)
Rollup(targets) ==
    IF \E r \in DOMAIN targets : Unfinished(targets[r])
    THEN "running"
    ELSE IF \E r \in DOMAIN targets : Succeeded(targets[r])
         THEN IF \E r \in DOMAIN targets : Failed(targets[r])
              THEN "partial_success"
              ELSE "success"
         ELSE "failed"

Terminal(s) == s \in {"success", "partial_success", "failed", "cancelled"}
==============================================================================
