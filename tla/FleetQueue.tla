----------------------------- MODULE FleetQueue ------------------------------
(* The controller's work queue and the agents that drain it.                *)
(*                                                                          *)
(* The rows of backup_jobs and restore_jobs have the same life: created     *)
(* pending, claimed under a fresh token and a lease, renewed by heartbeats, *)
(* taken back when the lease runs out, closed by a report that carries the  *)
(* token.  Both are members of Work here.  A server has one agent, which    *)
(* polls, does one thing at a time and reports it; what it is doing is      *)
(* agent[s].  Requests and responses can be lost, a report can arrive long  *)
(* after it was sent, and an agent can die at any point.                    *)
EXTENDS JobStatus, Naturals

CONSTANTS
    Jobs,             \* rows of backup_jobs that may be created
    Restores,         \* rows of restore_jobs that may be created
    Servers,
    Repos,
    Accounts,
    Policies,
    Tokens,           \* claim tokens
    NoToken, NoWork,
    AccountOf,        \* [Work -> Accounts]
    PolicyOf,         \* [Jobs -> Policies]
    RepositoriesOf,   \* [Policies -> SUBSET Repos], policy_repositories
    ServerOf,         \* [Accounts -> Servers]
    Applies,          \* restores that write into the live account
    MaxConcurrency,   \* [Servers -> Nat], servers.max_concurrency; 0 is no limit
    MaxFaults,        \* bound on lost messages, crashes and lapsed heartbeats
    SlowWork          \* whether an assignment may outlast the report deadline

Work == Jobs \cup Restores

ASSUME WorkAssumption ==
    /\ Jobs \cap Restores = {}
    /\ NoWork \notin Work
    /\ NoToken \notin Tokens
    /\ Applies \subseteq Restores
    /\ IsFiniteSet(Jobs)

ASSUME TablesAssumption ==
    /\ AccountOf \in [Work -> Accounts]
    /\ PolicyOf \in [Jobs -> Policies]
    /\ RepositoriesOf \in [Policies -> SUBSET Repos]
    /\ ServerOf \in [Accounts -> Servers]
    /\ MaxConcurrency \in [Servers -> Nat]
    /\ MaxFaults \in Nat
    /\ SlowWork \in BOOLEAN

VARIABLES
    status,      \* [Work -> Status \cup {"absent"}]
    claimToken,  \* [Work -> Tokens \cup {NoToken}]
    lease,       \* [Work -> {"none", "live", "expired"}], lease_expires_at against now
    createdAt,   \* [Work -> Nat], the order of created_at
    started,     \* [Work -> BOOLEAN], started_at is not null
    targets,     \* [Jobs -> [repositories of the policy -> TargetResult]]
    clock,       \* the next created_at
    agent,       \* [Servers -> what its agent is doing]
    reports,     \* reports on their way to the controller
    copies,      \* <<job, repository>> pairs a complete snapshot was written for
    faults       \* how many of MaxFaults have happened

rows == <<status, claimToken, lease, createdAt, started, targets, clock>>
vars == <<rows, agent, reports, copies, faults>>

RepositoriesFor(j) == RepositoriesOf[PolicyOf[j]]

IsBackup(w) == w \in Jobs
IsRestore(w) == w \in Restores

-----------------------------------------------------------------------------
(* What an agent is doing, and what it says about it.                       *)

Idle == [work |-> NoWork, token |-> NoToken, phase |-> "idle",
         todo |-> {}, good |-> {}, bad |-> {}, late |-> FALSE]

Agents == [work: Work \cup {NoWork}, token: Tokens \cup {NoToken},
           phase: {"idle", "working", "cancelled"},
           todo: SUBSET Repos, good: SUBSET Repos, bad: SUBSET Repos,
           late: BOOLEAN]

(* protocol.JobReport and protocol.RestoreReport.  failed is the staging    *)
(* error of a backup, or the failure of a restore.                          *)
Reports == [from: Servers, work: Work, token: Tokens, failed: BOOLEAN,
            good: SUBSET Repos, bad: SUBSET Repos]

Busy(s) == agent[s].phase # "idle"

TokensInUse == {claimToken[w] : w \in Work} \cup {agent[s].token : s \in Servers}
                 \cup {m.token : m \in reports}

(* gen_random_uuid never hands out a token anybody still holds.             *)
FreshTokens == Tokens \ TokensInUse

-----------------------------------------------------------------------------
(* Queueing.                                                                *)

Open(w) == status[w] \in {"pending", "running"}

(* CreateJob refuses a second open job of one account under one policy, and *)
(* a policy with no repositories.                                           *)
CreateJob(j) ==
    /\ status[j] = "absent"
    /\ ~ \E k \in Jobs : /\ AccountOf[k] = AccountOf[j]
                         /\ PolicyOf[k] = PolicyOf[j]
                         /\ Open(k)
    /\ RepositoriesFor(j) # {}
    /\ status' = [status EXCEPT ![j] = "pending"]
    /\ createdAt' = [createdAt EXCEPT ![j] = clock]
    /\ targets' = [targets EXCEPT ![j] = [r \in RepositoriesFor(j) |-> FreshTarget]]
    /\ clock' = clock + 1
    /\ UNCHANGED <<claimToken, lease, started, agent, reports, copies, faults>>

CreateRestore(r) ==
    /\ status[r] = "absent"
    /\ status' = [status EXCEPT ![r] = "pending"]
    /\ createdAt' = [createdAt EXCEPT ![r] = clock]
    /\ clock' = clock + 1
    /\ UNCHANGED <<claimToken, lease, started, targets, agent, reports, copies,
                   faults>>

-----------------------------------------------------------------------------
(* Claiming.                                                                *)

On(s) == {w \in Work : ServerOf[AccountOf[w]] = s}

RunningBackup(a)  == \E j \in Jobs : AccountOf[j] = a /\ status[j] = "running"
RunningRestore(a) == \E r \in Restores : AccountOf[r] = a /\ status[r] = "running"

Oldest(S) == {w \in S : \A v \in S : createdAt[w] <= createdAt[v]}

ClaimableRestores(s) ==
    {r \in Restores \cap On(s) : /\ status[r] = "pending"
                                 /\ ~ RunningBackup(AccountOf[r])
                                 /\ ~ RunningRestore(AccountOf[r])}

RunningOnServer(s) == {j \in Jobs \cap On(s) : status[j] = "running"}

AtLimit(s) ==
    /\ MaxConcurrency[s] > 0
    /\ Cardinality(RunningOnServer(s)) >= MaxConcurrency[s]

ClaimableJobs(s) ==
    IF AtLimit(s) THEN {}
    ELSE {j \in Jobs \cap On(s) : /\ status[j] = "pending"
                                  /\ ~ RunningBackup(AccountOf[j])}

(* claimTargets: the rows still worth writing.                              *)
Outstanding(j) == {r \in DOMAIN targets[j] : targets[j][r].status \in {"pending", "failed"}}

Lease(w, t) ==
    /\ status' = [status EXCEPT ![w] = "running"]
    /\ claimToken' = [claimToken EXCEPT ![w] = t]
    /\ lease' = [lease EXCEPT ![w] = "live"]
    /\ started' = [started EXCEPT ![w] = TRUE]
    /\ UNCHANGED <<createdAt, targets, clock>>

ClaimNextRestore(s, t, r) ==
    /\ r \in Oldest(ClaimableRestores(s))
    /\ Lease(r, t)

(* A claimed job with nothing outstanding fails the transaction, so the     *)
(* claim does not happen and neither does any behind it.                    *)
ClaimNextJob(s, t, j) ==
    /\ j \in Oldest(ClaimableJobs(s))
    /\ Outstanding(j) # {}
    /\ Lease(j, t)

(* Restores are offered before backups.                                     *)
NextWork(s, t, w) ==
    \/ ClaimNextRestore(s, t, w)
    \/ /\ ClaimableRestores(s) = {}
       /\ ClaimNextJob(s, t, w)

Assigned(w, t) ==
    [work |-> w, token |-> t, phase |-> "working",
     todo |-> IF IsBackup(w) THEN Outstanding(w) ELSE {},
     good |-> {}, bad |-> {}, late |-> FALSE]

(* The agent's poll is answered.                                            *)
Poll(s) ==
    /\ ~ Busy(s)
    /\ \E t \in FreshTokens, w \in Work :
         /\ NextWork(s, t, w)
         /\ agent' = [agent EXCEPT ![s] = Assigned(w, t)]
    /\ UNCHANGED <<reports, copies, faults>>

(* The claim is committed and nobody hears of it: the response is lost, the *)
(* request belonged to a process that has died since, or buildTarget failed *)
(* after the claim.  The row is leased to no one until the lease runs out.  *)
PollAnswerLost(s) ==
    /\ faults < MaxFaults
    /\ \E t \in FreshTokens, w \in Work : NextWork(s, t, w)
    /\ faults' = faults + 1
    /\ UNCHANGED <<agent, reports, copies>>

-----------------------------------------------------------------------------
(* The agent at work.                                                       *)

Uploaded(a, r, ok) ==
    [a EXCEPT !.todo = a.todo \ {r},
              !.good = IF ok THEN a.good \cup {r} ELSE a.good,
              !.bad  = IF ok THEN a.bad ELSE a.bad \cup {r}]

Overdue(a) == [a EXCEPT !.late = TRUE]

Cancelled(a) == [a EXCEPT !.phase = "cancelled"]

(* One upload of the staged payload.  Cancelled work cannot succeed.  A     *)
(* snapshot restic could not read every file for is reported failed.        *)
BackupTarget(s, r, ok) ==
    /\ agent[s].phase \in {"working", "cancelled"}
    /\ IsBackup(agent[s].work)
    /\ r \in agent[s].todo
    /\ ok => agent[s].phase = "working"
    /\ agent' = [agent EXCEPT ![s] = Uploaded(agent[s], r, ok)]
    /\ copies' = IF ok THEN copies \cup {<<agent[s].work, r>>} ELSE copies
    /\ UNCHANGED <<rows, reports, faults>>

ReportOf(s, failed) ==
    [from |-> s, work |-> agent[s].work, token |-> agent[s].token,
     failed |-> failed, good |-> agent[s].good, bad |-> agent[s].bad]

(* execute: the report is made with a context that was given its minute     *)
(* before the work began, so a report of work that outlasted it is not      *)
(* sent.  Either way the agent goes back to polling.                        *)
Send(s, failed) ==
    /\ reports' = IF agent[s].late THEN reports
                  ELSE reports \cup {ReportOf(s, failed)}
    /\ agent' = [agent EXCEPT ![s] = Idle]
    /\ UNCHANGED <<rows, copies, faults>>

(* RunJob could not read, allocate, stage or verify: nothing was uploaded.  *)
ReportStagingError(s) ==
    /\ agent[s].phase \in {"working", "cancelled"}
    /\ IsBackup(agent[s].work)
    /\ agent[s].good = {} /\ agent[s].bad = {}
    /\ Send(s, TRUE)

ReportBackup(s) ==
    /\ agent[s].phase \in {"working", "cancelled"}
    /\ IsBackup(agent[s].work)
    /\ agent[s].todo = {}
    /\ Send(s, FALSE)

ReportRestore(s, failed) ==
    /\ agent[s].phase \in {"working", "cancelled"}
    /\ IsRestore(agent[s].work)
    /\ agent[s].phase = "cancelled" => failed
    /\ Send(s, failed)

(* The minute execute allowed for reporting passes while the work runs.     *)
WorkOutlastsMinute(s) ==
    /\ SlowWork
    /\ agent[s].phase = "working" /\ ~ agent[s].late
    /\ agent' = [agent EXCEPT ![s] = Overdue(agent[s])]
    /\ UNCHANGED <<rows, reports, copies, faults>>

(* The process is told to stop; the context of the work is cancelled.       *)
Stop(s) ==
    /\ agent[s].phase = "working"
    /\ agent' = [agent EXCEPT ![s] = Cancelled(agent[s])]
    /\ UNCHANGED <<rows, reports, copies, faults>>

Crash(s) ==
    /\ faults < MaxFaults
    /\ Busy(s)
    /\ agent' = [agent EXCEPT ![s] = Idle]
    /\ faults' = faults + 1
    /\ UNCHANGED <<rows, reports, copies>>

-----------------------------------------------------------------------------
(* Leases.                                                                  *)

(* Mutant: the token is not compared                                        *)
RunningOnAnyToken(s, w, t) ==
    /\ status[w] = "running"
    /\ ServerOf[AccountOf[w]] = s

(* jobIsRunningOn, and the WHERE clauses of the renewals and of             *)
(* ApplyRestoreReport: the row is running, on this server, under this token.*)
RunningOn(s, w, t) ==
    /\ status[w] = "running"
    /\ ServerOf[AccountOf[w]] = s
    /\ claimToken[w] = t

(* A heartbeat.  It extends the lease of the attempt that holds it, expired *)
(* or not; a refusal cancels the work.                                      *)
RenewLease(s) ==
    /\ agent[s].phase = "working"
    /\ IF RunningOn(s, agent[s].work, agent[s].token)
       THEN /\ lease' = [lease EXCEPT ![agent[s].work] = "live"]
            /\ UNCHANGED agent
       ELSE /\ agent' = [agent EXCEPT ![s] = Cancelled(agent[s])]
            /\ UNCHANGED lease
    /\ UNCHANGED <<status, claimToken, createdAt, started, targets, clock,
                   reports, copies, faults>>

(* Somebody still answers for w: its agent is heartbeating, or has reported.*)
Attended(w) ==
    \/ \E s \in Servers : agent[s].work = w /\ agent[s].token = claimToken[w]
    \/ \E m \in reports : m.work = w /\ m.token = claimToken[w]

(* Time passes the lease by.  For attended work that takes hours without a  *)
(* heartbeat getting through, which is one of the faults.                   *)
LeaseRunsOut(w) ==
    /\ lease[w] = "live"
    /\ lease' = [lease EXCEPT ![w] = "expired"]
    /\ IF Attended(w)
       THEN faults < MaxFaults /\ faults' = faults + 1
       ELSE UNCHANGED faults
    /\ UNCHANGED <<status, claimToken, createdAt, started, targets, clock, agent,
                   reports, copies>>

Lapsed(S) == {w \in S : status[w] = "running" /\ lease[w] = "expired"}

(* Rows of S go back on the queue, rows of T fail, all without a lease.     *)
TakeBack(S, T) ==
    /\ status' = [w \in Work |-> IF w \in S THEN "pending"
                                 ELSE IF w \in T THEN "failed" ELSE status[w]]
    /\ lease' = [w \in Work |-> IF w \in S \cup T THEN "none" ELSE lease[w]]
    /\ claimToken' = [w \in Work |-> IF w \in S \cup T THEN NoToken ELSE claimToken[w]]
    /\ UNCHANGED <<createdAt, started, targets, clock, agent, reports, copies,
                   faults>>

ReclaimExpiredLeases ==
    /\ Lapsed(Jobs) # {}
    /\ TakeBack(Lapsed(Jobs), {})

(* Mutant: a restore that applies is queued again too                       *)
RequeueEveryRestore ==
    /\ Lapsed(Restores) # {}
    /\ TakeBack(Lapsed(Restores), {})

(* A restore that writes into the live account is failed, never requeued.   *)
ReclaimExpiredRestoreLeases ==
    /\ Lapsed(Restores) # {}
    /\ TakeBack(Lapsed(Restores \ Applies), Lapsed(Applies))

-----------------------------------------------------------------------------
(* Reports.                                                                 *)

(* Mutant: a staging error fails no target row                              *)
RecordedWithoutStagingError(m) ==
    [r \in DOMAIN targets[m.work] |->
        IF r \in m.good THEN [status |-> "success", incomplete |-> FALSE]
        ELSE IF r \in m.bad
             THEN [status |-> "failed", incomplete |-> FALSE]
             ELSE targets[m.work][r]]

(* The rows of a job once the report's outcomes are stored; a staging error *)
(* fails whatever was left.                                                 *)
Recorded(m) ==
    [r \in DOMAIN targets[m.work] |->
        IF r \in m.good THEN [status |-> "success", incomplete |-> FALSE]
        ELSE IF r \in m.bad \/ (m.failed /\ Unfinished(targets[m.work][r]))
             THEN [status |-> "failed", incomplete |-> FALSE]
             ELSE targets[m.work][r]]

(* Mutant: the token stays in the closed row                                *)
CloseKeepsToken(w, outcome) ==
    /\ status' = [status EXCEPT ![w] = outcome]
    /\ lease' = [lease EXCEPT ![w] = "none"]
    /\ UNCHANGED claimToken

(* The outcome in the row and the lease given up.                           *)
Close(w, outcome) ==
    /\ status' = [status EXCEPT ![w] = outcome]
    /\ claimToken' = [claimToken EXCEPT ![w] = NoToken]
    /\ lease' = [lease EXCEPT ![w] = "none"]

ApplyReport(m) ==
    /\ IsBackup(m.work)
    /\ targets' = [targets EXCEPT ![m.work] = Recorded(m)]
    /\ Close(m.work, Rollup(Recorded(m)))

ApplyRestoreReport(m) ==
    /\ IsRestore(m.work)
    /\ Close(m.work, IF m.failed THEN "failed" ELSE "success")
    /\ UNCHANGED targets

(* The controller handles a report; one that is not the holder's is refused.*)
HandleReport(m) ==
    /\ m \in reports
    /\ reports' = reports \ {m}
    /\ IF RunningOn(m.from, m.work, m.token)
       THEN ApplyReport(m) \/ ApplyRestoreReport(m)
       ELSE UNCHANGED <<status, claimToken, lease, targets>>
    /\ UNCHANGED <<createdAt, started, clock, agent, copies, faults>>

(* A report that does not get through is not sent again.                    *)
ReportLost(m) ==
    /\ faults < MaxFaults
    /\ m \in reports
    /\ reports' = reports \ {m}
    /\ faults' = faults + 1
    /\ UNCHANGED <<rows, agent, copies>>

-----------------------------------------------------------------------------
Init ==
    /\ status = [w \in Work |-> "absent"]
    /\ claimToken = [w \in Work |-> NoToken]
    /\ lease = [w \in Work |-> "none"]
    /\ createdAt = [w \in Work |-> 0]
    /\ started = [w \in Work |-> FALSE]
    /\ targets = [j \in Jobs |-> [r \in RepositoriesFor(j) |-> FreshTarget]]
    /\ clock = 0
    /\ agent = [s \in Servers |-> Idle]
    /\ reports = {}
    /\ copies = {}
    /\ faults = 0

(* What the agent of s does once it has an assignment.                      *)
Progress(s) ==
    \/ \E r \in Repos, ok \in BOOLEAN : BackupTarget(s, r, ok)
    \/ ReportStagingError(s)
    \/ ReportBackup(s)
    \/ \E failed \in BOOLEAN : ReportRestore(s, failed)

Next ==
    \/ \E j \in Jobs : CreateJob(j)
    \/ \E r \in Restores : CreateRestore(r)
    \/ \E s \in Servers : \/ Poll(s) \/ PollAnswerLost(s)
                          \/ Progress(s) \/ WorkOutlastsMinute(s)
                          \/ RenewLease(s) \/ Stop(s) \/ Crash(s)
    \/ \E w \in Work : LeaseRunsOut(w)
    \/ ReclaimExpiredLeases
    \/ ReclaimExpiredRestoreLeases
    \/ \E m \in reports : HandleReport(m) \/ ReportLost(m)

Spec == Init /\ [][Next]_vars

(* The agent polls and works in a loop and each upload has a timeout, the   *)
(* controller answers requests and its scheduler ticks every minute, and    *)
(* time passes.  Nothing is assumed of faults, heartbeats or creations.     *)
Fairness ==
    /\ \A s \in Servers : WF_vars(Poll(s)) /\ WF_vars(Progress(s))
    /\ \A w \in Work : WF_vars(~ Attended(w) /\ LeaseRunsOut(w))
    /\ WF_vars(ReclaimExpiredLeases)
    /\ WF_vars(ReclaimExpiredRestoreLeases)
    /\ WF_vars(\E m \in reports : HandleReport(m))

FairSpec == Spec /\ Fairness

-----------------------------------------------------------------------------
TypeOK ==
    /\ status \in [Work -> Status \cup {"absent"}]
    /\ claimToken \in [Work -> Tokens \cup {NoToken}]
    /\ lease \in [Work -> {"none", "live", "expired"}]
    /\ createdAt \in [Work -> Nat]
    /\ started \in [Work -> BOOLEAN]
    /\ targets = [j \in Jobs |-> targets[j]]
    /\ \A j \in Jobs : targets[j] \in [RepositoriesFor(j) -> TargetResult]
    /\ clock \in Nat
    /\ agent \in [Servers -> Agents]
    /\ reports \subseteq Reports
    /\ copies \subseteq Jobs \X Repos
    /\ faults \in Nat

(* A running row always has a token and a lease.  Without one nothing would *)
(* ever reclaim it: ReclaimExpiredLeases skips rows whose lease is null, so *)
(* a report that rolled up to running would strand the job for good.        *)
RunningIsLeased ==
    \A w \in Work : /\ status[w] = "running" => claimToken[w] # NoToken /\ lease[w] # "none"
                    /\ status[w] # "running" => claimToken[w] = NoToken /\ lease[w] = "none"

(* A pending job has something to write.  claimTargets fails the claim of   *)
(* one that has not, and being the oldest it would fail every later poll of *)
(* its server too.                                                          *)
QueueHeadIsClaimable ==
    \A j \in Jobs : status[j] = "pending" => Outstanding(j) # {}

(* A restore that writes into the live account is handed out at most once,  *)
(* however its first attempt ended.                                         *)
DestructiveRestoreRunsOnce ==
    \A r \in Applies : started[r] => status[r] # "pending"

(* No job is reported better than it is: a success has a complete copy in   *)
(* every repository of its policy, a partial success in one at least.       *)
SuccessHasCopies ==
    \A j \in Jobs :
        /\ status[j] = "success" =>
              \A r \in RepositoriesFor(j) : <<j, r>> \in copies
        /\ status[j] = "partial_success" =>
              \E r \in RepositoriesFor(j) : <<j, r>> \in copies

(* A backup is never closed while the attempt that holds it is at work: a   *)
(* report of an abandoned attempt must not close out its successor.         *)
NotClosedUnderItsHolder ==
    [][\A j \in Jobs : status[j] = "running" /\ status'[j] # "running" =>
          \/ lease[j] = "expired"
          \/ ~ \E s \in Servers : agent[s].work = j /\ agent[s].token = claimToken[j]]_vars

(* Unless something was lost on the way, what has been handed out is not    *)
(* handed out again.                                                        *)
NothingIsRepeated ==
    faults = 0 => \A w \in Work : started[w] => status[w] # "pending"

(* A backup and a restore of one account do not run at the same time.       *)
RestoreExcludesBackup ==
    \A a \in Accounts : ~ (RunningBackup(a) /\ RunningRestore(a))

(* Again and again the agent of a holds work for more than the minute its   *)
(* report was given, and drops the report.                                  *)
AlwaysLate(a) == []<>(agent[ServerOf[a]].late)

(* Whatever is queued is finished: agents that die, answers and reports     *)
(* that are lost delay it and do not leave it open for ever, and neither    *)
(* does work that outlasts its report, unless its server never has done     *)
(* with such work.                                                          *)
EverythingFinishes ==
    \A w \in Work : AlwaysLate(AccountOf[w]) \/ []<>(~ Open(w))

-----------------------------------------------------------------------------
(* The queue as its callers see it.                                         *)
PhaseOf(st) == IF st = "absent" THEN "absent"
               ELSE IF st = "pending" THEN "queued"
               ELSE IF st = "running" THEN "held" ELSE "closed"

Queue == INSTANCE WorkQueue WITH
    Once <- Applies,
    phase <- [w \in Work |-> PhaseOf(status[w])],
    holder <- claimToken,
    begun <- started

(* The tables implement the abstract queue: claims, reclaims and reports    *)
(* are its Acquire, Revoke and Complete, everything else stutters.          *)
ImplementsWorkQueue == Queue!Spec
=============================================================================
