---------------------------- MODULE FleetProofs -----------------------------
(* What holds of the fleet for every set of jobs, servers and tokens, and   *)
(* however many faults: of the queue, of scheduler, operators and agents    *)
(* around it, and of the transactions a claim is made of.                   *)
EXTENDS FleetSchedule, FiniteSetTheorems, TLAPS

(* Nothing has been recorded of a job until it is closed: a report closes   *)
(* the job it is accepted for, so a reclaimed job starts over with every    *)
(* repository still to write.                                               *)
OpenIsUntouched ==
    \A j \in Jobs : status[j] \in {"absent", "pending", "running"} =>
        \A r \in RepositoriesFor(j) : targets[j][r] = FreshTarget

(* A closed job's status is the rollup of its rows.                         *)
ClosedIsRolledUp ==
    \A j \in Jobs : status[j] \notin {"absent", "pending", "running"} =>
        /\ status[j] = Rollup(targets[j])
        /\ \A r \in RepositoriesFor(j) : targets[j][r].status \in {"success", "failed"}

CreatedHasRepositories ==
    \A j \in Jobs : status[j] # "absent" => RepositoriesFor(j) # {}

(* An assignment of a backup covers every repository of its policy, and so  *)
(* does the report it ends in unless it carries a staging error.            *)
AssignmentsAreWhole ==
    /\ \A s \in Servers : agent[s].work \in Jobs =>
          agent[s].todo \cup agent[s].good \cup agent[s].bad = RepositoriesFor(agent[s].work)
    /\ \A m \in reports : m.work \in Jobs =>
          /\ m.failed \/ m.good \cup m.bad = RepositoriesFor(m.work)
          /\ m.good \cup m.bad \subseteq RepositoriesFor(m.work)

(* An agent only claims a copy it made.                                     *)
ClaimsAreCopies ==
    /\ \A s \in Servers : \A r \in agent[s].good : <<agent[s].work, r>> \in copies
    /\ \A m \in reports : \A r \in m.good : <<m.work, r>> \in copies
    /\ \A j \in Jobs : \A r \in RepositoriesFor(j) :
          targets[j][r].status = "success" => <<j, r>> \in copies

(* A token is one attempt's: no two agents work under it, and none works    *)
(* under it once it has reported.                                           *)
TokensAreApart ==
    /\ \A s \in Servers : agent[s].phase = "idle" <=> agent[s] = Idle
    /\ \A s \in Servers : agent[s].phase # "idle" =>
          agent[s].work \in Work /\ agent[s].token \in Tokens
    /\ \A s, u \in Servers : agent[s].token = agent[u].token /\ agent[s].token # NoToken => s = u
    /\ \A s \in Servers : \A m \in reports : agent[s].token # m.token
    /\ \A w, v \in Work : claimToken[w] = claimToken[v] /\ claimToken[w] # NoToken => w = v

(* Only work that was once queued was ever started.                         *)
StartedWasQueued == \A w \in Work : started[w] => status[w] # "absent"

(* What the rows alone satisfy, and what ties agents and reports to them.   *)
RowInv ==
    /\ RunningIsLeased
    /\ OpenIsUntouched
    /\ ClosedIsRolledUp
    /\ CreatedHasRepositories
    /\ StartedWasQueued
    /\ DestructiveRestoreRunsOnce

AgentInv ==
    /\ AssignmentsAreWhole
    /\ ClaimsAreCopies
    /\ TokensAreApart

IInv == TypeOK /\ RowInv /\ AgentInv

-----------------------------------------------------------------------------
(* Types.                                                                   *)

(* A report's outcomes leave every row of the job with a result.            *)
LEMMA RecordedType ==
    ASSUME TypeOK, NEW m \in reports, m.work \in Jobs
    PROVE  /\ Recorded(m) \in [RepositoriesFor(m.work) -> TargetResult]
           /\ Rollup(Recorded(m)) \in {"running", "success", "partial_success", "failed"}
<1>1. targets[m.work] \in [RepositoriesFor(m.work) -> TargetResult]
    BY DEF TypeOK
<1>2. \A r \in RepositoriesFor(m.work) : Recorded(m)[r] \in TargetResult
    BY <1>1 DEF Recorded, TargetResult, TargetStatus
<1>3. Recorded(m) \in [RepositoriesFor(m.work) -> TargetResult]
    BY <1>1, <1>2 DEF Recorded
<1>4. Rollup(Recorded(m)) \in {"running", "success", "partial_success", "failed"}
    BY DEF Rollup
<1> QED BY <1>3, <1>4

(* What happens to an agent leaves it an agent.                             *)
LEMMA AgentUpdates ==
    ASSUME NEW a \in Agents
    PROVE  /\ Overdue(a) \in Agents
           /\ Cancelled(a) \in Agents
           /\ \A r \in Repos, ok \in BOOLEAN : Uploaded(a, r, ok) \in Agents
BY DEF Agents, Overdue, Cancelled, Uploaded

(* An assignment is well formed.                                            *)
LEMMA AssignedType ==
    ASSUME TypeOK, NEW w \in Work, NEW t \in Tokens
    PROVE  Assigned(w, t) \in Agents
<1>1. CASE w \in Jobs
    <2>1. targets[w] \in [RepositoriesFor(w) -> TargetResult]
        BY <1>1 DEF TypeOK
    <2>2. RepositoriesFor(w) \subseteq Repos
        BY <1>1, TablesAssumption DEF RepositoriesFor
    <2> QED BY <2>1, <2>2, <1>1 DEF Assigned, Agents, Outstanding, IsBackup
<1>2. CASE w \notin Jobs
    BY <1>2 DEF Assigned, Agents, IsBackup
<1> QED BY <1>1, <1>2

(* Every variable starts with its type.                                     *)
LEMMA TypeInit == Init => TypeOK
<1> SUFFICES ASSUME Init PROVE TypeOK
    OBVIOUS
<1>1. \A j \in Jobs : targets[j] \in [RepositoriesFor(j) -> TargetResult]
    BY DEF Init, FreshTarget, TargetResult, TargetStatus
<1>2. agent \in [Servers -> Agents]
    BY DEF Init, Idle, Agents
<1> QED BY <1>1, <1>2 DEF Init, TypeOK, Status

(* The claim writes only the row it leases.                                 *)
LEMMA LeaseType ==
    ASSUME TypeOK, NEW w \in Work, NEW t \in Tokens, Lease(w, t)
    PROVE  /\ status' \in [Work -> Status \cup {"absent"}]
           /\ claimToken' \in [Work -> Tokens \cup {NoToken}]
           /\ lease' \in [Work -> {"none", "live", "expired"}]
           /\ started' \in [Work -> BOOLEAN]
           /\ createdAt' = createdAt /\ targets' = targets /\ clock' = clock
BY DEF TypeOK, Lease, Status

(* Reclaiming writes only status, lease and token.                          *)
LEMMA TakeBackType ==
    ASSUME TypeOK, NEW S, NEW T, TakeBack(S, T)
    PROVE  TypeOK'
BY DEF TypeOK, TakeBack, Status

(* Reporting leaves the agent idle and a well-formed report in flight.      *)
LEMMA SendType ==
    ASSUME TypeOK, NEW s \in Servers, NEW failed \in BOOLEAN,
           agent[s].work \in Work, agent[s].token \in Tokens, Send(s, failed)
    PROVE  TypeOK'
<1>1. agent[s] \in Agents
    BY DEF TypeOK
<1>2. ReportOf(s, failed) \in Reports
    BY <1>1 DEF ReportOf, Reports, Agents
<1>3. Idle \in Agents
    BY DEF Idle, Agents
<1>4. agent' \in [Servers -> Agents]
    BY <1>3 DEF Send, TypeOK
<1>5. reports' \subseteq Reports
    BY <1>2 DEF Send, TypeOK
<1> QED BY <1>4, <1>5 DEF TypeOK, Send, rows

(* The inductive step of TypeOK needs to know that a busy agent has work    *)
(* and a token, and nothing more of the invariant.                          *)
BusyHasWork ==
    \A s \in Servers : agent[s].phase # "idle" =>
        agent[s].work \in Work /\ agent[s].token \in Tokens

(* What NextWork hands out was pending, belongs to the server that asked    *)
(* and, if it is a backup, has no other backup of its account running.      *)
LEMMA ClaimedIsWork ==
    ASSUME TypeOK, NEW s \in Servers, NEW t, NEW w \in Work, NextWork(s, t, w)
    PROVE  /\ Lease(w, t)
           /\ status[w] = "pending"
           /\ ServerOf[AccountOf[w]] = s
           /\ w \in Jobs => ~ RunningBackup(AccountOf[w]) /\ Outstanding(w) # {}
BY WorkAssumption DEF NextWork, ClaimNextRestore, ClaimNextJob, Oldest,
    ClaimableRestores, ClaimableJobs, On, Work

(* Every action preserves the types.                                        *)
LEMMA TypeStep == TypeOK /\ BusyHasWork /\ [Next]_vars => TypeOK'
<1> SUFFICES ASSUME TypeOK, BusyHasWork, [Next]_vars PROVE TypeOK'
    OBVIOUS
<1>1. ASSUME NEW j \in Jobs, CreateJob(j) PROVE TypeOK'
    <2>1. [r \in RepositoriesFor(j) |-> FreshTarget] \in [RepositoriesFor(j) -> TargetResult]
        BY DEF FreshTarget, TargetResult, TargetStatus
    <2>2. targets' = [k \in Jobs |-> targets'[k]]
        BY <1>1 DEF CreateJob, TypeOK
    <2>3. \A k \in Jobs : targets'[k] \in [RepositoriesFor(k) -> TargetResult]
        BY <1>1, <2>1 DEF CreateJob, TypeOK
    <2>4. status' \in [Work -> Status \cup {"absent"}] /\ createdAt' \in [Work -> Nat]
        BY <1>1 DEF CreateJob, TypeOK, Status
    <2> QED BY <1>1, <2>2, <2>3, <2>4 DEF CreateJob, TypeOK
<1>2. ASSUME NEW r \in Restores, CreateRestore(r) PROVE TypeOK'
    <2>1. status' \in [Work -> Status \cup {"absent"}] /\ createdAt' \in [Work -> Nat]
        BY <1>2 DEF CreateRestore, TypeOK, Status
    <2> QED BY <1>2, <2>1 DEF CreateRestore, TypeOK
<1>3. ASSUME NEW s \in Servers, Poll(s) PROVE TypeOK'
    <2>1. PICK t \in FreshTokens, w \in Work :
            NextWork(s, t, w) /\ agent' = [agent EXCEPT ![s] = Assigned(w, t)]
        BY <1>3 DEF Poll
    <2>2. t \in Tokens /\ Lease(w, t) /\ Assigned(w, t) \in Agents
        BY <2>1, ClaimedIsWork, AssignedType DEF FreshTokens
    <2>3. agent' \in [Servers -> Agents]
        BY <2>1, <2>2 DEF TypeOK
    <2> QED BY <1>3, <2>2, <2>3, LeaseType DEF Poll, TypeOK
<1>4. ASSUME NEW s \in Servers, PollAnswerLost(s) PROVE TypeOK'
    <2>1. PICK t \in FreshTokens, w \in Work : NextWork(s, t, w)
        BY <1>4 DEF PollAnswerLost
    <2>2. t \in Tokens /\ Lease(w, t)
        BY <2>1, ClaimedIsWork DEF FreshTokens
    <2> QED BY <1>4, <2>2, LeaseType, TablesAssumption DEF PollAnswerLost, TypeOK
<1>5. ASSUME NEW s \in Servers, NEW r \in Repos, NEW ok \in BOOLEAN, BackupTarget(s, r, ok)
      PROVE TypeOK'
    <2>1. agent' \in [Servers -> Agents]
        BY <1>5, AgentUpdates DEF BackupTarget, TypeOK
    <2>2. copies' \subseteq Jobs \X Repos
        BY <1>5 DEF BackupTarget, TypeOK, IsBackup
    <2> QED BY <1>5, <2>1, <2>2 DEF BackupTarget, TypeOK, rows
<1>6. ASSUME NEW s \in Servers, ReportStagingError(s) PROVE TypeOK'
    BY <1>6, SendType DEF ReportStagingError, BusyHasWork
<1>7. ASSUME NEW s \in Servers, ReportBackup(s) PROVE TypeOK'
    BY <1>7, SendType DEF ReportBackup, BusyHasWork
<1>8. ASSUME NEW s \in Servers, NEW failed \in BOOLEAN, ReportRestore(s, failed) PROVE TypeOK'
    BY <1>8, SendType DEF ReportRestore, BusyHasWork
<1>9. ASSUME NEW s \in Servers, WorkOutlastsMinute(s) PROVE TypeOK'
    BY <1>9, AgentUpdates DEF WorkOutlastsMinute, TypeOK, rows
<1>10. ASSUME NEW s \in Servers, Stop(s) PROVE TypeOK'
    BY <1>10, AgentUpdates DEF Stop, TypeOK, rows
<1>11. ASSUME NEW s \in Servers, Crash(s) PROVE TypeOK'
    <2>1. Idle \in Agents
        BY DEF Idle, Agents
    <2> QED BY <1>11, <2>1, TablesAssumption DEF Crash, TypeOK, rows
<1>12. ASSUME NEW s \in Servers, RenewLease(s) PROVE TypeOK'
    BY <1>12, AgentUpdates DEF RenewLease, TypeOK
<1>13. ASSUME NEW w \in Work, LeaseRunsOut(w) PROVE TypeOK'
    BY <1>13, TablesAssumption DEF LeaseRunsOut, TypeOK
<1>14. CASE ReclaimExpiredLeases
    BY <1>14, TakeBackType DEF ReclaimExpiredLeases
<1>15. CASE ReclaimExpiredRestoreLeases
    BY <1>15, TakeBackType DEF ReclaimExpiredRestoreLeases
<1>16. ASSUME NEW m \in reports, HandleReport(m) PROVE TypeOK'
    <2>1. CASE ~ RunningOn(m.from, m.work, m.token)
        BY <1>16, <2>1 DEF HandleReport, TypeOK
    <2>2. CASE RunningOn(m.from, m.work, m.token) /\ ApplyReport(m)
        <3>1. m.work \in Jobs
            BY <2>2 DEF ApplyReport, IsBackup
        <3>2. targets' = [k \in Jobs |-> targets'[k]]
            BY <2>2 DEF ApplyReport, TypeOK
        <3>3. \A k \in Jobs : targets'[k] \in [RepositoriesFor(k) -> TargetResult]
            BY <2>2, <3>1, RecordedType DEF ApplyReport, TypeOK
        <3>4. /\ status' \in [Work -> Status \cup {"absent"}]
              /\ claimToken' \in [Work -> Tokens \cup {NoToken}]
              /\ lease' \in [Work -> {"none", "live", "expired"}]
            BY <2>2, <3>1, RecordedType DEF ApplyReport, Close, TypeOK, Status
        <3> QED BY <1>16, <3>2, <3>3, <3>4 DEF HandleReport, TypeOK
    <2>3. CASE RunningOn(m.from, m.work, m.token) /\ ApplyRestoreReport(m)
        BY <1>16, <2>3 DEF HandleReport, ApplyRestoreReport, Close, TypeOK, Status
    <2> QED BY <1>16, <2>1, <2>2, <2>3 DEF HandleReport
<1>17. ASSUME NEW m \in reports, ReportLost(m) PROVE TypeOK'
    BY <1>17, TablesAssumption DEF ReportLost, TypeOK, rows
<1>18. CASE UNCHANGED vars
    BY <1>18 DEF TypeOK, vars, rows
<1> QED BY <1>1, <1>2, <1>3, <1>4, <1>5, <1>6, <1>7, <1>8, <1>9, <1>10, <1>11, <1>12,
        <1>13, <1>14, <1>15, <1>16, <1>17, <1>18 DEF Next, Progress

-----------------------------------------------------------------------------
(* The inductive invariant.                                                 *)

(* The invariant holds of an empty queue.                                   *)
LEMMA InitIInv == Init => IInv
<1> SUFFICES ASSUME Init PROVE IInv
    OBVIOUS
<1>1. TypeOK
    BY TypeInit
<1>2. RowInv
    BY WorkAssumption DEF Init, RowInv, RunningIsLeased, OpenIsUntouched, ClosedIsRolledUp,
        CreatedHasRepositories, StartedWasQueued, DestructiveRestoreRunsOnce, Work
<1>3. AgentInv
    BY WorkAssumption DEF Init, AgentInv, AssignmentsAreWhole, ClaimsAreCopies,
        TokensAreApart, Idle, FreshTarget, Work
<1> QED BY <1>1, <1>2, <1>3 DEF IInv

(* The rows are as they were.                                               *)
LEMMA RowsKept == RowInv /\ UNCHANGED rows => RowInv'
BY DEF RowInv, RunningIsLeased, OpenIsUntouched, ClosedIsRolledUp, CreatedHasRepositories,
    StartedWasQueued, DestructiveRestoreRunsOnce, rows

(* A claim leases one pending row under a token nobody holds.               *)
LEMMA ClaimKeepsRows ==
    ASSUME IInv, NEW s \in Servers, NEW t \in FreshTokens, NEW w \in Work, NextWork(s, t, w)
    PROVE  RowInv'
<1>1. /\ Lease(w, t) /\ status[w] = "pending" /\ t \in Tokens
    BY ClaimedIsWork DEF IInv, FreshTokens
<1>2. RunningIsLeased'
    BY <1>1, WorkAssumption DEF IInv, RowInv, TypeOK, RunningIsLeased, Lease
<1>3. OpenIsUntouched' /\ ClosedIsRolledUp' /\ CreatedHasRepositories'
    BY <1>1 DEF IInv, RowInv, TypeOK, OpenIsUntouched, ClosedIsRolledUp,
        CreatedHasRepositories, Lease, Work
<1>4. StartedWasQueued' /\ DestructiveRestoreRunsOnce'
    BY <1>1, WorkAssumption DEF IInv, RowInv, TypeOK, StartedWasQueued,
        DestructiveRestoreRunsOnce, Lease, Work
<1> QED BY <1>2, <1>3, <1>4 DEF RowInv

(* Lapsed rows taken back: S is requeued, T is failed.                      *)
LEMMA TakeBackKeepsRows ==
    ASSUME IInv, NEW S \in SUBSET Work, NEW T \in SUBSET Work, TakeBack(S, T),
           \A w \in S \cup T : status[w] = "running",
           S \cap Applies = {}, T \cap Jobs = {}
    PROVE  RowInv'
<1>1. RunningIsLeased'
    BY WorkAssumption DEF IInv, RowInv, TypeOK, RunningIsLeased, TakeBack
<1>2. OpenIsUntouched' /\ CreatedHasRepositories'
    BY DEF IInv, RowInv, TypeOK, OpenIsUntouched, CreatedHasRepositories, TakeBack, Work
<1>3. ClosedIsRolledUp'
    BY DEF IInv, RowInv, TypeOK, ClosedIsRolledUp, TakeBack, Work
<1>4. StartedWasQueued' /\ DestructiveRestoreRunsOnce'
    BY WorkAssumption DEF IInv, RowInv, TypeOK, StartedWasQueued, DestructiveRestoreRunsOnce,
        TakeBack, Work
<1> QED BY <1>1, <1>2, <1>3, <1>4 DEF RowInv

(* A report that is accepted settles every row of the job, so that the job  *)
(* it closes is closed.                                                     *)
LEMMA AcceptedReportSettles ==
    ASSUME IInv, NEW m \in reports, m.work \in Jobs, status[m.work] = "running"
    PROVE  /\ \A r \in RepositoriesFor(m.work) :
                 Recorded(m)[r].status \in {"success", "failed"}
           /\ \A r \in RepositoriesFor(m.work) :
                 Recorded(m)[r].status = "success" => <<m.work, r>> \in copies
           /\ Rollup(Recorded(m)) \in {"success", "partial_success", "failed"}
<1>1. /\ targets[m.work] \in [RepositoriesFor(m.work) -> TargetResult]
      /\ \A r \in RepositoriesFor(m.work) : targets[m.work][r] = FreshTarget
    BY DEF IInv, TypeOK, RowInv, OpenIsUntouched
<1>2. m.failed \/ m.good \cup m.bad = RepositoriesFor(m.work)
    BY DEF IInv, AgentInv, AssignmentsAreWhole
<1>3. \A r \in RepositoriesFor(m.work) :
         Recorded(m)[r].status \in {"success", "failed"}
    BY <1>1, <1>2 DEF Recorded, Unfinished, FreshTarget
<1>4. \A r \in RepositoriesFor(m.work) :
         Recorded(m)[r].status = "success" => <<m.work, r>> \in copies
    BY <1>1 DEF Recorded, FreshTarget, IInv, AgentInv, ClaimsAreCopies
<1>5. Recorded(m) \in [RepositoriesFor(m.work) -> TargetResult]
    BY RecordedType DEF IInv
<1>6. Rollup(Recorded(m)) \in {"success", "partial_success", "failed"}
    BY <1>3, <1>5 DEF Rollup, Unfinished
<1> QED BY <1>3, <1>4, <1>6

(* A report closes the row it is accepted for and no other.                 *)
LEMMA ReportKeepsRows ==
    ASSUME IInv, NEW m \in reports, HandleReport(m)
    PROVE  RowInv'
<1>0. m.work \in Work
    BY DEF IInv, TypeOK, Reports
<1>1. CASE ~ RunningOn(m.from, m.work, m.token)
    BY <1>1, RowsKept DEF HandleReport, rows, IInv
<1>2. CASE RunningOn(m.from, m.work, m.token) /\ ApplyReport(m)
    <2>1. /\ m.work \in Jobs /\ status[m.work] = "running"
          /\ targets' = [targets EXCEPT ![m.work] = Recorded(m)]
          /\ Close(m.work, Rollup(Recorded(m)))
          /\ UNCHANGED <<createdAt, started, clock>>
        BY <1>2 DEF ApplyReport, IsBackup, RunningOn, HandleReport
    <2>2. RunningIsLeased'
        BY <2>1, <1>0, AcceptedReportSettles DEF IInv, RowInv, TypeOK, RunningIsLeased, Close
    <2>3. OpenIsUntouched' /\ CreatedHasRepositories'
        BY <2>1, AcceptedReportSettles DEF IInv, RowInv, TypeOK, OpenIsUntouched,
            CreatedHasRepositories, Close, Work
    <2>4. ClosedIsRolledUp'
        BY <2>1, AcceptedReportSettles DEF IInv, RowInv, TypeOK, ClosedIsRolledUp, Close, Work
    <2>5. StartedWasQueued' /\ DestructiveRestoreRunsOnce'
        BY <2>1, AcceptedReportSettles, WorkAssumption DEF IInv, RowInv, TypeOK,
            StartedWasQueued, DestructiveRestoreRunsOnce, Close, Work
    <2> QED BY <2>2, <2>3, <2>4, <2>5 DEF RowInv
<1>3. CASE RunningOn(m.from, m.work, m.token) /\ ApplyRestoreReport(m)
    <2>1. PICK outcome \in {"failed", "success"} :
            /\ m.work \in Restores /\ status[m.work] = "running"
            /\ Close(m.work, outcome)
            /\ UNCHANGED <<createdAt, started, clock, targets>>
        BY <1>3 DEF ApplyRestoreReport, IsRestore, RunningOn, HandleReport
    <2>2. RunningIsLeased'
        BY <2>1, <1>0 DEF IInv, RowInv, TypeOK, RunningIsLeased, Close
    <2>3. OpenIsUntouched' /\ CreatedHasRepositories' /\ ClosedIsRolledUp'
        BY <2>1, WorkAssumption DEF IInv, RowInv, TypeOK, OpenIsUntouched,
            CreatedHasRepositories, ClosedIsRolledUp, Close, Work
    <2>4. StartedWasQueued' /\ DestructiveRestoreRunsOnce'
        BY <2>1, WorkAssumption DEF IInv, RowInv, TypeOK, StartedWasQueued,
            DestructiveRestoreRunsOnce, Close, Work
    <2> QED BY <2>2, <2>3, <2>4 DEF RowInv
<1> QED BY <1>1, <1>2, <1>3 DEF HandleReport

(* A claim gives an idle agent the whole of a job under a token of its own. *)
LEMMA PollKeepsAgents ==
    ASSUME IInv, NEW s \in Servers, Poll(s)
    PROVE  AgentInv'
<1>1. PICK t \in FreshTokens, w \in Work :
        NextWork(s, t, w) /\ agent' = [agent EXCEPT ![s] = Assigned(w, t)]
    BY DEF Poll
<1>2. /\ t \in Tokens /\ t # NoToken /\ Lease(w, t) /\ status[w] = "pending"
      /\ UNCHANGED <<reports, copies, targets>>
    BY <1>1, ClaimedIsWork, WorkAssumption DEF IInv, FreshTokens, Poll, Lease
<1>3. w \in Jobs => Outstanding(w) = RepositoriesFor(w)
    BY <1>2 DEF Outstanding, IInv, TypeOK, RowInv, OpenIsUntouched, FreshTarget
<1>4. /\ Assigned(w, t).work = w /\ Assigned(w, t).token = t
      /\ Assigned(w, t).phase = "working" /\ Assigned(w, t).good = {}
      /\ w \in Jobs => Assigned(w, t).todo = RepositoriesFor(w)
      /\ Assigned(w, t).bad = {}
    BY <1>3 DEF Assigned, IsBackup
<1>5. /\ \A v \in Work : claimToken[v] # t
      /\ \A u \in Servers : agent[u].token # t
      /\ \A m \in reports : m.token # t
    BY <1>1 DEF FreshTokens, TokensInUse
<1>6. AssignmentsAreWhole'
    BY <1>1, <1>2, <1>4 DEF IInv, AgentInv, AssignmentsAreWhole, TypeOK
<1>7. ClaimsAreCopies'
    BY <1>1, <1>2, <1>4 DEF IInv, AgentInv, ClaimsAreCopies, TypeOK
<1>8. TokensAreApart'
    <2>1. Assigned(w, t) # Idle
        BY <1>4 DEF Idle
    <2>2. \A u, v \in Work : claimToken'[u] = claimToken'[v] /\ claimToken'[u] # NoToken => u = v
        BY <1>2, <1>5 DEF IInv, AgentInv, TokensAreApart, TypeOK, Lease
    <2> QED BY <1>1, <1>2, <1>4, <1>5, <2>1, <2>2 DEF IInv, AgentInv, TokensAreApart, TypeOK
<1> QED BY <1>6, <1>7, <1>8 DEF AgentInv

(* Nothing of the agents, the reports or the copies changes, and tokens     *)
(* are only given up.                                                       *)
LEMMA AgentsKept ==
    ASSUME IInv, UNCHANGED <<agent, reports, copies, targets>>, 
           \A w \in Work : claimToken'[w] \in {claimToken[w], NoToken}
    PROVE  AgentInv'
BY DEF IInv, AgentInv, AssignmentsAreWhole, ClaimsAreCopies, TokensAreApart

(* One agent's assignment moves on.                                         *)
LEMMA AgentMovesOn ==
    ASSUME IInv, NEW s \in Servers, NEW a \in Agents, agent' = [agent EXCEPT ![s] = a],
           agent[s].phase # "idle", a.phase # "idle",
           a.work = agent[s].work, a.token = agent[s].token,
           a.todo \cup a.good \cup a.bad = agent[s].todo \cup agent[s].good \cup agent[s].bad,
           \A r \in a.good : <<a.work, r>> \in copies',
           copies \subseteq copies', UNCHANGED <<claimToken, reports, targets>>
    PROVE  AgentInv'
<1>1. AssignmentsAreWhole'
    BY DEF IInv, AgentInv, AssignmentsAreWhole, TypeOK
<1>2. ClaimsAreCopies'
    BY DEF IInv, AgentInv, ClaimsAreCopies, TypeOK
<1>3. a # Idle
    BY DEF Idle
<1>4. TokensAreApart'
    BY <1>3 DEF IInv, AgentInv, TokensAreApart, TypeOK
<1> QED BY <1>1, <1>2, <1>4 DEF AgentInv

(* The agent stops, and takes its token with it or into its report.         *)
LEMMA AgentStops ==
    ASSUME IInv, NEW s \in Servers, agent' = [agent EXCEPT ![s] = Idle],
           agent[s].phase # "idle", NEW failed \in BOOLEAN,
           reports' \subseteq reports \cup {ReportOf(s, failed)},
           agent[s].work \in Jobs => failed \/ agent[s].todo = {},
           UNCHANGED <<claimToken, copies, targets>>
    PROVE  AgentInv'
<1>0. /\ Idle.work = NoWork /\ Idle.token = NoToken /\ Idle.phase = "idle" /\ Idle.good = {}
      /\ NoWork \notin Jobs
    BY WorkAssumption DEF Idle, Work
<1>1. /\ ReportOf(s, failed).work = agent[s].work /\ ReportOf(s, failed).token = agent[s].token
      /\ ReportOf(s, failed).failed = failed /\ ReportOf(s, failed).good = agent[s].good
      /\ ReportOf(s, failed).bad = agent[s].bad
    BY DEF ReportOf
<1>2. AssignmentsAreWhole'
    BY <1>0, <1>1 DEF IInv, AgentInv, AssignmentsAreWhole, TypeOK
<1>3. ClaimsAreCopies'
    BY <1>0, <1>1 DEF IInv, AgentInv, ClaimsAreCopies, TypeOK
<1>4. agent[s].token \in Tokens /\ NoToken \notin Tokens
    BY WorkAssumption DEF IInv, AgentInv, TokensAreApart
<1>5. \A u \in Servers : \A m \in reports' : agent'[u].token # m.token
    <2> SUFFICES ASSUME NEW u \in Servers, NEW m \in reports' PROVE agent'[u].token # m.token
        OBVIOUS
    <2>1. m.token \in Tokens
        BY <1>1, <1>4 DEF IInv, TypeOK, Reports
    <2>2. CASE u = s
        BY <1>0, <1>4, <2>1, <2>2 DEF IInv, TypeOK
    <2>3. CASE u # s
        BY <1>1, <1>4, <2>3 DEF IInv, TypeOK, AgentInv, TokensAreApart
    <2> QED BY <2>2, <2>3
<1>6. TokensAreApart'
    BY <1>0, <1>5 DEF IInv, AgentInv, TokensAreApart, TypeOK
<1> QED BY <1>2, <1>3, <1>6 DEF AgentInv

(* Every action preserves the invariant.                                    *)
LEMMA StepIInv == IInv /\ [Next]_vars => IInv'
<1> SUFFICES ASSUME IInv, [Next]_vars PROVE IInv'
    OBVIOUS
<1>0. TypeOK'
    <2>1. BusyHasWork
        BY DEF IInv, AgentInv, TokensAreApart, BusyHasWork
    <2> QED BY <2>1, TypeStep DEF IInv
<1> SUFFICES RowInv' /\ AgentInv'
    BY <1>0 DEF IInv
<1>1. ASSUME NEW j \in Jobs, CreateJob(j) PROVE RowInv' /\ AgentInv'
    <2>1. /\ status[j] = "absent" /\ status' = [status EXCEPT ![j] = "pending"]
          /\ RepositoriesFor(j) # {}
          /\ targets' = [targets EXCEPT ![j] = [r \in RepositoriesFor(j) |-> FreshTarget]]
          /\ UNCHANGED <<claimToken, lease, started, agent, reports, copies>>
        BY <1>1 DEF CreateJob
    <2>2. j \in Work /\ j \notin Applies
        BY WorkAssumption DEF Work
    <2>3. RunningIsLeased' /\ StartedWasQueued' /\ DestructiveRestoreRunsOnce'
        BY <2>1, <2>2, WorkAssumption DEF IInv, RowInv, TypeOK, RunningIsLeased,
            StartedWasQueued, DestructiveRestoreRunsOnce, Work
    <2>4. OpenIsUntouched' /\ ClosedIsRolledUp'
        BY <2>1, <2>2 DEF IInv, RowInv, TypeOK, OpenIsUntouched, ClosedIsRolledUp, Work
    <2>5. CreatedHasRepositories'
        BY <2>1, <2>2 DEF IInv, RowInv, TypeOK, CreatedHasRepositories, Work
    <2>6. AssignmentsAreWhole' /\ TokensAreApart'
        BY <2>1 DEF IInv, AgentInv, AssignmentsAreWhole, TokensAreApart
    <2>7. ClaimsAreCopies'
        BY <2>1 DEF IInv, AgentInv, TypeOK, ClaimsAreCopies, FreshTarget
    <2> QED BY <2>3, <2>4, <2>5, <2>6, <2>7 DEF RowInv, AgentInv
<1>2. ASSUME NEW r \in Restores, CreateRestore(r) PROVE RowInv' /\ AgentInv'
    <2>1. /\ status[r] = "absent" /\ status' = [status EXCEPT ![r] = "pending"]
          /\ UNCHANGED <<claimToken, lease, started, targets, agent, reports, copies>>
        BY <1>2 DEF CreateRestore
    <2>2. r \in Work /\ r \notin Jobs
        BY WorkAssumption DEF Work
    <2>3. RunningIsLeased' /\ StartedWasQueued' /\ DestructiveRestoreRunsOnce'
        BY <2>1, <2>2, WorkAssumption DEF IInv, RowInv, TypeOK, RunningIsLeased,
            StartedWasQueued, DestructiveRestoreRunsOnce, Work
    <2>4. /\ OpenIsUntouched' /\ ClosedIsRolledUp'
          /\ CreatedHasRepositories'
        BY <2>1, <2>2 DEF IInv, RowInv, TypeOK, OpenIsUntouched, ClosedIsRolledUp,
            CreatedHasRepositories, Work
    <2>5. AgentInv'
        BY <2>1, AgentsKept
    <2> QED BY <2>3, <2>4, <2>5 DEF RowInv
<1>3. ASSUME NEW s \in Servers, Poll(s) PROVE RowInv' /\ AgentInv'
    BY <1>3, ClaimKeepsRows, PollKeepsAgents DEF Poll
<1>4. ASSUME NEW s \in Servers, PollAnswerLost(s) PROVE RowInv' /\ AgentInv'
    <2>1. PICK t \in FreshTokens, w \in Work : NextWork(s, t, w)
        BY <1>4 DEF PollAnswerLost
    <2>2. /\ Lease(w, t) /\ t \in Tokens
          /\ \A v \in Work : claimToken[v] # t
        BY <2>1, ClaimedIsWork DEF IInv, FreshTokens, TokensInUse
    <2>3. UNCHANGED <<agent, reports, copies, targets>>
        BY <1>4, <2>2 DEF PollAnswerLost, Lease
    <2>4. \A u, v \in Work : claimToken'[u] = claimToken'[v] /\ claimToken'[u] # NoToken => u = v
        BY <2>2 DEF IInv, AgentInv, TokensAreApart, TypeOK, Lease
    <2>5. AgentInv'
        BY <2>3, <2>4 DEF IInv, AgentInv, AssignmentsAreWhole, ClaimsAreCopies, TokensAreApart
    <2> QED BY <2>1, <2>5, ClaimKeepsRows
<1>5. ASSUME NEW s \in Servers, NEW r \in Repos, NEW ok \in BOOLEAN, BackupTarget(s, r, ok)
      PROVE RowInv' /\ AgentInv'
    <2> DEFINE a == Uploaded(agent[s], r, ok)
    <2>1. agent[s] \in Agents /\ a \in Agents
        BY AgentUpdates DEF IInv, TypeOK
    <2>2. /\ agent[s].phase # "idle" /\ r \in agent[s].todo
          /\ agent' = [agent EXCEPT ![s] = a]
          /\ UNCHANGED <<rows, claimToken, reports, targets>>
          /\ copies' = IF ok THEN copies \cup {<<agent[s].work, r>>} ELSE copies
        BY <1>5 DEF BackupTarget, rows
    <2>3. /\ a.phase = agent[s].phase /\ a.work = agent[s].work /\ a.token = agent[s].token
          /\ a.todo = agent[s].todo \ {r}
          /\ a.good = IF ok THEN agent[s].good \cup {r} ELSE agent[s].good
          /\ a.bad = IF ok THEN agent[s].bad ELSE agent[s].bad \cup {r}
        BY <2>1 DEF Uploaded, Agents
    <2>4. a.todo \cup a.good \cup a.bad = agent[s].todo \cup agent[s].good \cup agent[s].bad
        BY <2>2, <2>3
    <2>5. \A q \in a.good : <<a.work, q>> \in copies'
        BY <2>2, <2>3 DEF IInv, AgentInv, ClaimsAreCopies
    <2>6. copies \subseteq copies'
        BY <2>2
    <2> HIDE DEF a
    <2>7. AgentInv'
        BY <2>1, <2>2, <2>3, <2>4, <2>5, <2>6, AgentMovesOn
    <2> QED BY <2>2, <2>7, RowsKept DEF IInv
<1>6. ASSUME NEW s \in Servers, NEW failed \in BOOLEAN, Send(s, failed), agent[s].phase # "idle",
             agent[s].work \in Jobs => failed \/ agent[s].todo = {}
      PROVE RowInv' /\ AgentInv'
    <2>1. UNCHANGED <<rows, claimToken, copies, targets>>
        BY <1>6 DEF Send, rows
    <2>2. AgentInv'
        BY <1>6, <2>1, AgentStops DEF Send
    <2> QED BY <2>1, <2>2, RowsKept DEF IInv
<1>7. ASSUME NEW s \in Servers, WorkOutlastsMinute(s) \/ Stop(s) PROVE RowInv' /\ AgentInv'
    <2>1. agent[s] \in Agents
        BY DEF IInv, TypeOK
    <2>2. PICK a \in {Overdue(agent[s]), Cancelled(agent[s])} :
            agent' = [agent EXCEPT ![s] = a]
        BY <1>7 DEF WorkOutlastsMinute, Stop
    <2>3. /\ a \in Agents /\ a.phase # "idle"
          /\ a.work = agent[s].work /\ a.token = agent[s].token
          /\ a.todo = agent[s].todo /\ a.good = agent[s].good /\ a.bad = agent[s].bad
        <3>1. agent[s].phase = "working"
            BY <1>7 DEF WorkOutlastsMinute, Stop
        <3>2. CASE a = Overdue(agent[s])
            BY <2>1, <3>1, <3>2, AgentUpdates DEF Overdue, Agents
        <3>3. CASE a = Cancelled(agent[s])
            BY <2>1, <3>1, <3>3, AgentUpdates DEF Cancelled, Agents
        <3> QED BY <3>2, <3>3
    <2>4. agent[s].phase # "idle" /\ UNCHANGED <<rows, claimToken, reports, targets, copies>>
        BY <1>7 DEF WorkOutlastsMinute, Stop, rows
    <2>5. \A r \in a.good : <<a.work, r>> \in copies'
        BY <2>3, <2>4 DEF IInv, AgentInv, ClaimsAreCopies
    <2>6. AgentInv'
        BY <2>2, <2>3, <2>4, <2>5, AgentMovesOn
    <2> QED BY <2>4, <2>6, RowsKept DEF IInv
<1>8. ASSUME NEW s \in Servers, Crash(s) PROVE RowInv' /\ AgentInv'
    <2>1. /\ agent' = [agent EXCEPT ![s] = Idle] /\ agent[s].phase # "idle"
          /\ UNCHANGED <<rows, reports, claimToken, copies, targets>>
        BY <1>8 DEF Crash, Busy, rows
    <2>2. AgentInv'
        BY <2>1, AgentStops
    <2> QED BY <2>1, <2>2, RowsKept DEF IInv
<1>9. ASSUME NEW s \in Servers, RenewLease(s) PROVE RowInv' /\ AgentInv'
    <2>1. CASE RunningOn(s, agent[s].work, agent[s].token)
        <3>1. /\ lease' = [lease EXCEPT ![agent[s].work] = "live"]
              /\ status[agent[s].work] = "running"
              /\ UNCHANGED <<status, claimToken, started, targets, agent, reports, copies>>
            BY <1>9, <2>1 DEF RenewLease, RunningOn
        <3>2. RunningIsLeased'
            BY <3>1 DEF IInv, RowInv, TypeOK, RunningIsLeased
        <3>3. RowInv'
            BY <3>1, <3>2 DEF IInv, RowInv, OpenIsUntouched, ClosedIsRolledUp,
                CreatedHasRepositories, StartedWasQueued, DestructiveRestoreRunsOnce
        <3> QED BY <3>1, <3>3, AgentsKept
    <2>2. CASE ~ RunningOn(s, agent[s].work, agent[s].token)
        <3>1. /\ agent' = [agent EXCEPT ![s] = Cancelled(agent[s])]
              /\ agent[s].phase # "idle"
              /\ UNCHANGED <<rows, claimToken, reports, copies, targets>>
            BY <1>9, <2>2 DEF RenewLease, rows
        <3>2. agent[s] \in Agents
            BY DEF IInv, TypeOK
        <3>3. /\ Cancelled(agent[s]) \in Agents /\ Cancelled(agent[s]).phase # "idle"
              /\ Cancelled(agent[s]).work = agent[s].work
              /\ Cancelled(agent[s]).token = agent[s].token
              /\ Cancelled(agent[s]).todo = agent[s].todo
              /\ Cancelled(agent[s]).good = agent[s].good
              /\ Cancelled(agent[s]).bad = agent[s].bad
            BY <3>2, AgentUpdates DEF Cancelled, Agents
        <3>4. \A r \in agent[s].good : <<agent[s].work, r>> \in copies'
            BY <3>1 DEF IInv, AgentInv, ClaimsAreCopies
        <3>5. AgentInv'
            BY <3>1, <3>3, <3>4, AgentMovesOn
        <3> QED BY <3>1, <3>5, RowsKept DEF IInv
    <2> QED BY <2>1, <2>2
<1>10. ASSUME NEW w \in Work, LeaseRunsOut(w) PROVE RowInv' /\ AgentInv'
    <2>1. /\ lease[w] = "live" /\ lease' = [lease EXCEPT ![w] = "expired"]
          /\ UNCHANGED <<status, claimToken, started, targets, agent, reports, copies>>
        BY <1>10 DEF LeaseRunsOut
    <2>2. RunningIsLeased'
        BY <2>1 DEF IInv, RowInv, TypeOK, RunningIsLeased
    <2>3. RowInv'
        BY <2>1, <2>2 DEF IInv, RowInv, OpenIsUntouched, ClosedIsRolledUp,
            CreatedHasRepositories, StartedWasQueued, DestructiveRestoreRunsOnce
    <2> QED BY <2>1, <2>3, AgentsKept
<1>11. ASSUME NEW S \in SUBSET Work, NEW T \in SUBSET Work, TakeBack(S, T),
             \A w \in S \cup T : status[w] = "running", S \cap Applies = {}, T \cap Jobs = {}
      PROVE RowInv' /\ AgentInv'
    <2>1. /\ UNCHANGED <<agent, reports, copies, targets>>
          /\ \A w \in Work : claimToken'[w] \in {claimToken[w], NoToken}
        BY <1>11 DEF TakeBack
    <2> QED BY <1>11, <2>1, TakeBackKeepsRows, AgentsKept
<1>12. CASE ReclaimExpiredLeases
    BY <1>11, <1>12, WorkAssumption DEF ReclaimExpiredLeases, Lapsed, Work
<1>13. CASE ReclaimExpiredRestoreLeases
    BY <1>11, <1>13, WorkAssumption DEF ReclaimExpiredRestoreLeases, Lapsed, Work
<1>14. ASSUME NEW m \in reports, HandleReport(m) PROVE RowInv' /\ AgentInv'
    <2>1. m.work \in Work
        BY DEF IInv, TypeOK, Reports
    <2>2. /\ UNCHANGED <<agent, copies>> /\ reports' \subseteq reports
          /\ \A w \in Work : claimToken'[w] \in {claimToken[w], NoToken}
        BY <1>14, <2>1 DEF HandleReport, ApplyReport, ApplyRestoreReport, Close, IInv, TypeOK
    <2>3. \A j \in Jobs : \A r \in RepositoriesFor(j) :
            targets'[j][r].status = "success" => <<j, r>> \in copies
        <3>1. CASE targets' = targets
            BY <3>1 DEF IInv, AgentInv, ClaimsAreCopies
        <3>2. CASE RunningOn(m.from, m.work, m.token) /\ ApplyReport(m)
            <4>1. m.work \in Jobs /\ status[m.work] = "running"
                BY <3>2 DEF ApplyReport, IsBackup, RunningOn
            <4> QED BY <3>2, <4>1, AcceptedReportSettles DEF ApplyReport, IInv, TypeOK,
                    AgentInv, ClaimsAreCopies
        <3> QED BY <1>14, <3>1, <3>2 DEF HandleReport, ApplyRestoreReport
    <2>4. ClaimsAreCopies'
        BY <2>2, <2>3 DEF IInv, AgentInv, ClaimsAreCopies
    <2>5. AssignmentsAreWhole'
        BY <2>2 DEF IInv, AgentInv, AssignmentsAreWhole
    <2>6. TokensAreApart'
        BY <2>2 DEF IInv, AgentInv, TokensAreApart
    <2> QED BY <1>14, <2>4, <2>5, <2>6, ReportKeepsRows DEF AgentInv
<1>15. ASSUME NEW m \in reports, ReportLost(m) PROVE RowInv' /\ AgentInv'
    <2>1. UNCHANGED <<rows, agent, copies, claimToken, targets>> /\ reports' \subseteq reports
        BY <1>15 DEF ReportLost, rows
    <2>2. AgentInv'
        BY <2>1 DEF IInv, AgentInv, AssignmentsAreWhole, ClaimsAreCopies, TokensAreApart
    <2> QED BY <2>1, <2>2, RowsKept DEF IInv
<1>16. CASE UNCHANGED vars
    <2>1. UNCHANGED <<rows, agent, reports, copies, claimToken, targets>>
        BY <1>16 DEF vars, rows
    <2> QED BY <2>1, RowsKept, AgentsKept DEF IInv
<1>17. ASSUME NEW s \in Servers, Progress(s) PROVE RowInv' /\ AgentInv'
    BY <1>5, <1>6, <1>17, WorkAssumption DEF Progress, ReportStagingError, ReportBackup,
        ReportRestore, IsBackup, IsRestore
<1> QED BY <1>1, <1>2, <1>3, <1>4, <1>7, <1>8, <1>9, <1>10, <1>12, <1>13, <1>14, <1>15,
        <1>16, <1>17 DEF Next

(* The invariant of the fleet's queue.                                      *)
THEOREM Invariance == Spec => []IInv
<1>1. Init => IInv
    BY InitIInv
<1>2. IInv /\ [Next]_vars => IInv'
    BY StepIInv
<1> QED BY <1>1, <1>2, PTL DEF Spec

-----------------------------------------------------------------------------
(* What follows from it.                                                    *)

(* The tables, the agents and the messages keep their types.                *)
THEOREM TypeCorrect == Spec => []TypeOK
BY Invariance, PTL DEF IInv

(* No report and no reclaim leaves a running job that nothing will ever     *)
(* take back.                                                               *)
THEOREM NoStrandedRun == Spec => []RunningIsLeased
BY Invariance, PTL DEF IInv, RowInv

(* A restore that overwrites a live account is handed out once at most,     *)
(* whatever is lost and whoever dies.                                       *)
THEOREM DestructiveOnce == Spec => []DestructiveRestoreRunsOnce
BY Invariance, PTL DEF IInv, RowInv

(* The oldest pending job can always be claimed: a reclaimed job comes back *)
(* with all of its repositories to write.                                   *)
THEOREM QueueNeverWedges == Spec => []QueueHeadIsClaimable
<1>1. IInv => QueueHeadIsClaimable
    BY DEF IInv, TypeOK, RowInv, QueueHeadIsClaimable, OpenIsUntouched, CreatedHasRepositories,
        Outstanding, FreshTarget, Work
<1> QED BY <1>1, Invariance, PTL

(* A job is only called a success when the copies are there.                *)
THEOREM NoFalseSuccess == Spec => []SuccessHasCopies
<1>1. IInv => SuccessHasCopies
    <2> SUFFICES ASSUME IInv, NEW j \in Jobs, status[j] \in {"success", "partial_success"}
                 PROVE  /\ status[j] = "success" =>
                             \A r \in RepositoriesFor(j) : <<j, r>> \in copies
                        /\ status[j] = "partial_success" =>
                             \E r \in RepositoriesFor(j) : <<j, r>> \in copies
        BY DEF SuccessHasCopies
    <2>1. /\ targets[j] \in [RepositoriesFor(j) -> TargetResult]
          /\ status[j] = Rollup(targets[j])
          /\ \A r \in RepositoriesFor(j) : targets[j][r].status \in {"success", "failed"}
          /\ \A r \in RepositoriesFor(j) :
                targets[j][r].status = "success" => <<j, r>> \in copies
        BY DEF IInv, TypeOK, RowInv, ClosedIsRolledUp, AgentInv, ClaimsAreCopies
    <2>2. status[j] = "success" => \A r \in RepositoriesFor(j) : targets[j][r].status = "success"
        BY <2>1 DEF Rollup, Failed
    <2>3. \E r \in RepositoriesFor(j) : targets[j][r].status = "success"
        BY <2>1 DEF Rollup, Succeeded
    <2> QED BY <2>1, <2>2, <2>3
<1> QED BY <1>1, Invariance, PTL

(* A report of an attempt that lost its lease never closes the job under    *)
(* the attempt that holds it now.                                           *)
THEOREM NotClosedUnderHolder == Spec => NotClosedUnderItsHolder
<1> DEFINE Kept == \A j \in Jobs : status[j] = "running" /\ status'[j] # "running" =>
          \/ lease[j] = "expired"
          \/ ~ \E s \in Servers : agent[s].work = j /\ agent[s].token = claimToken[j]
<1>1. ASSUME IInv, [Next]_vars PROVE Kept
    <2> SUFFICES ASSUME NEW j \in Jobs, status[j] = "running", status'[j] # "running",
                        lease[j] # "expired"
                 PROVE  ~ \E s \in Servers : agent[s].work = j /\ agent[s].token = claimToken[j]
        OBVIOUS
    <2>0. j \in Work /\ status \in [Work -> Status \cup {"absent"}]
        BY <1>1 DEF Work, IInv, TypeOK
    <2>1. ~ \E k \in Jobs : CreateJob(k)
        BY <2>0 DEF CreateJob
    <2>2. ~ \E r \in Restores : CreateRestore(r)
        BY <2>0, WorkAssumption DEF CreateRestore
    <2>3. ASSUME NEW s \in Servers, NEW t, NEW w \in Work, NextWork(s, t, w) PROVE FALSE
        BY <1>1, <2>0, <2>3, ClaimedIsWork DEF IInv, Lease
    <2>4. \A s \in Servers : ~ Poll(s) /\ ~ PollAnswerLost(s)
        BY <2>3 DEF Poll, PollAnswerLost
    <2>5. ~ UNCHANGED status
        OBVIOUS
    <2>6. \A s \in Servers : ~ Progress(s) /\ ~ WorkOutlastsMinute(s) /\ ~ RenewLease(s)
                             /\ ~ Stop(s) /\ ~ Crash(s)
        BY <2>5 DEF Progress, BackupTarget, ReportStagingError, ReportBackup, ReportRestore,
            Send, WorkOutlastsMinute, RenewLease, Stop, Crash, rows
    <2>7. \A w \in Work : ~ LeaseRunsOut(w)
        BY <2>5 DEF LeaseRunsOut
    <2>8. ~ ReclaimExpiredLeases /\ ~ ReclaimExpiredRestoreLeases
        BY <2>0, WorkAssumption DEF ReclaimExpiredLeases, ReclaimExpiredRestoreLeases, TakeBack, Lapsed
    <2>9. PICK m \in reports : HandleReport(m)
        BY <1>1, <2>1, <2>2, <2>4, <2>5, <2>6, <2>7, <2>8 DEF Next, vars, rows, ReportLost
    <2>10. m.work = j /\ m.token = claimToken[j]
        BY <2>0, <2>5, <2>9 DEF HandleReport, ApplyReport, ApplyRestoreReport, Close, RunningOn
    <2> QED BY <1>1, <2>10 DEF IInv, AgentInv, TokensAreApart
<1>2. IInv /\ [Next]_vars => [Kept]_vars
    BY <1>1
<1> QED BY <1>2, Invariance, PTL DEF Spec, NotClosedUnderItsHolder

-----------------------------------------------------------------------------
(* The tables implement the abstract queue.                                 *)

(* A claim is the abstract queue's Acquire.                                 *)
LEMMA ClaimIsAcquire ==
    ASSUME IInv, NEW s \in Servers, NEW t \in FreshTokens, NEW w \in Work, NextWork(s, t, w)
    PROVE  Queue!Acquire(w, t)
<1>1. Lease(w, t) /\ status[w] = "pending"
    BY ClaimedIsWork DEF IInv
<1>2. w \in Applies => ~ started[w]
    BY <1>1 DEF IInv, RowInv, DestructiveRestoreRunsOnce
<1>3. \A v \in Work : claimToken[v] # t
    BY DEF FreshTokens, TokensInUse
<1>4. [v \in Work |-> PhaseOf(status'[v])] =
        [[v \in Work |-> PhaseOf(status[v])] EXCEPT ![w] = "held"]
    BY <1>1 DEF Lease, PhaseOf, IInv, TypeOK
<1> QED BY <1>1, <1>2, <1>3, <1>4 DEF Queue!Acquire, Lease, PhaseOf

(* Queueing a row is its Submit.                                            *)
LEMMA CreateIsSubmit ==
    ASSUME IInv, NEW w \in Work, status[w] = "absent",
           status' = [status EXCEPT ![w] = "pending"], UNCHANGED <<claimToken, started>>
    PROVE  Queue!Submit(w)
<1>1. [v \in Work |-> PhaseOf(status'[v])] =
        [[v \in Work |-> PhaseOf(status[v])] EXCEPT ![w] = "queued"]
    BY DEF PhaseOf, IInv, TypeOK
<1> QED BY <1>1 DEF Queue!Submit, PhaseOf

(* Reclaiming is its Revoke.                                                *)
LEMMA TakeBackIsRevoke ==
    ASSUME IInv, NEW S \in SUBSET Work, NEW T \in SUBSET Work, TakeBack(S, T),
           S \cup T # {}, \A w \in S \cup T : status[w] = "running",
           S \cap Applies = {}, T \subseteq Applies
    PROVE  Queue!Revoke(S \cup T)
<1>1. [v \in Work |-> PhaseOf(status'[v])] =
        [w \in Work |-> IF w \notin S \cup T THEN [v \in Work |-> PhaseOf(status[v])][w]
                        ELSE IF w \in Applies THEN "closed" ELSE "queued"]
    BY DEF TakeBack, PhaseOf, IInv, TypeOK
<1>2. \A w \in S \cup T : [v \in Work |-> PhaseOf(status[v])][w] = "held"
    BY DEF PhaseOf
<1> QED BY <1>1, <1>2 DEF Queue!Revoke, TakeBack

(* An accepted report is its Complete.                                      *)
LEMMA CloseIsComplete ==
    ASSUME IInv, NEW w \in Work, status[w] = "running",
           NEW outcome \in {"success", "partial_success", "failed"}, Close(w, outcome),
           UNCHANGED started
    PROVE  Queue!Complete(w)
<1>1. [v \in Work |-> PhaseOf(status'[v])] =
        [[v \in Work |-> PhaseOf(status[v])] EXCEPT ![w] = "closed"]
    BY DEF Close, PhaseOf, IInv, TypeOK
<1> QED BY <1>1 DEF Queue!Complete, Close, PhaseOf

(* Every step is a step of the abstract queue or leaves it alone.           *)
LEMMA StepSimulates == IInv /\ [Next]_vars => [Queue!Next]_(Queue!vars)
<1> SUFFICES ASSUME IInv, [Next]_vars PROVE [Queue!Next]_(Queue!vars)
    OBVIOUS
<1>1. CASE UNCHANGED <<status, claimToken, started>>
    BY <1>1 DEF Queue!vars
<1>2. ASSUME NEW j \in Jobs, CreateJob(j) PROVE Queue!Next
    BY <1>2, CreateIsSubmit DEF CreateJob, Queue!Next, Work
<1>3. ASSUME NEW r \in Restores, CreateRestore(r) PROVE Queue!Next
    BY <1>3, CreateIsSubmit DEF CreateRestore, Queue!Next, Work
<1>4. ASSUME NEW s \in Servers, Poll(s) \/ PollAnswerLost(s) PROVE Queue!Next
    <2>1. PICK t \in FreshTokens, w \in Work : NextWork(s, t, w)
        BY <1>4 DEF Poll, PollAnswerLost
    <2> QED BY <2>1, ClaimIsAcquire DEF Queue!Next, FreshTokens
<1>5. ASSUME NEW s \in Servers, Progress(s) \/ WorkOutlastsMinute(s) \/ RenewLease(s)
                                 \/ Stop(s) \/ Crash(s)
      PROVE UNCHANGED <<status, claimToken, started>>
    BY <1>5 DEF Progress, BackupTarget, ReportStagingError, ReportBackup, ReportRestore,
        Send, WorkOutlastsMinute, RenewLease, Stop, Crash, rows
<1>6. ASSUME NEW w \in Work, LeaseRunsOut(w) PROVE UNCHANGED <<status, claimToken, started>>
    BY <1>6 DEF LeaseRunsOut
<1>7. CASE ReclaimExpiredLeases
    <2> DEFINE S == Lapsed(Jobs)
    <2>1. /\ S \in SUBSET Work /\ TakeBack(S, {}) /\ S \cup {} # {}
          /\ \A w \in S \cup {} : status[w] = "running"
          /\ S \cap Applies = {}
        BY <1>7, WorkAssumption DEF ReclaimExpiredLeases, Lapsed, Work
    <2> HIDE DEF S
    <2>2. Queue!Revoke(S \cup {})
        BY <2>1, TakeBackIsRevoke
    <2> QED BY <2>1, <2>2 DEF Queue!Next
<1>8. CASE ReclaimExpiredRestoreLeases
    <2> DEFINE S == Lapsed(Restores \ Applies)
               T == Lapsed(Applies)
    <2>1. /\ S \in SUBSET Work /\ T \in SUBSET Work /\ TakeBack(S, T) /\ S \cup T # {}
          /\ \A w \in S \cup T : status[w] = "running"
          /\ S \cap Applies = {} /\ T \subseteq Applies
        BY <1>8, WorkAssumption DEF ReclaimExpiredRestoreLeases, Lapsed, Work
    <2> HIDE DEF S, T
    <2>2. Queue!Revoke(S \cup T)
        BY <2>1, TakeBackIsRevoke
    <2> QED BY <2>1, <2>2 DEF Queue!Next
<1>9. ASSUME NEW m \in reports, HandleReport(m) PROVE [Queue!Next]_(Queue!vars)
    <2>1. m.work \in Work /\ UNCHANGED started
        BY <1>9 DEF IInv, TypeOK, Reports, HandleReport
    <2>2. CASE ~ RunningOn(m.from, m.work, m.token)
        BY <1>1, <1>9, <2>2 DEF HandleReport
    <2>3. CASE RunningOn(m.from, m.work, m.token) /\ ApplyReport(m)
        <3>1. m.work \in Jobs /\ status[m.work] = "running" /\ Close(m.work, Rollup(Recorded(m)))
            BY <2>3 DEF ApplyReport, IsBackup, RunningOn
        <3>2. Rollup(Recorded(m)) \in {"success", "partial_success", "failed"}
            BY <3>1, AcceptedReportSettles
        <3> QED BY <2>1, <3>1, <3>2, CloseIsComplete DEF Queue!Next
    <2>4. CASE RunningOn(m.from, m.work, m.token) /\ ApplyRestoreReport(m)
        <3>1. PICK outcome \in {"success", "failed"} :
                status[m.work] = "running" /\ Close(m.work, outcome)
            BY <2>4 DEF ApplyRestoreReport, RunningOn
        <3> QED BY <2>1, <3>1, CloseIsComplete DEF Queue!Next
    <2> QED BY <1>9, <2>2, <2>3, <2>4 DEF HandleReport
<1>10. ASSUME NEW m \in reports, ReportLost(m) PROVE UNCHANGED <<status, claimToken, started>>
    BY <1>10 DEF ReportLost, rows
<1>11. CASE UNCHANGED vars
    BY <1>1, <1>11 DEF vars, rows
<1> QED BY <1>1, <1>2, <1>3, <1>4, <1>5, <1>6, <1>7, <1>8, <1>9, <1>10, <1>11 DEF Next

(* The fleet's queue implements the abstract one: held by one claim at a    *)
(* time, closed for good, and destructive work never handed out twice.      *)
THEOREM Refinement == Spec => ImplementsWorkQueue
<1>1. Init => Queue!Init
    BY DEF Init, Queue!Init, PhaseOf
<1>2. IInv /\ [Next]_vars => [Queue!Next]_(Queue!vars)
    BY StepSimulates
<1> QED BY <1>1, <1>2, Invariance, PTL DEF Spec, ImplementsWorkQueue, Queue!Spec

-----------------------------------------------------------------------------
(* Scheduler, operators and agents together implement the queue, and no     *)
(* slot queues an account twice.                                            *)

\* A step that leaves every variable of the queue alone stutters there
LEMMA QueueStutters ==
  ASSUME UNCHANGED queueVars
  PROVE  UNCHANGED vars
BY DEF queueVars, vars, rows

\* The queue's part of every step of the composition is a step of FleetQueue,
\* or none.
LEMMA StepIsQueueStep == ScheduleNext => [Next]_vars
<1>1. CASE Tick
  <2>1. ASSUME BeginTick PROVE [Next]_vars
    BY <2>1, QueueStutters DEF BeginTick, Next
  <2>2. ASSUME ListPolicies PROVE [Next]_vars
    BY <2>2, QueueStutters DEF ListPolicies, Next
  <2>3. ASSUME EndPolicy \/ EndTick PROVE [Next]_vars
    BY <2>3, QueueStutters DEF EndPolicy, EndTick
  <2>4. ASSUME NEW p \in Policies, RunPolicy(p) PROVE [Next]_vars
    BY <2>4, QueueStutters DEF RunPolicy
  <2>5. ASSUME NEW a \in Accounts, QueueJob(a) PROVE [Next]_vars
    <3>1. PICK j \in OfPolicy(a) : CreateJob(j) \/ UNCHANGED queueVars
      BY <2>5 DEF QueueJob
    <3>2. j \in Jobs
      BY DEF OfPolicy
    <3>. QED  BY <3>1, <3>2, QueueStutters DEF Next
  <2>6. ASSUME NEW a \in Accounts, QueueFails(a) PROVE [Next]_vars
    BY <2>6, QueueStutters DEF QueueFails, Outage
  <2>. QED  BY <1>1, <2>1, <2>2, <2>3, <2>4, <2>5, <2>6 DEF Tick
<1>2. CASE TickFails \/ ControllerRestarts
  BY <1>2, QueueStutters DEF TickFails, ControllerRestarts, Outage
<1>3. ASSUME NEW p \in Policies, SlotArrives(p) \/ PolicyFails(p) PROVE [Next]_vars
  BY <1>3, QueueStutters DEF SlotArrives, PolicyFails, Outage
<1>4. CASE Operator
  BY <1>4, QueueStutters DEF Operator, Attach, AskForRestore, Next
<1>5. ASSUME NEW r \in Repos, Provision(r) PROVE [Next]_vars
  BY <1>5, QueueStutters DEF Provision
<1>6. ASSUME NEW s \in Servers, NextJob(s) \/ AgentWorks(s) \/ Heartbeat(s) \/ Outlasts(s)
      PROVE [Next]_vars
  <2>1. ASSUME AgentWorks(s) PROVE Progress(s)
    BY <2>1 DEF AgentWorks, Upload, Report, Progress
  <2>. QED  BY <1>6, <2>1 DEF NextJob, Heartbeat, Outlasts, Next
<1>7. CASE HandleReports \/ ReportsLost
  BY <1>7 DEF HandleReports, ReportsLost, Next
<1>8. ASSUME NEW w \in Work, LeasesRunOut(w) PROVE [Next]_vars
  BY <1>8 DEF LeasesRunOut, Next
<1>. QED  BY <1>1, <1>2, <1>3, <1>4, <1>5, <1>6, <1>7, <1>8 DEF ScheduleNext

\* Every behaviour of scheduler, operators and agents together is a behaviour
\* of the queue, so what is proved above of the queue holds of them.
THEOREM ComposesToQueue == ScheduleSpec => IsFleetQueue
<1>1. ScheduleInit => Init
  BY DEF ScheduleInit
<1>2. [ScheduleNext]_allVars => [Next]_vars
  <2>1. ASSUME UNCHANGED allVars PROVE UNCHANGED vars
    BY <2>1 DEF allVars, queueVars, vars, rows
  <2>. QED  BY <2>1, StepIsQueueStep
<1>. QED  BY <1>1, <1>2, PTL DEF ScheduleSpec, IsFleetQueue, Spec

-----------------------------------------------------------------------------
\* What the scheduler has in its hands

\* A slot number is used once: one that is due is on no job, and one that is
\* being fired is on no job of the accounts still to be queued.
FreshSlots ==
  /\ slots \in Nat /\ due \in [Policies -> 0..slots]
  /\ answers \in [Jobs -> SUBSET (0..slots)]
  /\ \A j \in Jobs : due[PolicyOf[j]] # 0 => due[PolicyOf[j]] \notin answers[j]
  /\ members \in [Policies -> SUBSET Accounts]
  /\ ctl \in [at : {"sleep", "restores", "look", "fire"}, todo : SUBSET Policies,
             policy : Policies \cup {NoPolicy}, slot : Nat, firing : SUBSET Accounts]
  /\ ctl.slot <= slots
  /\ ctl.at = "fire" =>
       /\ ctl.policy \in Policies /\ ctl.slot # 0
       /\ due[ctl.policy] = 0 \/ due[ctl.policy] > ctl.slot
       /\ \A a \in ctl.firing : \A j \in OfPolicy(a) : ctl.slot \notin answers[j]

ScheduleInv == FreshSlots /\ OncePerSlot

LEMMA ScheduleInitEstablishes == ScheduleInit => ScheduleInv
BY DEF ScheduleInit, ScheduleInv, FreshSlots, OncePerSlot, Sleeping

LEMMA ScheduleStepPreserves == ScheduleInv /\ [ScheduleNext]_allVars => ScheduleInv'
<1>. SUFFICES ASSUME ScheduleInv, [ScheduleNext]_allVars PROVE ScheduleInv'
  OBVIOUS
<1>. USE TablesAssumption DEF ScheduleInv
\* the steps that touch nothing of it but where the tick is
<1>1. ASSUME UNCHANGED <<members, due, slots, answers>>,
             \/ UNCHANGED ctl
             \/ ctl' = Sleeping
             \/ \E at \in {"restores", "look"}, todo \in SUBSET Policies :
                  ctl' = [ctl EXCEPT !.at = at, !.todo = todo]
             \/ ctl' = [ctl EXCEPT !.at = "look", !.policy = NoPolicy, !.slot = 0]
      PROVE  ScheduleInv'
  <2>1. OncePerSlot'
    BY <1>1 DEF OncePerSlot
  <2>2. CASE UNCHANGED ctl
    BY <1>1, <2>1, <2>2 DEF FreshSlots, OfPolicy
  <2>3. CASE ctl' = Sleeping
    BY <1>1, <2>1, <2>3 DEF FreshSlots, Sleeping
  <2>4. ASSUME NEW at \in {"restores", "look"}, NEW todo \in SUBSET Policies,
               ctl' = [ctl EXCEPT !.at = at, !.todo = todo]
        PROVE  ScheduleInv'
    <3>1. ctl'.at # "fire" /\ ctl'.slot = ctl.slot
      BY <2>4 DEF FreshSlots
    <3>. QED  BY <1>1, <2>1, <2>4, <3>1 DEF FreshSlots
  <2>5. CASE ctl' = [ctl EXCEPT !.at = "look", !.policy = NoPolicy, !.slot = 0]
    <3>1. ctl'.at # "fire" /\ ctl'.slot = 0
      BY <2>5 DEF FreshSlots
    <3>2. ctl' \in [at : {"sleep", "restores", "look", "fire"}, todo : SUBSET Policies,
                    policy : Policies \cup {NoPolicy}, slot : Nat, firing : SUBSET Accounts]
      BY <2>5 DEF FreshSlots
    <3>3. UNCHANGED <<members, due, slots, answers>>
      BY <1>1
    <3>4. slots' \in Nat /\ ctl'.slot <= slots'
      BY <3>1, <3>3 DEF FreshSlots
    <3>5. FreshSlots'
      BY <3>1, <3>2, <3>3, <3>4 DEF FreshSlots
    <3>. QED  BY <2>1, <3>5
  <2>. QED  BY <1>1, <2>2, <2>3, <2>4, <2>5
<1>2. CASE UNCHANGED allVars
  BY <1>1, <1>2 DEF allVars, scheduleVars
<1>3. CASE BeginTick
  <2>1. ctl' = [ctl EXCEPT !.at = "restores", !.todo = ctl.todo]
    BY <1>3 DEF BeginTick, FreshSlots
  <2>. QED  BY <1>1, <1>3, <2>1 DEF BeginTick, tables, FreshSlots
<1>4. CASE ListPolicies
  BY <1>1, <1>4 DEF ListPolicies, tables
<1>5. CASE TickFails \/ EndTick
  BY <1>1, <1>5 DEF TickFails, EndTick, tables
<1>6. CASE EndPolicy
  BY <1>1, <1>6 DEF EndPolicy, tables
<1>7. ASSUME NEW p \in Policies, PolicyFails(p) PROVE ScheduleInv'
  <2>1. ctl' = [ctl EXCEPT !.at = "look", !.todo = ctl.todo \ {p}]
    BY <1>7 DEF PolicyFails, FreshSlots
  <2>. QED  BY <1>1, <1>7, <2>1 DEF PolicyFails, tables, FreshSlots
<1>8. ASSUME NEW p \in Policies, SlotArrives(p) PROVE ScheduleInv'
  <2>1. slots' = slots + 1 /\ due' = [due EXCEPT ![p] = slots + 1]
        /\ UNCHANGED <<ctl, answers, members>>
    BY <1>8 DEF SlotArrives
  <2>2. \A j \in Jobs : slots + 1 \notin answers[j]
    BY DEF FreshSlots
  <2>3. OncePerSlot'
    BY <2>1 DEF OncePerSlot
  <2>. QED  BY <2>1, <2>2, <2>3 DEF FreshSlots, OfPolicy
<1>9. ASSUME NEW p \in Policies, RunPolicy(p) PROVE ScheduleInv'
  <2>1. /\ ctl' = [ctl EXCEPT !.todo = @ \ {p}, !.at = IF due[p] = 0 THEN "look" ELSE "fire",
                            !.policy = p, !.slot = due[p],
                            !.firing = IF due[p] = 0 THEN {} ELSE members[p]]
        /\ due' = [due EXCEPT ![p] = 0] /\ UNCHANGED <<members, slots, answers>>
    BY <1>9 DEF RunPolicy
  <2>2. OncePerSlot'
    BY <2>1 DEF OncePerSlot
  <2>3. \A a : \A j \in OfPolicy(a)' : j \in Jobs /\ PolicyOf[j] = p
    BY <2>1 DEF OfPolicy, FreshSlots
  <2>4. ctl' \in [at : {"sleep", "restores", "look", "fire"}, todo : SUBSET Policies,
                  policy : Policies \cup {NoPolicy}, slot : Nat, firing : SUBSET Accounts]
    <3>1. due[p] \in Nat /\ members[p] \in SUBSET Accounts
      BY DEF FreshSlots
    <3>. QED  BY <2>1, <3>1 DEF FreshSlots
  <2>5. due' \in [Policies -> 0..slots] /\ ctl'.slot <= slots
    BY <2>1 DEF FreshSlots
  <2>6. \A j \in Jobs : due'[PolicyOf[j]] # 0 => due'[PolicyOf[j]] \notin answers[j]
    BY <2>1 DEF FreshSlots
  <2>7. ctl'.at = "fire" =>
          /\ ctl'.policy = p /\ ctl'.slot # 0 /\ ctl'.slot = due[p] /\ due'[p] = 0
    BY <2>1 DEF FreshSlots
  <2>8. ctl'.at = "fire" =>
          \A a \in ctl'.firing : \A j \in OfPolicy(a)' : ctl'.slot \notin answers[j]
    BY <2>3, <2>7 DEF FreshSlots
  <2>9. FreshSlots'
    BY <2>1, <2>4, <2>5, <2>6, <2>7, <2>8 DEF FreshSlots
  <2>. QED  BY <2>2, <2>9
<1>10. ASSUME NEW a \in Accounts, QueueJob(a) PROVE ScheduleInv'
  <2>1. PICK k \in OfPolicy(a) : answers' = [answers EXCEPT ![k] = @ \cup {ctl.slot}]
    BY <1>10 DEF QueueJob
  <2>2. /\ ctl.at = "fire" /\ a \in ctl.firing
        /\ ctl' = [ctl EXCEPT !.firing = @ \ {a}]
        /\ UNCHANGED <<members, due, slots>>
    BY <1>10 DEF QueueJob
  <2>3. k \in Jobs /\ AccountOf[k] = a /\ PolicyOf[k] = ctl.policy
    BY DEF OfPolicy
  <2>4. \A j \in Jobs : AccountOf[j] = a /\ PolicyOf[j] = ctl.policy
                          => ctl.slot \notin answers[j]
    BY <2>2 DEF FreshSlots, OfPolicy
  <2>5. OncePerSlot'
    BY <2>1, <2>3, <2>4 DEF OncePerSlot, FreshSlots
  <2>6. \A b : OfPolicy(b)' = OfPolicy(b)
    BY <2>2 DEF OfPolicy, FreshSlots
  <2>. QED  BY <2>1, <2>2, <2>3, <2>5, <2>6 DEF FreshSlots, OfPolicy
<1>11. ASSUME NEW a \in Accounts, QueueFails(a) PROVE ScheduleInv'
  <2>1. /\ ctl' = [ctl EXCEPT !.firing = @ \ {a}]
        /\ UNCHANGED <<members, due, slots, answers>>
    BY <1>11 DEF QueueFails
  <2>. QED  BY <2>1 DEF FreshSlots, OncePerSlot, OfPolicy
<1>12. CASE ControllerRestarts
  <2>1. PICK late \in SUBSET Policies :
          due' = [p \in Policies |-> IF p \in late THEN 0 ELSE due[p]]
    BY <1>12 DEF ControllerRestarts
  <2>2. ctl' = Sleeping /\ UNCHANGED <<members, slots, answers>>
    BY <1>12 DEF ControllerRestarts
  <2>. QED  BY <2>1, <2>2 DEF FreshSlots, OncePerSlot, Sleeping
<1>13. ASSUME NEW p \in Policies, NEW a \in Accounts, Attach(p, a) PROVE ScheduleInv'
  BY <1>13 DEF Attach, FreshSlots, OncePerSlot, OfPolicy
<1>15. CASE (\E r \in Restores : AskForRestore(r)) \/ \E r \in Repos : Provision(r)
  BY <1>1, <1>15 DEF AskForRestore, Provision, tables, scheduleVars
<1>14. CASE \/ \E s \in Servers : NextJob(s) \/ AgentWorks(s) \/ Heartbeat(s) \/ Outlasts(s)
            \/ HandleReports \/ ReportsLost
            \/ \E w \in Work : LeasesRunOut(w)
  BY <1>1, <1>14 DEF NextJob, AgentWorks, Upload, Report, Heartbeat, Outlasts, HandleReports,
                     ReportsLost, LeasesRunOut, scheduleVars
<1>. QED  BY <1>2, <1>3, <1>4, <1>5, <1>6, <1>7, <1>8, <1>9, <1>10, <1>11, <1>12,
             <1>13, <1>14, <1>15 DEF ScheduleNext, Tick, Operator

\* No slot queues an account twice, whatever fails and whenever the controller
\* is restarted.
THEOREM EachSlotOnce == ScheduleSpec => []OncePerSlot
<1>1. ScheduleInv => OncePerSlot
  BY DEF ScheduleInv
<1>. QED  BY <1>1, ScheduleInitEstablishes, ScheduleStepPreserves, PTL DEF ScheduleSpec

-----------------------------------------------------------------------------
(* The claims of one server, statement by statement.                        *)

CONSTANTS Requests, NoJob, CreatedAt, Limit, MaxReclaims
VARIABLES committed, tx, holders, reclaims

Claims == INSTANCE ClaimRace WITH status <- committed, MaxConcurrency <- Limit

(* Every statement of a claim, a report and a reclaim preserve Claims!ClaimInv.    *)
LEMMA ClaimStep ==
    ASSUME NoJob \notin Jobs, Claims!ClaimInv, [Claims!Next]_(Claims!vars)
    PROVE  Claims!ClaimInv'
<1> USE DEF Claims!ClaimInv, Claims!RowTypes, Claims!LockedIsPending, Claims!HeldIsRunning, Claims!OneLock, Claims!OneHolder
<1>1. ASSUME NEW c \in Requests, Claims!CountRunning(c) PROVE Claims!ClaimInv'
  BY <1>1 DEF Claims!CountRunning, Claims!Transactions, Claims!NoRows
<1>2. ASSUME NEW c \in Requests, Claims!BeginUpdate(c) PROVE Claims!ClaimInv'
  BY <1>2 DEF Claims!BeginUpdate, Claims!Transactions
<1>3. ASSUME NEW c \in Requests, Claims!LockRow(c) PROVE Claims!ClaimInv'
  <2>1. ASSUME NEW j \in Claims!Candidates(tx[c].sees),
               tx' = [tx EXCEPT ![c] = [at |-> "updated", sees |-> Claims!NoRows, job |-> j]],
               UNCHANGED <<committed, holders, reclaims>>
        PROVE  Claims!ClaimInv'
    BY <2>1 DEF Claims!Candidates, Claims!Locked, Claims!Transactions, Claims!NoRows
  <2>2. ASSUME tx' = [tx EXCEPT ![c] = Claims!NoTx], UNCHANGED <<committed, holders, reclaims>>
        PROVE  Claims!ClaimInv'
    BY <2>2 DEF Claims!Transactions, Claims!NoRows, Claims!NoTx
  <2> QED
    BY <1>3, <2>1, <2>2 DEF Claims!LockRow
<1>4. ASSUME NEW c \in Requests, Claims!Commit(c) PROVE Claims!ClaimInv'
  <2> DEFINE j == tx[c].job
  <2>1. /\ tx[c] \in Claims!Transactions /\ j \in Jobs /\ committed[j] = "pending" /\ holders[j] = {}
        /\ committed' = [committed EXCEPT ![j] = "running"]
        /\ holders' = [holders EXCEPT ![j] = {c}]
        /\ tx' = [tx EXCEPT ![c] = Claims!NoTx]
    BY <1>4 DEF Claims!Commit, Claims!Transactions
  <2>2. Claims!RowTypes' /\ Claims!OneLock'
    BY <2>1 DEF Claims!Transactions, Claims!NoRows, Claims!NoTx
  <2>3. Claims!LockedIsPending'
    BY <2>1 DEF Claims!Transactions, Claims!NoTx
  <2>4. Claims!HeldIsRunning' /\ Claims!OneHolder'
    BY <2>1
  <2> QED
    BY <2>2, <2>3, <2>4
<1>5. ASSUME NEW c \in Requests, Claims!Rollback(c) PROVE Claims!ClaimInv'
  BY <1>5 DEF Claims!Rollback, Claims!Transactions, Claims!NoRows, Claims!NoTx
<1>6. ASSUME NEW j \in Jobs, Claims!ApplyReport(j) PROVE Claims!ClaimInv'
  BY <1>6 DEF Claims!ApplyReport, Claims!Transactions
<1>7. ASSUME NEW j \in Jobs, Claims!ReclaimExpiredLeases(j) PROVE Claims!ClaimInv'
  BY <1>7 DEF Claims!ReclaimExpiredLeases, Claims!Transactions
<1>8. CASE UNCHANGED Claims!vars
  BY <1>8 DEF Claims!vars
<1> QED
  BY <1>1, <1>2, <1>3, <1>4, <1>5, <1>6, <1>7, <1>8 DEF Claims!Next

(* However many claims overlap, on however many jobs, no job is handed to   *)
(* two requests: FOR UPDATE SKIP LOCKED in ClaimNextJob.                    *)
THEOREM HandedToOneAlways ==
    ASSUME NoJob \notin Jobs
    PROVE  Claims!Spec => []Claims!HandedToOne
<1>1. Claims!Init => Claims!ClaimInv
  BY DEF Claims!Init, Claims!ClaimInv, Claims!RowTypes, Claims!LockedIsPending, Claims!HeldIsRunning, Claims!OneLock, Claims!OneHolder,
         Claims!Transactions, Claims!NoTx, Claims!NoRows
<1>2. Claims!ClaimInv /\ [Claims!Next]_(Claims!vars) => Claims!ClaimInv'
  BY ClaimStep
<1>3. Claims!ClaimInv => Claims!HandedToOne
  BY DEF Claims!ClaimInv, Claims!RowTypes, Claims!LockedIsPending, Claims!HeldIsRunning, Claims!OneLock, Claims!OneHolder, Claims!HandedToOne
<1> QED
  BY <1>1, <1>2, <1>3, PTL DEF Claims!Spec

(* ClaimRace counts as this module does.                                    *)
LEMMA SameCardinality == \A S : Claims!Cardinality(S) = Cardinality(S)
BY DEF Claims!Cardinality, Cardinality

(* What is not running stays so: the claim that is open still sees all.     *)
LEMMA FewerRunning ==
    ASSUME IsFiniteSet(Jobs), Limit \in Nat, Claims!SerialInv, Claims!ClaimInv',
           Claims!Running(committed)' \subseteq Claims!Running(committed),
           \A c \in Requests :
              \/ tx'[c].at = "none"
              \/ tx'[c] = tx[c]
              \/ /\ tx'[c].at = "counted"
                 /\ Limit > 0 => Cardinality(Claims!Running(committed)) < Limit
              \/ /\ tx'[c].at = "selecting" /\ tx[c].at # "none"
                 /\ tx'[c].sees = committed
              \/ /\ tx'[c].at = "updated" /\ tx[c].at # "none"
                 /\ \A k \in Claims!Running(committed) : AccountOf[k] # AccountOf[tx'[c].job]
    PROVE  Claims!SerialInv'
<1>1. /\ IsFiniteSet(Claims!Running(committed))
      /\ Claims!Running(committed) \subseteq Jobs
    <2>1. Claims!Running(committed) \subseteq Jobs
        BY DEF Claims!Running
    <2> QED BY <2>1, FS_Subset
<1>2. /\ IsFiniteSet(Claims!Running(committed)')
      /\ Cardinality(Claims!Running(committed)') <= Cardinality(Claims!Running(committed))
    BY <1>1, FS_Subset
<1>3. /\ Cardinality(Claims!Running(committed)') \in Nat
      /\ Cardinality(Claims!Running(committed)) \in Nat
    BY <1>1, <1>2, FS_CardinalityType
<1>4. Claims!WithinLimit'
    BY <1>2, <1>3, SameCardinality DEF Claims!SerialInv, Claims!WithinLimit
<1>5. Claims!OneRunningPerAccount'
    BY DEF Claims!SerialInv, Claims!OneRunningPerAccount
<1>6. Claims!ClaimSeesAll'
    <2> SUFFICES ASSUME NEW c \in Requests
                 PROVE /\ tx'[c].at # "none" /\ Limit > 0 =>
                             Cardinality(Claims!Running(committed)') < Limit
                       /\ tx'[c].at = "selecting" =>
                             Claims!Running(committed)' \subseteq Claims!Running(tx'[c].sees)
                       /\ tx'[c].at = "updated" =>
                             \A k \in Claims!Running(committed)' :
                                AccountOf[k] # AccountOf[tx'[c].job]
        BY SameCardinality DEF Claims!ClaimSeesAll, Claims!Running
    <2>1. /\ tx[c].at # "none" /\ Limit > 0 =>
                Cardinality(Claims!Running(committed)) < Limit
          /\ tx[c].at = "selecting" =>
                Claims!Running(committed) \subseteq Claims!Running(tx[c].sees)
          /\ tx[c].at = "updated" =>
                \A k \in Claims!Running(committed) : AccountOf[k] # AccountOf[tx[c].job]
        BY SameCardinality DEF Claims!SerialInv, Claims!ClaimSeesAll
    <2>2. tx'[c].at # "none" /\ Limit > 0 => Cardinality(Claims!Running(committed)) < Limit
        BY <2>1
    <2>3. tx'[c].at # "none" /\ Limit > 0 => Cardinality(Claims!Running(committed)') < Limit
        BY <1>2, <1>3, <2>2
    <2>4. tx'[c].at = "selecting" =>
             Claims!Running(committed) \subseteq Claims!Running(tx'[c].sees)
        BY <2>1
    <2>5. tx'[c].at = "updated" =>
             \A k \in Claims!Running(committed) : AccountOf[k] # AccountOf[tx'[c].job]
        BY <2>1
    <2> QED BY <2>3, <2>4, <2>5
<1> QED BY <1>4, <1>5, <1>6 DEF Claims!SerialInv

(* While one claim at a time is open, every statement keeps to the limit    *)
(* and to one backup of an account.                                         *)
LEMMA SerialStep ==
    ASSUME IsFiniteSet(Jobs), Limit \in Nat, NoJob \notin Jobs, Claims!OneClaimAtATime,
           Claims!SerialInv, [Claims!Next]_(Claims!vars)
    PROVE  Claims!SerialInv'
<1>0. Claims!ClaimInv /\ Claims!ClaimInv' /\ Claims!RowTypes
    BY ClaimStep DEF Claims!SerialInv, Claims!ClaimInv
<1>1. ASSUME NEW c \in Requests, Claims!CountRunning(c) PROVE Claims!SerialInv'
    <2>1. Limit > 0 => Cardinality(Claims!Running(committed)) < Limit
        <3>1. Claims!Running(committed) \subseteq Jobs
            BY DEF Claims!Running
        <3>2. Cardinality(Claims!Running(committed)) \in Nat
            BY <3>1, FS_Subset, FS_CardinalityType
        <3> QED BY <1>1, <3>2, SameCardinality DEF Claims!CountRunning
    <2>2. /\ Claims!Running(committed)' = Claims!Running(committed)
          /\ \A d \in Requests : tx'[d] = tx[d] \/ tx'[d].at = "counted"
        BY <1>0, <1>1 DEF Claims!CountRunning, Claims!RowTypes, Claims!Running
    <2> QED BY <1>0, <2>1, <2>2, FewerRunning
<1>2. ASSUME NEW c \in Requests, Claims!BeginUpdate(c) PROVE Claims!SerialInv'
    <2>1. /\ Claims!Running(committed)' = Claims!Running(committed)
          /\ \A d \in Requests :
                \/ tx'[d] = tx[d]
                \/ /\ tx'[d].at = "selecting" /\ tx[d].at # "none"
                   /\ tx'[d].sees = committed
        BY <1>0, <1>2 DEF Claims!BeginUpdate, Claims!RowTypes, Claims!Running
    <2> QED BY <1>0, <2>1, FewerRunning
<1>3. ASSUME NEW c \in Requests, Claims!LockRow(c) PROVE Claims!SerialInv'
    <2>0. Claims!Running(committed)' = Claims!Running(committed)
        BY <1>3 DEF Claims!LockRow, Claims!Running
    <2>1. ASSUME NEW j \in Claims!Candidates(tx[c].sees),
                 tx' = [tx EXCEPT ![c] = [at |-> "updated", sees |-> Claims!NoRows, job |-> j]]
          PROVE  Claims!SerialInv'
        <3>1. \A k \in Claims!Running(tx[c].sees) : AccountOf[k] # AccountOf[j]
            BY <2>1 DEF Claims!Candidates
        <3>2. Claims!Running(committed) \subseteq Claims!Running(tx[c].sees)
            BY <1>3 DEF Claims!SerialInv, Claims!ClaimSeesAll, Claims!LockRow
        <3>3. \A d \in Requests :
                \/ tx'[d] = tx[d]
                \/ /\ tx'[d].at = "updated" /\ tx[d].at # "none"
                   /\ \A k \in Claims!Running(committed) : AccountOf[k] # AccountOf[tx'[d].job]
            BY <1>0, <1>3, <2>1, <3>1, <3>2 DEF Claims!LockRow, Claims!RowTypes
        <3> QED BY <1>0, <2>0, <3>3, FewerRunning
    <2>2. ASSUME tx' = [tx EXCEPT ![c] = Claims!NoTx] PROVE Claims!SerialInv'
        <3>1. \A d \in Requests : tx'[d] = tx[d] \/ tx'[d].at = "none"
            BY <1>0, <2>2 DEF Claims!RowTypes, Claims!NoTx
        <3> QED BY <1>0, <2>0, <3>1, FewerRunning
    <2> QED BY <1>3, <2>1, <2>2 DEF Claims!LockRow
<1>4. ASSUME NEW c \in Requests, Claims!Commit(c) PROVE Claims!SerialInv'
    <2> DEFINE j == tx[c].job
    <2>1. /\ j \in Jobs /\ tx[c].at = "updated"
          /\ committed' = [committed EXCEPT ![j] = "running"]
          /\ \A d \in Requests : tx'[d].at = "none"
        BY <1>0, <1>4 DEF Claims!Commit, Claims!RowTypes, Claims!Transactions, Claims!NoTx,
            Claims!OneClaimAtATime
    <2>2. Claims!Running(committed)' = Claims!Running(committed) \cup {j}
        BY <1>0, <2>1 DEF Claims!Running, Claims!RowTypes
    <2>3. /\ \A k \in Claims!Running(committed) : AccountOf[k] # AccountOf[j]
          /\ Limit > 0 => Cardinality(Claims!Running(committed)) < Limit
        BY <2>1, SameCardinality DEF Claims!SerialInv, Claims!ClaimSeesAll
    <2>4. Claims!OneRunningPerAccount'
        BY <2>2, <2>3 DEF Claims!SerialInv, Claims!OneRunningPerAccount
    <2>5. Claims!WithinLimit'
        <3>1. IsFiniteSet(Claims!Running(committed))
            <4>1. Claims!Running(committed) \subseteq Jobs
                BY DEF Claims!Running
            <4> QED BY <4>1, FS_Subset
        <3> DEFINE R == Claims!Running(committed)
        <3>2. /\ IsFiniteSet(R) /\ IsFiniteSet(R \cup {j})
              /\ Cardinality(R \cup {j}) = IF j \in R THEN Cardinality(R)
                                           ELSE Cardinality(R) + 1
            <4> HIDE DEF R, j
            <4>1. IsFiniteSet(R)
                BY <3>1 DEF R
            <4> QED BY <4>1, FS_AddElement
        <3>3. /\ Cardinality(Claims!Running(committed)) \in Nat
              /\ Cardinality(Claims!Running(committed) \cup {j}) \in Nat
            BY <3>2, FS_CardinalityType
        <3>4. Limit > 0 => Cardinality(Claims!Running(committed) \cup {j}) <= Limit
            BY <2>3, <3>2, <3>3
        <3> QED BY <2>2, <3>4, SameCardinality DEF Claims!WithinLimit
    <2>6. Claims!ClaimSeesAll'
        BY <2>1 DEF Claims!ClaimSeesAll
    <2> QED BY <1>0, <2>4, <2>5, <2>6 DEF Claims!SerialInv
<1>5. ASSUME NEW c \in Requests, Claims!Rollback(c) PROVE Claims!SerialInv'
    <2>1. /\ Claims!Running(committed)' = Claims!Running(committed)
          /\ \A d \in Requests : tx'[d] = tx[d] \/ tx'[d].at = "none"
        BY <1>0, <1>5 DEF Claims!Rollback, Claims!RowTypes, Claims!NoTx, Claims!Running
    <2> QED BY <1>0, <2>1, FewerRunning
<1>6. ASSUME NEW j \in Jobs, Claims!ApplyReport(j) \/ Claims!ReclaimExpiredLeases(j)
      PROVE  Claims!SerialInv'
    <2>1. /\ Claims!Running(committed)' \subseteq Claims!Running(committed) /\ tx' = tx
        BY <1>0, <1>6 DEF Claims!ApplyReport, Claims!ReclaimExpiredLeases, Claims!RowTypes,
            Claims!Running
    <2> QED BY <1>0, <2>1, FewerRunning
<1>7. CASE UNCHANGED Claims!vars
    <2>1. Claims!Running(committed)' = Claims!Running(committed) /\ tx' = tx
        BY <1>7 DEF Claims!vars, Claims!Running
    <2> QED BY <1>0, <2>1, FewerRunning
<1> QED BY <1>1, <1>2, <1>3, <1>4, <1>5, <1>6, <1>7 DEF Claims!Next

(* As long as the claims of a server do not overlap, which one controller   *)
(* and one agent that waits for its answer see to, ClaimNextJob runs one    *)
(* backup of an account at a time and no more than the server's limit,      *)
(* whatever reports and reclaims come between its statements.               *)
THEOREM SerialClaimsKeepLimits ==
    ASSUME IsFiniteSet(Jobs), Limit \in Nat, NoJob \notin Jobs, Claims!OneClaimAtATime
    PROVE  Claims!Spec => [](Claims!OneRunningPerAccount /\ Claims!WithinLimit)
<1>1. Claims!Init => Claims!SerialInv
    <2> SUFFICES ASSUME Claims!Init PROVE Claims!SerialInv
        OBVIOUS
    <2>1. Claims!ClaimInv
        BY DEF Claims!Init, Claims!ClaimInv, Claims!RowTypes, Claims!LockedIsPending,
            Claims!HeldIsRunning, Claims!OneLock, Claims!OneHolder, Claims!Transactions,
            Claims!NoTx, Claims!NoRows
    <2>2. Claims!Running(committed) = {}
        BY DEF Claims!Init, Claims!Running
    <2>3. Claims!OneRunningPerAccount /\ Claims!WithinLimit
        BY <2>2, FS_EmptySet, SameCardinality DEF Claims!OneRunningPerAccount, Claims!WithinLimit
    <2>4. Claims!ClaimSeesAll
        BY DEF Claims!Init, Claims!ClaimSeesAll, Claims!NoTx
    <2> QED BY <2>1, <2>3, <2>4 DEF Claims!SerialInv
<1>2. Claims!SerialInv /\ [Claims!Next]_(Claims!vars) => Claims!SerialInv'
    BY SerialStep
<1>3. Claims!SerialInv => Claims!OneRunningPerAccount /\ Claims!WithinLimit
    BY DEF Claims!SerialInv
<1> QED BY <1>1, <1>2, <1>3, PTL DEF Claims!Spec
=============================================================================
