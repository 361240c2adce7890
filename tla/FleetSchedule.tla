---------------------------- MODULE FleetSchedule ----------------------------
(***************************************************************************)
(* What fills and empties the fleet's queue: the controller's scheduler    *)
(* (internal/controller/scheduler.go), which fires policies and takes back *)
(* lapsed leases, the operator's commands (cmd/controller), and the        *)
(* maintenance runner (cmd/maintenance), without which a repository does   *)
(* not exist and an agent has nowhere to write.                            *)
(*                                                                         *)
(* Composed with FleetQueue, whose rows, agents and messages these share:  *)
(* FleetQueue lets anybody queue and reclaim at any time, here only the    *)
(* scheduler does.  One controller runs; with two, each fires every slot.  *)
(***************************************************************************)
EXTENDS FleetQueue

CONSTANTS
  NoPolicy,
  SourceOf,    \* [Repos -> Repos], chunker_source_repo_id; itself for the first
  MaxSlots,    \* bound: times a policy comes due
  MaxOutages   \* bound: failed queries, restarts of the controller, killed commands

ASSUME ScheduleAssumption ==
  /\ NoPolicy \notin Policies
  /\ SourceOf \in [Repos -> Repos]
  /\ MaxSlots \in Nat /\ MaxOutages \in Nat

VARIABLES
  members,   \* [Policies -> SUBSET Accounts], account_policies
  due,       \* [Policies -> Nat], the slot that has come due and not fired, or 0
  slots,     \* how many have come due
  ctl,       \* where the scheduler is in its tick
  answers,   \* [Jobs -> SUBSET Nat], the slots a job was queued for, or found open by
  missed,    \* <<account, slot>> that a fault or the bound on rows kept from being queued
  created,   \* repositories restic has created
  outages    \* how many of MaxOutages have happened

queueVars == <<status, claimToken, lease, createdAt, started, targets, clock,
               agent, reports, copies, faults>>
tables    == <<members, due, slots, answers, missed>>
scheduleVars == <<members, due, slots, ctl, answers, missed, created, outages>>

Sleeping == [at |-> "sleep", todo |-> {}, policy |-> NoPolicy, slot |-> 0, firing |-> {}]

\* Something goes wrong that is none of FleetQueue's faults
Outage ==
  /\ outages < MaxOutages
  /\ outages' = outages + 1
  /\ UNCHANGED queueVars

-----------------------------------------------------------------------------
\* The tick

\* A policy's cron expression names this moment; a slot that was still due is
\* not run as well
SlotArrives(p) ==
  /\ slots < MaxSlots
  /\ slots' = slots + 1 /\ due' = [due EXCEPT ![p] = slots + 1]
  /\ UNCHANGED <<queueVars, members, ctl, answers, missed, created, outages>>

\* Mutant: restores are taken back as backups are
BeginTickEverything ==
  /\ ctl.at = "sleep"
  /\ \/ Lapsed(Work) # {} /\ TakeBack(Lapsed(Work), {})
     \/ Lapsed(Work) = {} /\ UNCHANGED queueVars
  /\ ctl' = [ctl EXCEPT !.at = "restores"]
  /\ UNCHANGED <<tables, created, outages>>

\* RunOnce begins with ReclaimLeases, backups first
BeginTick ==
  /\ ctl.at = "sleep"
  /\ ReclaimExpiredLeases \/ (Lapsed(Jobs) = {} /\ UNCHANGED queueVars)
  /\ ctl' = [ctl EXCEPT !.at = "restores"]
  /\ UNCHANGED <<tables, created, outages>>

\* ... then restores, and every policy is to be looked at
ListPolicies ==
  /\ ctl.at = "restores"
  /\ ReclaimExpiredRestoreLeases \/ (Lapsed(Restores) = {} /\ UNCHANGED queueVars)
  /\ ctl' = [ctl EXCEPT !.at = "look", !.todo = Policies]
  /\ UNCHANGED <<tables, created, outages>>

\* One of those statements fails, and the tick is over
TickFails ==
  /\ ctl.at = "restores" /\ Outage
  /\ ctl' = Sleeping
  /\ UNCHANGED <<tables, created>>

\* Mutant: last_run_at is left as it was
RunPolicyUnrecorded(p) ==
  /\ ctl.at = "look" /\ p \in ctl.todo
  /\ ctl' = [ctl EXCEPT !.todo = @ \ {p}, !.at = IF due[p] = 0 THEN "look" ELSE "fire",
                        !.policy = p, !.slot = due[p],
                        !.firing = IF due[p] = 0 THEN {} ELSE members[p]]
  /\ UNCHANGED <<queueVars, tables, created, outages>>

\* runPolicy: a due policy's accounts are read and last_run_at written, both
\* before the first job is queued
RunPolicy(p) ==
  /\ ctl.at = "look" /\ p \in ctl.todo
  /\ ctl' = [ctl EXCEPT !.todo = @ \ {p}, !.at = IF due[p] = 0 THEN "look" ELSE "fire",
                        !.policy = p, !.slot = due[p],
                        !.firing = IF due[p] = 0 THEN {} ELSE members[p]]
  /\ due' = [due EXCEPT ![p] = 0]
  /\ UNCHANGED <<queueVars, members, slots, answers, missed, created, outages>>

\* Mutant: last_run_at is written before the accounts are read
PolicyFailsRecorded(p) ==
  /\ ctl.at = "look" /\ p \in ctl.todo /\ due[p] # 0 /\ Outage
  /\ ctl' = [ctl EXCEPT !.todo = @ \ {p}]
  /\ due' = [due EXCEPT ![p] = 0]
  /\ UNCHANGED <<members, slots, answers, missed, created>>

\* One of its queries fails: it is logged and looked at again next tick
PolicyFails(p) ==
  /\ ctl.at = "look" /\ p \in ctl.todo /\ due[p] # 0 /\ Outage
  /\ ctl' = [ctl EXCEPT !.todo = @ \ {p}]
  /\ UNCHANGED <<tables, created>>

OfPolicy(a) == {j \in Jobs : AccountOf[j] = a /\ PolicyOf[j] = ctl.policy}

\* A job for one account, or none because the previous run is still going
QueueJob(a) ==
  /\ ctl.at = "fire" /\ a \in ctl.firing
  /\ ctl' = [ctl EXCEPT !.firing = @ \ {a}]
  /\ \E j \in OfPolicy(a) :
       /\ CreateJob(j) \/ (Open(j) /\ UNCHANGED queueVars)
       /\ answers' = [answers EXCEPT ![j] = @ \cup {ctl.slot}]
  /\ UNCHANGED <<members, due, slots, missed, created, outages>>

\* CreateJob fails: the policy writes nowhere, the database does not answer,
\* or (bound) there is no row left
QueueFails(a) ==
  /\ ctl.at = "fire" /\ a \in ctl.firing
  /\ \/ /\ RepositoriesOf[ctl.policy] = {} \/ \A j \in OfPolicy(a) : status[j] # "absent" /\ ~Open(j)
        /\ UNCHANGED <<queueVars, outages>>
     \/ Outage
  /\ ctl' = [ctl EXCEPT !.firing = @ \ {a}]
  /\ missed' = missed \cup {<<a, ctl.slot>>}
  /\ UNCHANGED <<members, due, slots, answers, created>>

\* The policy has fired
EndPolicy ==
  /\ ctl.at = "fire" /\ ctl.firing = {}
  /\ ctl' = [ctl EXCEPT !.at = "look", !.policy = NoPolicy, !.slot = 0]
  /\ UNCHANGED <<queueVars, tables, created, outages>>

EndTick ==
  /\ ctl.at = "look" /\ ctl.todo = {}
  /\ ctl' = Sleeping
  /\ UNCHANGED <<queueVars, tables, created, outages>>

\* The controller is stopped and started again, at once or so much later that
\* slots have fallen out of the catch-up window
ControllerRestarts ==
  /\ Outage
  /\ \E late \in SUBSET {p \in Policies : due[p] # 0} :
       /\ due' = [p \in Policies |-> IF p \in late THEN 0 ELSE due[p]]
       /\ missed' = missed \cup {<<a, ctl.slot>> : a \in ctl.firing}
                           \cup UNION {{<<a, due[p]>> : a \in members[p]} : p \in late}
  /\ ctl' = Sleeping
  /\ UNCHANGED <<members, slots, answers, created>>

-----------------------------------------------------------------------------
\* The operator's commands

\* AttachPolicyToAccount
Attach(p, a) ==
  /\ a \notin members[p]
  /\ members' = [members EXCEPT ![p] = @ \cup {a}]
  /\ UNCHANGED <<queueVars, due, slots, ctl, answers, missed, created, outages>>

\* runRestore
AskForRestore(r) == CreateRestore(r) /\ UNCHANGED scheduleVars

-----------------------------------------------------------------------------
\* The maintenance runner

\* Provision, from start to end: the repository is not there, and it is
\* created with the chunker parameters of its source, which is.  (What a
\* command killed between restic's init and the note of it leaves behind is in
\* Destinations, for the standalone engine.)
Provision(r) ==
  /\ r \notin created /\ SourceOf[r] \in created \cup {r}
  /\ created' = created \cup {r}
  /\ UNCHANGED <<queueVars, tables, ctl, outages>>

-----------------------------------------------------------------------------
\* The agents' side of the API (internal/controller/api.go)

\* handleNextJob: a claim that was committed may be answered to nobody
NextJob(s) == (Poll(s) \/ PollAnswerLost(s)) /\ UNCHANGED scheduleVars

\* An upload into a repository nobody has created fails
Upload(s, r, ok) ==
  /\ ok => r \in created
  /\ BackupTarget(s, r, ok)
  /\ UNCHANGED scheduleVars

Report(s) ==
  /\ \/ ReportStagingError(s) \/ ReportBackup(s)
     \/ \E failed \in BOOLEAN : ReportRestore(s, failed)
  /\ UNCHANGED scheduleVars

\* handleRenewLease, and an agent that is told to stop or dies
Heartbeat(s) == (RenewLease(s) \/ Stop(s) \/ Crash(s)) /\ UNCHANGED scheduleVars

\* The work goes on past the minute that its report was given
Outlasts(s) == WorkOutlastsMinute(s) /\ UNCHANGED scheduleVars

\* handleReport and handleRestoreReport
HandleReports == (\E m \in reports : HandleReport(m)) /\ UNCHANGED scheduleVars

ReportsLost == (\E m \in reports : ReportLost(m)) /\ UNCHANGED scheduleVars

LeasesRunOut(w) == LeaseRunsOut(w) /\ UNCHANGED scheduleVars

-----------------------------------------------------------------------------
ScheduleInit ==
  /\ Init
  /\ members = [p \in Policies |-> {}] /\ due = [p \in Policies |-> 0] /\ slots = 0
  /\ ctl = Sleeping /\ answers = [j \in Jobs |-> {}] /\ missed = {}
  /\ created = {} /\ outages = 0

Tick ==
  \/ BeginTick \/ ListPolicies \/ EndPolicy \/ EndTick
  \/ \E p \in Policies : RunPolicy(p)
  \/ \E a \in Accounts : QueueJob(a) \/ QueueFails(a)

AgentWorks(s) == (\E r \in Repos, ok \in BOOLEAN : Upload(s, r, ok)) \/ Report(s)

Operator ==
  \/ \E p \in Policies, a \in Accounts : Attach(p, a)
  \/ \E r \in Restores : AskForRestore(r)

ScheduleNext ==
  \/ Tick \/ TickFails \/ ControllerRestarts
  \/ \E p \in Policies : SlotArrives(p) \/ PolicyFails(p)
  \/ Operator
  \/ \E r \in Repos : Provision(r)
  \/ \E s \in Servers : NextJob(s) \/ AgentWorks(s) \/ Heartbeat(s) \/ Outlasts(s)
  \/ HandleReports \/ ReportsLost
  \/ \E w \in Work : LeasesRunOut(w)

allVars == <<queueVars, scheduleVars>>

ScheduleSpec == ScheduleInit /\ [][ScheduleNext]_allVars

\* FleetQueue's fairness, with the reclaims where they are: in a tick that
\* comes every minute.  Nothing is assumed of operators, of the maintenance
\* runner or of the moments policies name.
ScheduleFairness ==
  /\ WF_allVars(Tick)
  /\ \A s \in Servers : WF_allVars(Poll(s) /\ UNCHANGED scheduleVars) /\ WF_allVars(AgentWorks(s))
  /\ \A w \in Work : WF_allVars(~Attended(w) /\ LeasesRunOut(w))
  /\ WF_allVars(HandleReports)

FairScheduleSpec == ScheduleSpec /\ ScheduleFairness

-----------------------------------------------------------------------------
\* Properties

\* A slot queues an account once, however the tick that fires it ends:
\* last_run_at is written before the first job is (SetPolicyLastRun: "so a
\* controller restart neither skips a window nor replays past ones").
OncePerSlot ==
  \A j, k \in Jobs :
    j # k /\ AccountOf[j] = AccountOf[k] /\ PolicyOf[j] = PolicyOf[k]
      => answers[j] \cap answers[k] = {}

\* When a policy comes due, each account on it gets a backup that ends, the
\* run that was still going or one queued for this slot or the next; agents
\* that die and reports that are lost delay it.  Only what the controller
\* itself failed to queue is missed, and an account waits for ever only if its
\* server goes on holding work for more than the minute its report is given.
SlotIsServed ==
  \A p \in Policies, a \in Accounts :
    \/ AlwaysLate(a)
    \/ \A n \in 1..MaxSlots :
         due[p] = n /\ a \in members[p]
           ~> \/ \E j \in Jobs : /\ AccountOf[j] = a /\ PolicyOf[j] = p
                                  /\ Terminal(status[j]) /\ \E m \in answers[j] : m >= n
              \/ \E m \in n..MaxSlots : <<a, m>> \in missed

\* The composition is a behaviour of the queue: nothing that fills or empties
\* it does what FleetQueue does not allow, so its theorems hold here.
IsFleetQueue == Spec
=============================================================================
