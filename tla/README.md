# A formal model of cprestic

cprestic backs up cPanel accounts with restic. It ships as two programs built
from one tree. In a **fleet**, a controller with a PostgreSQL database queues
work and an agent on each server polls for it. **Standalone**, one engine on one
server keeps its own schedule, queue and web interface over a bbolt state file.
Both use the same code to stage an account, run restic, and restore.

This directory holds TLA+ modules translated from that code, TLC configurations
that check them on small instances, and TLAPS proofs of the results that hold
for instances of any size. `PROJECT.json` maps each definition to the lines it
stands for, and lists the runs, the hazards they are aimed at and the theorems.

## Inventory

Every path is under `src/`.

| Component | State | Operations | Talks to |
|---|---|---|---|
| Fleet queue, `internal/store/{jobs,restores,leases}.go`, `internal/controller/service.go` | job and restore rows: status, claim token, lease, `started_at`; a target row per repository | create, claim, renew, reclaim, report | agents by HTTP, scheduler by SQL |
| Agent, `internal/agent/` | the assignment in hand, its token, a heartbeat goroutine | poll, stage, upload to each repository, restore, report | controller, staging, restic, cPanel |
| Job status, `internal/job/job.go` | none | roll target rows up into a job's status | fleet and standalone |
| Fleet scheduler, `internal/controller/scheduler.go` | last run of each policy | fire a policy, reclaim leases | fleet queue |
| Fleet maintenance, `internal/maintenance`, `cmd/maintenance` | repositories and their runs | provision, forget, check, drill | restic; agents need what it provisions |
| Staging volume, `internal/staging/staging.go`, `internal/agent/restore.go` | `stage-` directories in use, `keep-` directories to collect | allocate, release, retain, supersede, sweep, clean at start-up | agent, engine, web interface |
| Put-back, `internal/agent/items.go`, `internal/cpanel/putback.go`, `database_sandbox.go` | what is left to load, which logins existed, the disposable login | home directory, databases, logins and grants, crontab, whole account | cPanel, MySQL, mail, the customer's own panel |
| Standalone engine, `internal/node/run.go`, `node.go` | one goroutine (`Run`), a mutex (`workMu`), job and restore records | schedule, queue, drain, recover after a restart | state file, web handlers, hooks |
| State file, `internal/nodestore/` | bbolt buckets | one transaction for each put | everything standalone |
| Account identity, `internal/node/identity.go`, `internal/hookspool`, `cmd/agent/hook.go`, `internal/webui/lifecycle.go` | for each name a uid, a boundary, recycled, retired; events spooled while the service is down; passes and work under way | note, create, remove, reconcile, replay | cPanel hooks, backups, customer pages |
| Removal safety and policy covers, `internal/node/removal.go` | none of its own | is it safe to delete the account; the fewest policies that copy it | jobs, policies, hooks |
| Forgetting a deleted account, `internal/node/forget_account.go` | none of its own | remove snapshots, then records | identity, repository, queue |
| Retention, `internal/node/retention.go`, `internal/resticrun/forget.go` | each repository's plan, the policy it was taken under, the approval | plan, approve, withdraw, sweep, apply | restic, web interface, schedules |
| Destinations and repositories, `internal/node/sftp.go`, `node.go`, `run.go` | a destination and a repository record, host keys, passwords | add, attach, test, edit, delete, provision | restic, SFTP servers, schedules |
| Recovery centre, `internal/webui/{user,session_auth,feature,peer}.go` | a connection budget, spent capabilities, a cached feature check, a basket | choose, restore, cancel | cPanel sessions, baskets, engine |
| Operator's restores, `internal/webui/handlers.go`, `confirm.go`, `internal/nodestore/basket.go` | baskets by owner, account and backup; confirmation pages that are only HTML | choose, ask, confirm, queue | engine, identity |
| Update and upgrade, `internal/node/{update,upgrade}.go`, `internal/update` | `UpdateState`, `UpgradeState`, a directory for each version | check, download, verify, install, restart, report | GitHub, systemd, engine |
| Notifications, vault and certificates, restic runner, archives, command line, bug reports | files and remote services | I/O | the above |

What is hard, and what each part must get right:

* **Fleet queue.** Polls, reports and heartbeats are lost, late or duplicated by
  retries; agents die in mid-upload; leases run out under an agent that is alive.
  A row must never be stranded, a late report must never close its successor's
  attempt, and a restore that overwrites a live account must never be started
  twice. Several controllers claim at once.
* **Fleet scheduler.** It writes that a policy has fired before it has queued
  anything, and takes leases back only at the head of a tick: a restart or a
  failing query between two accounts must neither fire a slot twice nor leave
  dead work in the queue.
* **Staging.** A dozen exits from one function each have to release a directory.
  Names are prefixes of each other. A crash leaves debris that looks like results.
* **Put-back.** A chain of calls into a server whose customers go on working:
  names are looked up, and used a few statements later. Nothing of another
  account's may be loaded, given a password or opened to a login.
* **Engine.** Handlers, hooks and the schedule queue work while the worker runs;
  the process may die between any two writes, and any write may fail.
* **Identity.** Linux hands out uids again and customers take each other's old
  names, while the facts arrive out of order from hooks, a spool, a polling pass
  and page views. A mistake shows one customer another's backups.
* **Removal.** A hook decides from the job history alone whether cPanel may
  delete an account, under schedules edited since; the backups that make a
  deletion safe are to be as few as possible; what is removed for good is removed
  one destination at a time.
* **Retention.** It deletes backups by rule, and it acts on a plan taken earlier,
  approved by a person, under schedules that can be edited since.
* **Destinations.** A record is read, something slow is done, and the whole
  record is written back, by requests that overlap; restic makes a repository and
  a transaction later the record says so.
* **Recovery centre and operator's desk.** One-use capabilities, cached answers
  and pages that describe what was true when they were drawn.
* **Upgrade.** The process that starts an upgrade is never the one that reports on
  it, and what is published can be changed between any two requests.

## Modules

| Module | Models | Kind |
|---|---|---|
| `JobStatus` | `internal/job/job.go` | operators, used by `FleetQueue` |
| `WorkQueue` | what the fleet's queue promises whoever queues work | abstract specification |
| `FleetQueue` | store, service and agent together | component, implements `WorkQueue` |
| `FleetSchedule` | scheduler, operator's commands and provisioning around `FleetQueue` | composition, implements `FleetQueue` |
| `ClaimRace` | `ClaimNextJob` statement by statement | component |
| `FleetProofs` | theorems about `FleetQueue`, `FleetSchedule` and `ClaimRace` | proofs |
| `Staging`, `StagingProofs` | the staging volume under both programs | component, proofs |
| `PutBack` | what a restore writes into a live account, call by call | component |
| `NodeEngine` | the standalone queue, schedule and restart | component |
| `Identity` | identities, hooks, spool, reconciliation | component |
| `Termination` | removal safety, policy covers, forgetting | component |
| `AccountProofs` | theorems about `PutBack` and `Termination` | proofs |
| `Retention` | plans, approvals and removal | component |
| `SnapshotProofs` | theorems about `Retention` and `Identity` | proofs |
| `Destinations`, `DestinationsProofs` | destinations, repositories and host keys | component, proofs |
| `RecoveryCentre` | an account's own way in | component |
| `NodeProofs` | theorems about `RecoveryCentre` and `NodeEngine` | proofs |
| `OperatorDesk`, `OperatorDeskProofs` | restores asked for in WHM, and baskets | component, proofs |
| `Upgrade`, `UpgradeProofs` | updates and upgrades | component, proofs |
| `MC*` | small instances for TLC | instances |

A definition whose comment begins with "Mutant" is a deliberately wrong variant
of the definition after it, kept to show that the properties notice it.

Where the proofs of two components share a module, the components share no name:
`NodeEngine`, `Termination` and `Identity` call their specifications `EngineSpec`,
`RemovalSpec` and `IdentitySpec`. Nothing is claimed of the two together; each
theorem is about one.

### FleetQueue and WorkQueue

Rows of `backup_jobs` and `restore_jobs` live the same life, so both are `Work`.
`status`, `claimToken`, `lease`, `started`, `createdAt` and `targets` are columns;
`lease` is abstracted to none, live or expired, which is all that
`lease_expires_at` is compared for. `agent[s]` is what the server's agent has in
hand, `reports` what is in flight. `copies` records what really happened, so that
what the rows say can be compared with it.

`Poll` is `NextWork` with the claim it commits, `PollAnswerLost` the same claim
when nobody hears the answer. `BackupTarget`, `ReportStagingError`,
`ReportBackup` and `ReportRestore` are the agent's loop; `HandleReport` is the
service's whole handler, refusal included. `RenewLease`, `LeaseRunsOut`,
`ReclaimExpiredLeases` and `ReclaimExpiredRestoreLeases` are the life of a lease.
`WorkOutlastsMinute` says that a job took longer than the minute its report's
context was given.

`WorkQueue` knows work, holders and nothing else: queued once, held by one token,
revoked, completed, and never begun twice if it is in `Once`. The refinement maps
statuses to phases, tokens to holders and `started_at` to begun.

A claim is one step of `FleetQueue`. `ClaimRace` opens it: a READ COMMITTED
transaction counts, takes a snapshot, locks a row that is still pending, commits.
What survives the overlap is proved there (`HandedToOne`).

### FleetSchedule

`FleetQueue` lets anybody queue work and reclaim leases at any time.
`FleetSchedule` EXTENDS it and says who really does. `ctl` is where the scheduler
is in a tick: `BeginTick` and `ListPolicies` take leases back (backups, then
restores), `RunPolicy` reads a due policy's accounts and writes `last_run_at`,
`QueueJob` and `QueueFails` go through the accounts. `TickFails`, `PolicyFails`
and `ControllerRestarts` are what can go wrong at each. `Provision` makes a
repository, `Upload` succeeds only into one. The rest are `FleetQueue`'s actions,
so the whole is a behaviour of `FleetQueue` (`IsFleetQueue`, checked and proved),
and what is proved of the queue holds of it. `answers` and `missed` are history.

### Staging

Directory keys are sequences, because what is modelled is that one is a prefix of
another: `RestoreKey` and `Group` build them as the code does. `fleet` is chosen
in `Init` and tells the agent (whose start removes every directory) from the
engine (whose start keeps output). One action stands for each stretch of
`RunRestore` between two points where it can fail.

### PutBack

`phase` is which call `applyItems` or `restoreAccount` has reached, in the order of
the code; `left`, `loading`, `existing` and `overwrite` are what a call holds
between its statements. Each call fails before, inside or after its work. `dbOwner`,
`loginBy`, `loginMap` and `granted` are the server's. No lock holds anybody off
while a call runs: `CustomerDropsDatabase`, `OtherTakesDatabase`,
`CustomerDropsLogin`, `OtherTakesLogin` and `Terminate` happen between a look and
the use of what it found. The names another account took just then are history
(`swappedDbs`, `swappedLogins`), and are all that `OthersUntouched` and
`GrantsAreConfined` except; the code reaches them (see below). A login that was
absent at the look needs no exception, since CREATE USER refuses one that is there,
nor does what cPanel grants as the account, which it checks again. `touched` is what
has really been changed, `wrote` what the restore believes, `report` what it says.

### NodeEngine

`pc` is where `Run` is. A tick looks at each policy, writes its last run and queues
its accounts one by one; draining fetches a record, writes it as running, works
and writes the outcome. Every write may fail (`LookFails`, `HeldFails`,
`FinishFails`, `RecoverFails`), and the process may die between any two steps.
`Queue` is any handler or hook that queues under `workMu`; `ForgetAccount` deletes
records without it. `batch`, `slot`, `begun`, `unwritten` and `forgotten` are
history the properties need.

### Identity

A customer is the name and the moment cPanel made their account; no code sees
that, and the properties compare the code's answer with it. `Create`, `Terminate`,
`Rename` and `CreateQuietly` are cPanel's, each but the last starting a hook
process. A hook is served, served and not answered, or not taken, and then spooled
or lost.

No lock is held over a reconciliation, a backup or a request, so each is several
steps. A pass is begun for the schedule (`SchedulePass`) or for a remove or a modify
whose handler waits for it (`ServeHook`): the spool is replayed, and the records and
the uids are read (`BeginPass`). Then it writes name after name (`WriteBack`,
`CarryRename`, `NoteAfresh`), and ends (`PassEnds`) or is dropped (`PassFails`),
with hooks, other passes and page views in between. A backup or a restore request
notes whose the name is when it begins (`BeginWork`) and is dated, or stamped, when
it is done (`Land`, `QueueRestore`); a copy is of whoever had the name at its
beginning or of whoever has it at its end. The scheduler's passes and the backups
are one goroutine's and exclude each other (`Scheduled`, `BackingUp`).
`ReplayHookSpool` walks the spool in the order of the times in its files' names. One
look at a name, one event recorded and one replay are still single steps.

`unheard` is history that no guard reads: the names with an event the service never
recorded (its hook was lost, or a rename was not carried), recorded out of its turn
(`OutOfTurn`: a create was kept in the spool while a remove that followed it went),
or recorded and then wrote over (`WriteBack`, `CarryRename`: a pass writes back the
record it read, when another is there by now), and those that changed hands under a
backup or a request (`ChangedHands`). Nothing is claimed of those names, because of
them the code's answer is wrong (see below); of every other name the properties hold
whatever fails.

### Termination

One name and the customers who hold it in turn. `Missing`, `Due` and
`AccountRemovalSafety` are the hook's decision from `history`; `copies` is what is
really at the destinations, which the hook never sees. `RemovePre` lets an account
go unasked when the service is not reached or protection is switched off
(`removal.go:46`). `QueueRemovalPreparation` decides and queues in one step: the
code decides before it takes `workMu`, and what happens between the two might as
well have happened before the decision or after the queueing. `minimumPolicyCover`
is the code's greedy answer and exact search, checked against the definition of a
smallest cover in every state where it is used (and proved of every set of
schedules). `handleForgetAccount` and `sweepDeletedAccounts` begin a forget,
`ForgetSnapshots` takes one destination after another in the store's order,
`ForgetAccount` deletes the records last. Plans of the schedules are in `Plans`;
those in `Steady` are edited by nobody.

### Retention

One repository, one account's backups. A keep policy is a single count (the
code's five are merged and compared alike). `run` holds the two callers, the
sweep on the worker's goroutine and the operator's button on a handler's, and
each reads and writes the repository's record in separate steps, as
`recordRetention`, `ApproveRetention` and `WithdrawRetention` do.

### Destinations

`dest`, `repo` and `made` are the records, `data` what is at each place, whoever
put it there. `proc` holds what each request, probe or backup is in the middle
of: the record it read, and where it goes next. Deleting, testing, editing and
provisioning are each the separate reads and writes the code makes. `host` is who
answers on an SFTP server's address, which can change between any two steps.

### RecoveryCentre

`req[c].pc` is how far a connection's request has come: budget, capability, turn,
feature check, handler. `clock` ticks the lifetimes of capabilities and of the
cached answer, also between a request's reading of it (`verify`, `reachGate`) and
what it does next. `featureCheckTimeout` makes no difference to what is stated: a
check may fail at any moment, and one that is answered may be answered late. `token`
and `spent` compare what was issued with what served; `told` is what the account's
pages have said is in its basket.

### OperatorDesk

Each tab shows at most one confirmation page (`page`) and has one request being
served (`run`). `Confirm` sends a page, again if need be; `QueueRestore` is one
account's turn in it, `EmptyAfterwards` the transaction that follows a basket's.
`flight` records beside each restore what its page had `said`. `Moved` marks pages
that name what has changed since. `tenure` counts the holders of a name; removal,
the hook that records it (then, later or never) and the next creation are three
steps.

### Upgrade

`published` is what is at each place at this moment: checksums, a signature, a
tarball, each read by a request of its own. `task` is `runUpgrade` on its
goroutine, `installer` the unit outside the service, `dir` the directory a version
is unpacked in, `record` what is saved. `UpgradeStatusReads` and `UpgradeStatus` are
the read and the write of whoever looks at the page. Builds are numbered in the
order of their commits; a tarball is the build it holds, 0 if it is anything else.

## Runs

| Run | Bounds | What it shows |
|---|---|---|
| `fleet_queue` | jobs of two accounts and an applying restore, a policy with no repositories, one server at a limit of one, four tokens, one fault, slow work | no destructive restore is repeated, no status is better than the copies behind it, no attempt is closed by another's report, and the tables implement `WorkQueue` |
| `fleet_schedule` | one policy, one account, one repository, rows for two backups and a restore, two slots, one lost message or crash, one outage of the controller, slow work | each slot queues an account once and is answered by a backup that ends, and everything queued ends, both unless the server's work outlasts its report for ever; and the whole is a behaviour of `FleetQueue` |
| `staging` | restores of every kind, two accounts of which one name is a prefix of the other, one crash, both programs | directories are released whatever fails, output is the restore's own and supersedes its own only |
| `put_back` | two restores, two databases, two logins, two backups, four baskets, three outside steps, inside the calls as well | nothing of another account's is written or granted but under a name that changed hands between a call's look and its use, no disposable login is left unreported |
| `node_engine` | two accounts, three records, one slot, one restart, one failed write | one request in flight for each account, nothing begun twice, and everything queued is dealt with |
| `identity` | two names, two uids, seven ticks, one restore, one fault, two passes, backups or requests at a time with anything in between | nobody is shown or given a former holder's data once events have arrived in their turn, unless the name was written over by a pass or changed hands under a backup or a request; no policy widens to every account, and a holder's own backups stay in sight |
| `termination` | four destinations, three set-ups of the schedules, two jobs, two holders, one edit, one forget, one crash | the cover is the smallest, a preparation that succeeded lets the account go, an allowed removal leaves every promised copy of the holder's, or took a former holder's job for theirs, a forgotten account leaves nothing |
| `retention` | two schedules, three backups, keep counts to two, two edits | the newest whole backup stays, nothing an enabled schedule keeps is named for removal, only approved policies are applied |
| `destinations` | two processes, two places, two destinations, two host keys, four operations, one change of host, one crash | what is recorded as created can be read, repositories share their source's chunker, a password goes to an agreed host key only |
| `recovery_centre` | two connections of the account and one of somebody else's, two capabilities, two ticks, one change of session or feature, one crash | no login passes for another, a capability serves once while it lasts, no choice the account was told of is lost, who reaches the gate too late after the feature went off is refused |
| `operator_desk` | two tabs, one account, a database and a DNS zone, two restore points, two changes of baskets, one page, two events (a day, a removal, a creation or a restart) | a restore that overwrites is the one its page named, nothing chosen before a recorded removal passes to the next holder |
| `upgrade` | two builds, two channels, five kinds of push, two attempts, one backup, one crash | what is installed is what was agreed, a verdict is its own installer's, every upgrade ends |

**Why the bounds are enough.** Each is the least at which the hazard occurs with
room to spare: a token for each attempt that can be alive at once and one more for
the successor; a lost message or crash in any position; two names and two uids,
which is what takes a name and a uid to different customers; two passes, backups or
requests at a time, which is what takes one to write over another; three backups
under a keep count of two, which is what it takes for one to expire behind an
unverified one; two callers of retention, which is all the code has; four
destinations and three schedules, the least where the greedy cover is not the
smallest. Every property is shown to fail when the code it is about is changed in
one plausible way, under the same bounds. What the theorems prove needs no bound.

Three bounds keep cases out. `fleet_schedule` has one token, so no attempt is
overtaken by another there (it is in `fleet_queue`), and one controller.
`termination` leaves its largest set-up of the schedules alone (`Steady`).
`operator_desk` draws one page, so pages that overtake each other are left to the
proof, which has any number of them.

Symmetry is used where values are only compared for equality: tokens, connections,
tabs, processes, host keys, and the names, uids and schedules of `Identity` and
`Retention`; a run with liveness uses none. `CHECK_DEADLOCK FALSE` is set where a
bounded supply of work, of edits or of time runs out; `NodeEngine` never stops and
is checked for deadlock.

**Fairness.** `FleetQueue` and `FleetSchedule`: an agent's loop polls and goes on
with its work, since uploads and restores have a timeout (`TargetTimeout`); the
controller answers requests; the scheduler ticks every minute and each statement of
a tick returns; time passes, so a lease nobody renews runs out and is taken back.
Faults, heartbeats, creations, provisioning and the moments policies name are owed
nothing; `SlotIsServed` holds of a repository that is never provisioned too, since a
backup that cannot be uploaded ends as failed. Nor is an agent owed that its work
takes less than the minute its report is given: both liveness properties except a
server whose work goes on outlasting it for ever (`AlwaysLate`). `NodeEngine`: `Run`
loops (`Scheduling`, `Work`), the tools it calls return, and the service manager
starts a service that died (`RecoverFromRestart`). `Upgrade`: the goroutine's
requests have timeouts, time passes, and somebody looks at the page again, which
refreshes while an upgrade is under way; an installer that never ends is given up
on. No strong fairness is assumed anywhere. The other modules are about safety and
state no fairness.

## Proofs

All are for any values of the constants that satisfy the modules' named assumptions.
Those state types, that the sets counted are finite, and three facts about values:
an account's name has no "@" in it (cPanel's rule, which
`internal/staging/staging.go:354` relies on), two accounts have two names, and the
value that stands for no place and no host key is neither. Each inductive invariant
was checked by TLC on the bounds of its component's run before it was proved.

**FleetQueue.** For any sets of jobs, restores, servers, repositories and
tokens, any number of faults, and any limits (jobs and restores are disjoint, the
set of jobs is finite). The properties are not inductive as they stand.
`SuccessHasCopies` needs to know that what an agent or a report claims is a copy
(`ClaimsAreCopies`) and that an assignment covers every repository
(`AssignmentsAreWhole`), which holds because nothing is recorded of a job until a
report closes it (`OpenIsUntouched`): a reclaimed job starts over.
`NotClosedUnderItsHolder` needs tokens in use to be apart (`TokensAreApart`).
`RunningIsLeased` needs an accepted report to settle every row, so that the rollup
is never running; that is `AcceptedReportSettles`. The conjunction
`IInv == TypeOK /\ RowInv /\ AgentInv` is inductive, with one lemma for each action
on each half. From it follow `TypeCorrect`, `NoStrandedRun`, `DestructiveOnce`,
`QueueNeverWedges`, `NoFalseSuccess`, `NotClosedUnderHolder` and `Refinement`:
every step of `FleetQueue` is a step of `WorkQueue` or a stutter. Nothing of it
says how many backups run at once: that a claim is one step there would make it
true, and `ClaimRace` is where it is asked.

**FleetSchedule.** `ComposesToQueue`: initial states and steps of
`FleetSchedule` are `FleetQueue`'s or leave its rows alone, one case for each
action, so the theorems above hold under the scheduler too. `EachSlotOnce` needs
`FreshSlots`: a slot that is due is on no job yet, the one being fired is on no job
of the accounts still to be queued, and a policy that is being fired is not due for
that slot any more, because `last_run_at` is written first.

**ClaimRace.** `HandedToOneAlways`, for any number of overlapping claims: a
locked row is pending and a held row is running (`ClaimInv`), so a row has either
one lock or one holder. `SerialClaimsKeepLimits`: if no two claims of a server are
open at once (`OneClaimAtATime`), one backup of an account runs and no more than
the server's limit do, whatever reports and reclaims come between the statements of
a claim, because the open claim's count and snapshot hide no job that runs
(`ClaimSeesAll`). Without that hypothesis both are false; see below.

**Staging.** `ArchiveStaysOwn`, `SupersedesOnlyItsOwn` and `IdleHasNothingStaged`,
for any accounts, names, restores and crashes, in both programs. `NothingLeftStaged`
is about a moment when nothing runs; the invariant says of every moment what is
staged, which is the one directory of the task in hand (`StagedIsWorkedIn`), and
that there is one task (`OneTask`): each way out of `RunRestore` has to have
released it. `ArchiveIsOwn` needs output to lie under its restore's key
(`KeptUnderItsKey`), and `SupersedesItsOwn` needs a fact about names: a group is a
prefix of a key only if both are of one account and one kind (`PrefixIsOfItsOwn`),
because the "@" that ends a group is nowhere in a name. Dropping the "@" is the
mutant of that property.

**PutBack.** `NothingOfOthers` and `GrantsStayHome`, for any databases, logins,
backups, baskets and numbers of restores and outside steps, which may come inside
the calls. The inductive invariant says what a restore may rely on (`HandsOff`): the
database a dump is going into is nobody else's (`LoadsOwn`), nor are the logins it
found (`KnownAreOwn`), those it made (`FreshAreOwn`) and what it is about to grant
on (`GrantsAreOwn`), unless the name changed hands since the look. `RecordsAgree` is
needed across calls: a login another account has, but the panel says is this one's,
is one that a call claimed after it had been taken. `SandboxesGo` needs only that
one dump goes in at a time and nothing else is done meanwhile (`LoadsOne`), so a
load ends by its own step or with the agent.

**Termination.** `AllowedOnlyWithCopies`, `ForgottenIsGone`, `CoversAreSmallest` and
`PreparedIsEnough`, for any destinations, schedules, edits, holders and crashes. The
hook sees the job history and the property speaks of copies: each job on record that
took the whole account of the customer now there has a whole copy of theirs behind
it in each of its destinations, at least as recent (`HolderKeeps`), because a copy
is replaced only by one that is no worse (`CopiedIs`). Whose a job was is on no
record: a job of a former holder counts like any other, and the theorem says that
this is the only other way a name is let go. `Due` is a CHOOSE; that the strictest
window is a number is by well-foundedness (`DueIsOne`). `ForgottenSoFar` is where a
forget has come: only destinations still to do hold anything, so when the records go
nothing is left, unless a backup ran beside it.

`CoversAreSmallest` is about an algorithm rather than a step. `search` in the code
is a closure that calls itself in a loop; here it is a function of what is chosen,
what is still to try and the best so far, and each call of it chooses one more or
has one fewer to try (`RanksFall`). From that the function exists and unfolds
(`RecursionHasValue`, `SearchUnfolds`), and by induction over the rank it returns a
cover no larger than the best it came with, nor than any that goes on by something
still to try (`SearchIsRight`). The step that matters is `NothingLeftOut`: where a
call stops short, each cover that goes on from what is chosen is no smaller than the
best, and where it branches, on any uncovered destination, each contains one of the
branches (where a destination has no schedule left, no cover goes on from there).
The code picks among destinations in the order of a map, and which it picks plays no
part. The greedy start is a cover (`GreedyIs`), and leaving out the schedules that
make nothing that is wanted loses no smaller cover (`MinimumCoverIs`).
`PreparedIsEnough` follows whatever is queued, lost or edited while a preparation is
worked off (`PreparedSoFar`).

**OperatorDesk.** `WritesWhatWasRead`, `RestoresFromThatBackup` and
`NoneIsInherited`, for any tabs, accounts, parts and numbers of pages. The invariant
says that a basket is of one backup of one account in one holder's time
(`BasketsAreOfOneBackup`), that a page shows what the basket holds or is marked
(`PagesAreRight`), and that a request names what its page named, or is of a basket
that has moved (`RequestsAgree`). What keeps the first is that the prefix of the
keys takes both owners' baskets when the removal is recorded, so that what is left
of a name nobody holds was chosen after that (`Timely`).

**RecoveryCentre.** `MintedForTheEntitled`, `CapabilityServesOnce`, `ChosenStays`,
`GateClosesInTime` and `PlacesAreCounted`, for any connections, tokens, ticks and
items, and whatever basket is left from before. `ServesOnce` is about the lifetime
of a capability; it needs what was accepted to be remembered for as long as it would
still pass (`SpentIsRemembered`), across a restart that forgets everything, whose
key makes every earlier capability fail, and across the clearing of what has
expired: a request that waits for the lock has read a clock that is not ahead
(`VerifiedIsOurs`), so it clears nothing that has not expired by now.
`NothingChosenIsLost` needs the turn to be held by one request (`OneInside`), so
that what a restore is started from is still the basket when it is emptied
(`SeenIsBasket`). `CutOffInTime` needs each cached answer, and each that is on its
way, to be no younger than the host's last yes (`AnswersAreDated`).
`LoginIsEntitled` holds because no session record cPanel can hold, read by
`SessionPrincipal` against any identity the bridge can name, passes for two people
(`LoginsAreApart`; the team there has two members, of whom any may be
administrators). `PlacesAreCounted` is by cardinality of the open connections.

**NodeEngine.** `OneRequest`, `NoneTwice` and `NoneIsStranded`, for any
accounts, policies, slots and numbers of requests. `BegunAtMostOnce` needs to know
that the copy `RunOnce` took from the queue is still pending and has not been begun,
unless its record has been deleted (`HeldIsFresh`), and that what is being worked on
was written as running or deleted (`WorkIsBegun`). `ForgetAccount` is the one action
that can come between, because it takes no lock; it deletes and never reopens.
`RunningIsWorkedOn` holds outside recovery because a record whose last write failed
is counted in `unwritten`, which is what the next start's `RecoverRuns` clears.

**Destinations.** `WhatIsMarkedCanBeRead`, `CopiesShareChunks` and
`PasswordStaysWithAgreedHosts`, for any requests at once, any places, destinations
and hosts, and crashes between any two writes. Every operation reads a record, does
something slow and writes the whole record back; the invariant says what in a
request's hands is still true then (`HandsAreTrue`), which is enough because what
was made, found or written never changes back (`Lasting`): a password is recorded
once, and a repository stays where it is. `HomesAreReadable` is `MarkedIsReadable`
before the mark has been written. `MakingIsAlone` says that a record in the making
is one request's, which is what numbers handed out in order give
(`NumbersAreFresh`). `ChunksKept` follows a source to the place it was created in,
which somebody may have detached.

**Upgrade.** `InstallsTheAgreed` and `VerdictIsItsOwn`, for any builds, tags
and pushes and any numbers of checks, attempts and crashes. A version that was
agreed to is newer than what runs, because only a restart changes what runs and a
restart ends every request (`AgreedIsNewer`). Attempts are numbered as they begin
(`Numbered`), so the download under way is the last and its installer has not been
started (`TaskIsTheLast`); its directory is its own and, once fetched, holds the
build the signed checksums are for (`TaskHasFetched`). A status file carries the
verdict of the installer its directory belongs to (`StatusIsItsInstallers`). A late
`UpgradeStatus` for an earlier attempt at the same version does not take the
directory away, since what runs is older than that version, so it reads a failure.

**Retention.** `AppliesTheApproved`, `NewestStays` and `NoScheduleLoses`, for
any schedules, keep counts, backups and edits. What is on record as approved, and
every copy of the record a caller has read, was agreed to by an operator
(`ApprovedWasAgreed`), so a record written back late cannot bring in a policy nobody
saw. Whatever a run has set out to remove is older than a backup known to be whole
(`Spared`): a preview names only what the policy gives up when every backup is
complete, and the newest of those is then on nobody's list (`NewestIsSpared`), so it
outlives what any other run removes. A run that is about to look keeps at least what
every enabled schedule keeps, unless one was edited since it began
(`LooksWithTheMostGenerous`).

**Identity.** `ShownIsOwn`, `RestoreIsOwn`, `PolicyStaysNarrow` and
`OwnBackupsStay`, for any finite set of names, any uids, and any number of ticks,
restores and faults, with hooks, passes, backups, requests and restarts in any
order, any number of them at a time. The properties compare a record with a history
the record has forgotten, so the invariant says what each name's record may be,
given what the code has yet to hear. A name whose every event was heard in its turn,
but for a remove whose pass has begun (`Unhooked`), is `Apart`: there is nothing of
a former holder's under it, or its record is recycled with a boundary after all of
that, or what is still in the spool will make it so. Work under way counts as filed
already. That needs what was recorded to be dated (`Dated`, and `PassDated` for what
passes have read), events and spool files to lie in the past and no two to coincide
(`Clock`), and the hooks in flight to be of different names and to say what is so
(`Flight`), which is cPanel's rule that a post hook ends before the next operation
on the name. `OwnBackupsStay` adds that passes and work are the running service's
(`Working`), that while nothing has failed the spool is empty when the service is
up, and that an entry for a name in use is its holder's own create or is older than
anything of theirs (`Quiet`). The replay is a recursive function of time: that it
exists is shown first (`ReplayIsStepwise`), then that each entry keeps the
invariant, by induction over time (`ReplayKeeps`).

Only model-checked, because liveness under fairness is out of the prover's reach:
`EverythingFinishes`, `SlotIsServed`, `QueueDrains` and `UpgradeEnds`. Every other
property of the runs is stated by a theorem.

Some properties are stated and true but kept out of the runs, because another in the
same run says more: `TypeOK` of each module, `NothingIsRepeated` and
`RunningIsLeased` (`FleetQueue`), `ArchiveCanBeCollected` (`Staging`),
`RunningIsWorkedOn` (proved) and `OncePerSlot` (`NodeEngine`), `OnlyLateWorkIsCut`
(`Upgrade`), `BudgetIsExact` (`RecoveryCentre`), `OwnPasswordStays` and
`SuccessIsWhole` (`PutBack`), `ChosenFromThatBackup` (`OperatorDesk`; proved).

## Where the code and its documentation part

Met while translating. Paths are under `src/`, `internal/` left out.

Stated in a module, and TLC finds them violated by what the code does:

* `FleetQueue.NothingIsRepeated` with `SlowWork`: a job of more than a minute
  reports on the context it was given for the poll, which is over, so the report
  is lost and the backup repeated (`agent/agent.go:207`, against `:211`). Whatever
  takes longer than a minute each time is never recorded at all, so
  `EverythingFinishes` and `SlotIsServed` are false without the exception they
  make; and being the oldest row it is claimed first each time, so on a server
  that runs one backup at a time nothing queued behind it is claimed either.
* `ClaimRace.OneRunningPerAccount`: two claims take two jobs of one account, since
  the check and the update are statements of a READ COMMITTED transaction
  (`store/jobs.go:103`, against `:70`). The server's limit is read in one statement
  and acted on in the next (`:77`), so `WithinLimit` fails as well.
* `FleetQueue.RestoreExcludesBackup`: `docs/DESIGN.md:408` excludes a backup while
  a restore of the account runs; `ClaimNextJob` looks for backups only
  (`store/jobs.go:108`).
* `Staging.SuccessCanBeCollected`: a restore of files with no target succeeds, and
  its files are removed with the staging directory (`agent/restore.go:339`, against
  `:161`).
* `Staging.AppliedIsRecorded`: an account restore that fails after cPanel began to
  write is recorded as not applied (`agent/restore.go:134`, against
  `store/restores.go:188`).
* `Identity.StaysProtected`: a rename that a pass notices before its hook arrives
  drops the customer from a policy that names accounts (`node/identity.go:464`,
  against `cmd/agent/hook.go:173`).
* `Identity.ShowsOnlyTheirOwn` and `OwnBackupsStayVisible` for the names a pass
  wrote over, which they except: a pass writes back an identity that a hook has
  retired, or that was made anew on another uid, since it was read
  (`node/identity.go:466`, against `nodestore/types.go:167`). With the name gone and
  then back on the same uid, without its create hook, its holder sees the former
  holder's backups; with it back on another uid the next look moves the boundary
  past their own.
* `Identity.ShowsOnlyTheirOwn` for a name that changed hands under a backup, which
  it excepts: the backup is dated when pkgacct has finished (`node/run.go:302`), so
  a copy begun for one holder counts as the next one's; and `RestoreIsTheirOwn` for
  one that changed hands under a request, which is stamped after the look that
  allowed it (`webui/user.go:821`, `node/run.go:160`).
* `Identity.RestoreIsTheirOwn` for the names in `OutOfTurn`, which it excepts: a
  create that stayed in the spool is replayed after the remove that followed it, and
  takes the retired mark off the identity with a boundary before the present
  holder's (`node/identity.go:230`, against `:208`). It takes a file that could not
  be removed or an entry that was refused, and an account that came without a hook.
* `PutBack.NoLoginOfAnothers`: a login that was there when `PutDatabaseUsers`
  looked, and is dropped and made by another account before its turn, is given the
  backup's password and mapped (`cpanel/putback.go:448`), although "do not turn a
  CREATE collision into ALTER of a login created by somebody else" is said, and
  done, of the absent ones (`:443`). Likewise a dump goes into, and the owner's
  grants open, a database that changed hands after it was checked (`:205`, `:357`,
  `:478`).
* `PutBack.UsersAreRefusedFirst`: logins that another account has are refused by
  `PutDatabaseUsers`, when the databases of the same basket have been loaded
  (`cpanel/putback.go:381`, against `agent/items.go:334`).
* `PutBack.ChangeIsSaid`: a call that fails half-way has changed the account, and
  the report says so only if an earlier one succeeded (`agent/items.go:154`, against
  the comment at `:149`).
* `Retention.PlanIsOfItsPolicy`: the plan on record and the policy it is said to
  be of differ after an edit between two reads (`node/retention.go:182`, against
  `nodestore/types.go:111`).

Others:

* *Fleet.* An agent's `CleanStaleStaging` removes output that `staging.go:343` says
  survives a restart (`agent/agent.go:164`). Two controllers fire each slot, and
  nothing in the tables makes a second `CreateJob` fail. A restart in the middle of
  a firing skips the accounts not yet queued, although `store/catalog.go:296` says
  that neither skips a window nor replays one. A provisioning command that dies
  leaves its `maintenance_runs` row running.
* *Identity.* A remove that was served but not answered is spooled too, and replayed
  after the create that reused the name (`webui/lifecycle.go:187`). A pass that
  meets a name which has gone since it looked drops the names it had left, and a
  remove hook that waited for it is answered 5xx (`node/identity.go:469`), so it
  spools what was recorded.
* *Engine.* The alert about a run that never finishes is raised by the goroutine
  that is running it (`node/run.go:761`). A slot that came due over two hours before
  a long backup ended is skipped although the service was up (`run.go:714`).
  `ForgetAccount` does not look for work in flight; the record `RunOnce` holds is
  written back afterwards (`run.go:341`). When the last write of an outcome fails,
  the record says running until the service restarts. `RunPolicyNow` runs a schedule
  that is switched off (`webui/handlers.go:1383`).
* *Termination.* A later holder of a name is let go on the strength of the first
  one's job history (`docs/guide/logs.md:37` speaks of the account); this is the
  second alternative in `AllowedHasCopies`. Forgetting a name that is handed out
  again meanwhile removes the new holder's snapshots (`node/forget_account.go:32`),
  and a backup in flight during it leaves some behind; `ForgottenLeavesNothing` and
  `AllowedHasCopies` except that by `overlap`.
* *Retention.* A withdrawal handled while `recordRetention` is between its read and
  its write is lost (`node/retention.go:339`, against `webui/handlers.go:4483`), a
  run that has begun goes on after one, and `ApproveRetention` takes no plan id, so
  a stale page approves whatever plan is on record.
* *Destinations.* `TestDestination` and the probe write back the whole record they
  read up to half a minute before (`node/node.go:444`, `:479`). `DeleteDestination`
  looks for schedules in one transaction and deletes in the next
  (`nodestore/queries.go:187`). After a crash between restic's init and
  `MarkRepositoryInitialised` a repository is there that no record says was made
  (`node/run.go:63`). Two destinations added at once each become a chunker root, so
  snapshots cannot be copied between them (`README.md:329`).
* *Recovery centre.* `consume` reads the clock before it takes the lock that guards
  the spent nonces (`webui/session_auth.go:197`, `:205`): a request held between the
  two while the expiry passes, and while another clears what has expired, is
  accepted with a capability that has served already, although the comment at `:53`
  says that one cannot be replayed. That is after the lifetime, which is all
  `ServesOnce` excepts.
* *Operator's desk.* A basket is read again after the page that listed it was
  confirmed (`webui/handlers.go:4676`); what is added between that and `EmptyBasket`
  is emptied without having been restored (`:4713`). A confirmed request can be sent
  again while the process lives (`webui/confirm.go:18`). A basket an operator fills
  for a removed account after its removal was recorded is handed to the next holder
  of the name: `AccountCreated` empties none (`node/identity.go:216`, against the
  comment at `:553`).
* *Upgrade.* Work queued after `StartUpgrade` looked for work in flight is cut by
  the restart (`node/upgrade.go:115`).

## Not modelled

Cryptography, certificates and key files; notifications; the wording of messages,
pages and logs, and settings forms; restic's command lines and output; how archives
are packed, listed and split into items; remote storage; the fleet's cron jobs
besides provisioning; installation and removal of the program. Time is abstracted
to what it is compared with. The database and bbolt are taken to be what they
promise: one transaction is one step, except in `ClaimRace`, which is about what
READ COMMITTED does not promise. Two controllers at once are only in `ClaimRace`.

## What is left

In order of what would hurt most if it were wrong:

1. **Identity and Termination together**: a removal allowed on a former holder's
   jobs (each is modelled, and excepted, in its own module).
2. **Selection rules of granular restores** as operators against a reference.
