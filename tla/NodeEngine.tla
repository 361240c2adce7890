----------------------------- MODULE NodeEngine -----------------------------
(***************************************************************************)
(* The queue of the standalone engine (internal/node): one goroutine that  *)
(* schedules and then drains the queue, beside the web handlers and cPanel *)
(* hooks that put work on it, over a state file that survives the process. *)
(*                                                                         *)
(* A record is a backup or a restore, and a rehearsal is a restore that    *)
(* keeps nothing.  Records are numbered in the order they were queued,     *)
(* which is the order PendingWork goes by.  What a finished record says of *)
(* its outcome is left out: JobStatus and Staging have that.               *)
(***************************************************************************)
EXTENDS Naturals

CONSTANTS
  Accounts,    \* account names
  NoAccount,   \* none of them
  Policies,    \* enabled policies that have a destination
  Covers,      \* Covers[p]: the accounts policy p resolves to
  MaxRecords,  \* bound: records the state file ever holds
  MaxSlots,    \* bound: times a schedule comes due
  MaxRestarts, \* bound: restarts of the service
  MaxFaults    \* bound: writes to the state file that fail

ASSUME EngineAssumption ==
  /\ NoAccount \notin Accounts
  /\ Covers \in [Policies -> SUBSET Accounts]
  /\ MaxRecords \in Nat /\ MaxSlots \in Nat /\ MaxRestarts \in Nat /\ MaxFaults \in Nat

VARIABLES
  rec,       \* the records of the state file
  n,         \* how many have been queued
  due,       \* policy -> the slot that has come due and has not fired, or 0
  slots,     \* slots so far
  pc,        \* where Run is: off, sleep, tick, drain, held or work
  looking,   \* the policies this tick has still to look at
  firing,    \* the accounts the fired policy has still to queue
  slot,      \* the slot that fired it
  cur,       \* the record in RunOnce's hands, or 0
  unwritten, \* records whose outcome could not be written
  forgotten, \* records ForgetAccount has deleted
  restarts,  \* restarts so far
  faults     \* failed writes so far

engineVars == <<rec, n, due, slots, pc, looking, firing, slot, cur, unwritten, forgotten, restarts, faults>>

store    == <<rec, n, forgotten>>
schedule == <<due, slots>>
tick     == <<looking, firing, slot>>
events   == <<restarts, faults>>

Ids == 1..MaxRecords

\* batch is the first record of the request that queued this one; slot is 0
\* for work somebody asked for; begun counts the times the work was begun
Records ==
  [kind : {"none", "backup", "restore"}, account : Accounts \cup {NoAccount},
   status : {"none", "pending", "running", "ended"},
   batch : Nat, slot : Nat, begun : Nat]

NoRecord == [kind |-> "none", account |-> NoAccount, status |-> "none",
             batch |-> 0, slot |-> 0, begun |-> 0]

\* Not Status.Terminal: what makes an account busy
InFlight(i) == rec[i].status \in {"pending", "running"}

\* Mutant: only backups count as work in flight
RunningBackupFor(a) == \E i \in Ids : rec[i].account = a /\ InFlight(i) /\ rec[i].kind = "backup"

RunningJobFor(a) == \E i \in Ids : rec[i].account = a /\ InFlight(i)

\* PutJob and PutRestore of a new record, PutJobs of several in one transaction
Put(kind, a, count, s) ==
  /\ n + count <= MaxRecords
  /\ n' = n + count
  /\ rec' = [i \in Ids |->
               IF i \in (n + 1)..(n + count)
               THEN [kind |-> kind, account |-> a, status |-> "pending",
                     batch |-> n + 1, slot |-> s, begun |-> 0]
               ELSE rec[i]]

Fault == faults < MaxFaults /\ faults' = faults + 1

-----------------------------------------------------------------------------
\* Requests.  Each holds workMu from the check to the write.

Up == pc # "off"

\* QueueBackup, QueueCoverageRepair, QueueInitialBackup, QueueRestore and
\* QueueDrill put one record; QueueRemovalPreparation and
\* QueueSuspensionBackup one backup for each policy of a cover they chose
\* before they took the lock
Queue(kind, a, count) ==
  /\ Up /\ ~RunningJobFor(a)
  /\ Put(kind, a, count, 0)
  /\ UNCHANGED <<schedule, pc, tick, cur, unwritten, forgotten, events>>

\* ForgetAccount, which does not look for work in flight: the records go, but
\* not the copy RunOnce holds of one (bound: it happens once)
ForgetAccount(a) ==
  LET of == {i \in 1..n : rec[i].account = a} IN
  /\ Up /\ of # {} /\ forgotten = {}
  /\ rec' = [i \in Ids |-> IF i \notin of THEN rec[i]
                             ELSE IF i = cur THEN [rec[i] EXCEPT !.status = "none"]
                             ELSE NoRecord]
  /\ forgotten' = of
  /\ UNCHANGED <<n, schedule, pc, tick, cur, unwritten, events>>

-----------------------------------------------------------------------------
\* The schedule

\* A policy's cron expression names this moment
SlotArrives(p) ==
  /\ slots < MaxSlots
  /\ slots' = slots + 1 /\ due' = [due EXCEPT ![p] = slots + 1]
  /\ UNCHANGED <<store, pc, tick, cur, unwritten, events>>

\* It falls out of catchUpWindow: the process was down, or its one goroutine
\* at work, for two hours
SlotExpires(p) ==
  /\ pc \in {"off", "tick", "work"} /\ due[p] # 0
  /\ due' = [due EXCEPT ![p] = 0]
  /\ UNCHANGED <<store, slots, pc, tick, cur, unwritten, events>>

BeginTick ==
  /\ pc = "sleep"
  /\ pc' = "tick" /\ looking' = Policies
  /\ UNCHANGED <<store, schedule, firing, slot, cur, unwritten, events>>

\* One policy: LastRunAt is written BEFORE anything is queued for it
LookAt(p) ==
  /\ pc = "tick" /\ p \in looking /\ firing = {}
  /\ looking' = looking \ {p}
  /\ slot' = due[p] /\ firing' = IF due[p] = 0 THEN {} ELSE Covers[p]
  /\ due' = [due EXCEPT ![p] = 0]
  /\ UNCHANGED <<store, slots, pc, cur, unwritten, events>>

\* Its accounts cannot be listed, which passes it over, or SetPolicyLastRun
\* fails, which ends the tick
LookFails(p) ==
  /\ pc = "tick" /\ p \in looking /\ firing = {} /\ due[p] # 0 /\ Fault
  /\ looking' \in {looking \ {p}, {}}
  /\ UNCHANGED <<store, schedule, pc, firing, slot, cur, unwritten, restarts>>

\* One account of the fired policy is queued, or skipped: it is busy, or the
\* record cannot be written (or the bound on records is reached)
QueueNext(a) ==
  /\ pc = "tick" /\ a \in firing
  /\ firing' = firing \ {a}
  /\ \/ ~RunningJobFor(a) /\ Put("backup", a, 1, slot) /\ UNCHANGED faults
     \/ (RunningJobFor(a) \/ n = MaxRecords) /\ UNCHANGED <<rec, n, faults>>
     \/ ~RunningJobFor(a) /\ Fault /\ UNCHANGED <<rec, n>>
  /\ UNCHANGED <<forgotten, schedule, pc, looking, slot, cur, unwritten, restarts>>

EndTick ==
  /\ pc = "tick" /\ looking = {} /\ firing = {}
  /\ pc' = "drain" /\ slot' = 0
  /\ UNCHANGED <<store, schedule, looking, firing, cur, unwritten, events>>

-----------------------------------------------------------------------------
\* The worker

Pending(i) == rec[i].status = "pending"

\* PendingWork: the oldest restore, or else the oldest backup
NextWork(i) ==
  /\ Pending(i)
  /\ \A j \in Ids \ {i} : Pending(j) =>
       IF rec[i].kind = rec[j].kind THEN i < j ELSE rec[i].kind = "restore"

\* RunOnce reads the record; everything after works on this copy of it
Fetch(i) ==
  /\ pc = "drain" /\ NextWork(i)
  /\ pc' = "held" /\ cur' = i
  /\ UNCHANGED <<store, schedule, tick, unwritten, events>>

\* The policy, the account, the destination or the snapshot is not there, or
\* the restore was asked for by a former holder: failJob, failRestore
FailEarly ==
  /\ pc = "held"
  /\ rec' = [rec EXCEPT ![cur].status = "ended"]
  /\ pc' = "drain" /\ cur' = 0
  /\ UNCHANGED <<n, forgotten, schedule, tick, unwritten, events>>

\* The record is written as running, and then the work is begun
StartWork ==
  /\ pc = "held"
  /\ rec' = [rec EXCEPT ![cur].status = "running", ![cur].begun = @ + 1]
  /\ pc' = "work"
  /\ UNCHANGED <<n, forgotten, schedule, tick, cur, unwritten, events>>

\* Either of those writes fails: nothing is begun, and the loop gives up
\* until the next tick
HeldFails ==
  /\ pc = "held" /\ Fault
  /\ pc' = "sleep" /\ cur' = 0
  /\ UNCHANGED <<store, schedule, tick, unwritten, restarts>>

\* The work ends, well or badly, and its outcome is written; a record
\* forgotten meanwhile is written all the same
FinishWork ==
  /\ pc = "work"
  /\ rec' = [rec EXCEPT ![cur].status = "ended"]
  /\ pc' = "drain" /\ cur' = 0
  /\ UNCHANGED <<n, forgotten, schedule, tick, unwritten, events>>

\* The outcome cannot be written: the record is left as it was
FinishFails ==
  /\ pc = "work" /\ Fault
  /\ unwritten' = unwritten \cup {cur}
  /\ pc' = "sleep" /\ cur' = 0
  /\ UNCHANGED <<store, schedule, tick, restarts>>

Drained ==
  /\ pc = "drain" /\ \A i \in Ids : ~Pending(i)
  /\ pc' = "sleep"
  /\ UNCHANGED <<store, schedule, tick, cur, unwritten, events>>

-----------------------------------------------------------------------------
\* The process

\* It dies, or is stopped
Stops ==
  /\ Up /\ restarts < MaxRestarts
  /\ restarts' = restarts + 1
  /\ pc' = "off" /\ looking' = {} /\ firing' = {} /\ slot' = 0 /\ cur' = 0
  /\ UNCHANGED <<store, schedule, unwritten, faults>>

Running == {i \in Ids : rec[i].status = "running"}

\* The records given a status, in one pass over the state file
Marked(ids, status) ==
  rec' = [i \in Ids |-> IF i \in ids THEN [rec[i] EXCEPT !.status = status] ELSE rec[i]]

\* Mutant: interrupted work is put back on the queue
RecoverByRequeueing ==
  /\ pc = "off"
  /\ Marked(Running, "pending") /\ unwritten' = {} /\ pc' = "sleep"
  /\ UNCHANGED <<n, forgotten, schedule, tick, cur, events>>

\* Mutant: a restart closes backups and not restores
RecoverBackupsOnly ==
  /\ pc = "off"
  /\ Marked({i \in Running : rec[i].kind = "backup"}, "ended") /\ unwritten' = {} /\ pc' = "sleep"
  /\ UNCHANGED <<n, forgotten, schedule, tick, cur, events>>

\* RecoverFromRestart: what was running has failed, what was queued is kept
RecoverFromRestart ==
  /\ pc = "off"
  /\ Marked(Running, "ended") /\ unwritten' = {} /\ pc' = "sleep"
  /\ UNCHANGED <<n, forgotten, schedule, tick, cur, events>>

\* A write fails part of the way: New returns the error and the process ends
RecoverFails(closed) ==
  /\ pc = "off" /\ Fault
  /\ closed \subseteq Running /\ closed # Running
  /\ Marked(closed, "ended")
  /\ UNCHANGED <<n, forgotten, schedule, pc, tick, cur, unwritten, restarts>>

-----------------------------------------------------------------------------
EngineInit ==
  /\ rec = [i \in Ids |-> NoRecord] /\ n = 0 /\ forgotten = {}
  /\ due = [p \in Policies |-> 0] /\ slots = 0
  /\ pc = "sleep" /\ looking = {} /\ firing = {} /\ slot = 0 /\ cur = 0
  /\ unwritten = {} /\ restarts = 0 /\ faults = 0

Request ==
  \E a \in Accounts :
    \/ Queue("restore", a, 1)
    \/ \E count \in 1..2 : Queue("backup", a, count)
    \/ ForgetAccount(a)

Scheduling ==
  \/ BeginTick \/ EndTick
  \/ \E p \in Policies : LookAt(p) \/ LookFails(p)
  \/ \E a \in Accounts : QueueNext(a)

Work ==
  \/ \E i \in Ids : Fetch(i)
  \/ FailEarly \/ StartWork \/ HeldFails \/ FinishWork \/ FinishFails \/ Drained

EngineNext ==
  \/ Request \/ Scheduling \/ Work \/ Stops
  \/ RecoverFromRestart \/ \E closed \in SUBSET Ids : RecoverFails(closed)
  \/ \E p \in Policies : SlotArrives(p) \/ SlotExpires(p)

\* Run goes on, the tools it calls return, and the service manager starts the
\* service again
Fairness == WF_engineVars(Scheduling) /\ WF_engineVars(Work) /\ WF_engineVars(RecoverFromRestart)

EngineSpec == EngineInit /\ [][EngineNext]_engineVars /\ Fairness

-----------------------------------------------------------------------------
\* Properties

TypeOK ==
  /\ rec \in [Ids -> Records] /\ n \in 0..MaxRecords
  /\ \A i \in Ids : i > n => rec[i] = NoRecord
  /\ due \in [Policies -> 0..slots] /\ slots \in 0..MaxSlots /\ slot \in 0..slots
  /\ pc \in {"off", "sleep", "tick", "drain", "held", "work"}
  /\ looking \subseteq Policies /\ firing \subseteq Accounts
  /\ cur \in 0..n /\ (pc \in {"held", "work"} <=> cur # 0)
  /\ unwritten \subseteq 1..n /\ forgotten \subseteq 1..n
  /\ restarts \in 0..MaxRestarts /\ faults \in 0..MaxFaults

\* Whatever an account has in flight was asked for by one request: handlers,
\* hooks and the schedule, checking under workMu, never queue beside one
\* another (queueBackup: "Two runs for one account would stage in the same
\* directory").  A record forgotten while RunOnce held a copy comes back
\* when the copy is written, and is excepted.
OneRequestInFlight ==
  \A i, j \in Ids \ forgotten :
    InFlight(i) /\ InFlight(j) /\ rec[i].account = rec[j].account
      => rec[i].batch = rec[j].batch

\* A record says running only while it is being worked on, while the process
\* is down, or because its outcome could not be written: otherwise its account
\* would be busy for ever (RecoverFromRestart).
RunningIsWorkedOn ==
  \A i \in Running : (pc = "work" /\ i = cur) \/ pc = "off" \/ i \in unwritten

\* No record's work is begun twice, whatever crashes or fails to be written:
\* an interrupted restore is closed rather than run again over the account.
BegunAtMostOnce ==
  \A i \in Ids : rec[i].begun <= 1 /\ (Pending(i) => rec[i].begun = 0)

\* A slot queues an account once at most, crashes included: LastRunAt is
\* written before the first account is queued.
OncePerSlot ==
  \A i, j \in Ids :
    i # j /\ rec[i].slot # 0 /\ rec[i].slot = rec[j].slot => rec[i].account # rec[j].account

\* Everything queued is dealt with, across restarts, unless its outcome cannot
\* be written: a restore that goes ahead of every backup, or an error that
\* ends the drain, delays the others and no more.
QueueDrains ==
  \A i \in Ids : InFlight(i) ~> (~InFlight(i) \/ i \in unwritten)
=============================================================================
