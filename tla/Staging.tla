------------------------------- MODULE Staging -------------------------------
(* The staging volume of one server and the work that goes through it.      *)
(*                                                                          *)
(* Backups, rehearsals and restores stage into directories named after what *)
(* they hold ("stage-<key>"); a restore that is not applied leaves its      *)
(* output behind under another prefix ("keep-<key>") for somebody to        *)
(* collect.  One worker does one thing at a time, the process can die       *)
(* between any two steps, and the web interface deletes output while it     *)
(* works.  fleet says which of the two programs this is: an agent under a   *)
(* controller, or the standalone engine.                                    *)
EXTENDS Naturals, FiniteSets, SequencesExt

CONSTANTS
    Accounts,
    NameOf,          \* [Accounts -> Seq], the characters of each account's name
    Restores,        \* restores that may be asked for
    AccountOf,       \* [Restores -> Accounts]
    KindOf,          \* [Restores -> {"account", "items", "files", "verify"}]
    Applies,         \* restores that write into the live account
    HasTarget,       \* files restores with a target directory of their own
    MaxConcurrent,   \* staging.Manager.MaxConcurrent
    MaxCrashes,
    Nothing

ASSUME StagingAssumption ==
    /\ NameOf \in [Accounts -> Seq(STRING)]
    /\ \A a, b \in Accounts : NameOf[a] = NameOf[b] => a = b
    /\ \A a \in Accounts : "@" \notin Range(NameOf[a])
    /\ AccountOf \in [Restores -> Accounts]
    /\ KindOf \in [Restores -> {"account", "items", "files", "verify"}]
    /\ Applies \subseteq {r \in Restores : KindOf[r] \in {"account", "items"}}
    /\ HasTarget \subseteq {r \in Restores : KindOf[r] = "files"}
    /\ MaxConcurrent \in Nat \ {0}
    /\ MaxCrashes \in Nat
    /\ Nothing \notin Restores \cup Accounts

VARIABLES
    fleet,      \* the process is a fleet's agent; never changes
    up,         \* the process is running
    stage,      \* keys of the directories being worked in
    keep,       \* finished output: its key and the restore that produced it
    task,       \* what the worker is doing
    record,     \* [Restores -> the stored restore]
    touched,    \* restores that have written into the live account
    delivered,  \* restores whose files were left in their own target
    discarded,  \* <<restore, why>>: output removed on purpose
    crashes

vars == <<fleet, up, stage, keep, task, record, touched, delivered, discarded, crashes>>

-----------------------------------------------------------------------------
(* Directory names.  A cPanel account name may hold a hyphen and never "@". *)

(* Mutant: a separator that a name can hold                                 *)
GroupUnseparated(r) ==
    (IF KindOf[r] = "items" THEN <<"items-">> ELSE <<"restore-">>)
        \o NameOf[AccountOf[r]] \o <<"-">>

Group(r) ==
    (IF KindOf[r] = "items" THEN <<"items-">> ELSE <<"restore-">>)
        \o NameOf[AccountOf[r]] \o <<"@">>

(* Mutant: restores of an account share a directory                         *)
RestoreKeyOfAccount(r) ==
    IF KindOf[r] = "verify" THEN <<"drill-">> \o NameOf[AccountOf[r]] ELSE Group(r)

RestoreKey(r) ==
    IF KindOf[r] = "verify"
    THEN <<"drill-">> \o NameOf[AccountOf[r]]
    ELSE Group(r) \o <<r>>

BackupKey(a) == NameOf[a]

Keys == {BackupKey(a) : a \in Accounts} \cup {RestoreKey(r) : r \in Restores}

Outputs == [key: Keys, of: Restores]

-----------------------------------------------------------------------------
Idle == [backup |-> Nothing, restore |-> Nothing, at |-> "idle"]

Backing(a) == [backup |-> a, restore |-> Nothing, at |-> "work"]
Restoring(r, at) == [backup |-> Nothing, restore |-> r, at |-> at]

Fresh == [status |-> "absent", archive |-> <<>>, applied |-> FALSE]

Stored(st, archive, applied) == [status |-> st, archive |-> archive, applied |-> applied]

Free == up /\ task.at = "idle"

(* The worker's report is stored and the worker is free again.              *)
Report(r, st, archive, applied) ==
    /\ record' = [record EXCEPT ![r] = Stored(st, archive, applied)]
    /\ task' = Idle

Fail(r) == Report(r, "failed", <<>>, FALSE)

(* Allocate refuses a directory that is there already, and more than        *)
(* MaxConcurrent of them; it may also find too little room.                 *)
CanAllocate(key) == key \notin stage /\ Cardinality(stage) < MaxConcurrent

-----------------------------------------------------------------------------
(* Backups.                                                                 *)

StageAccount(a) ==
    /\ Free
    /\ CanAllocate(BackupKey(a))
    /\ stage' = stage \cup {BackupKey(a)}
    /\ task' = Backing(a)
    /\ UNCHANGED <<fleet, up, keep, record, touched, delivered, discarded, crashes>>

(* Every way out of RunJob after Allocate releases the directory.           *)
FinishBackup ==
    /\ up /\ task.backup # Nothing
    /\ stage' = stage \ {BackupKey(task.backup)}
    /\ task' = Idle
    /\ UNCHANGED <<fleet, up, keep, record, touched, delivered, discarded, crashes>>

-----------------------------------------------------------------------------
(* Restores and rehearsals.                                                 *)

Ask(r) ==
    /\ record[r].status = "absent"
    /\ record' = [record EXCEPT ![r] = Stored("pending", <<>>, FALSE)]
    /\ UNCHANGED <<fleet, up, stage, keep, task, touched, delivered, discarded, crashes>>

Start(r) ==
    /\ Free
    /\ record[r].status = "pending"
    /\ record' = [record EXCEPT ![r] = Stored("running", <<>>, FALSE)]
    /\ task' = Restoring(r, IF KindOf[r] = "verify" THEN "allocate" ELSE "resolve")
    /\ UNCHANGED <<fleet, up, stage, keep, touched, delivered, discarded, crashes>>

(* The repository, the snapshot or its size cannot be read, or there is no  *)
(* room: nothing has been staged.                                           *)
FailEarly ==
    /\ up /\ task.at \in {"resolve", "allocate"}
    /\ Fail(task.restore)
    /\ UNCHANGED <<fleet, up, stage, keep, touched, delivered, discarded, crashes>>

SupersededBy(r) == {o \in keep : IsPrefix(Group(r), o.key)}

SupersedeOutputs ==
    /\ up /\ task.at = "resolve"
    /\ keep' = keep \ SupersededBy(task.restore)
    /\ discarded' = discarded \cup {<<o.of, task.restore>> : o \in SupersededBy(task.restore)}
    /\ task' = Restoring(task.restore, "allocate")
    /\ UNCHANGED <<fleet, up, stage, record, touched, delivered, crashes>>

Allocate ==
    /\ up /\ task.at = "allocate"
    /\ CanAllocate(RestoreKey(task.restore))
    /\ stage' = stage \cup {RestoreKey(task.restore)}
    /\ task' = Restoring(task.restore, "stage")
    /\ UNCHANGED <<fleet, up, keep, record, touched, delivered, discarded, crashes>>

Released(r) == stage \ {RestoreKey(r)}

(* Mutant: an error path that leaves the directory                          *)
FailWithoutRelease ==
    /\ up /\ task.at \in {"stage", "apply", "keep"}
    /\ Fail(task.restore)
    /\ UNCHANGED <<fleet, up, stage, keep, touched, delivered, discarded, crashes>>

(* Anything up to the first write fails: the directory is released.         *)
FailStaged ==
    /\ up /\ task.at \in {"stage", "apply", "keep"}
    /\ stage' = Released(task.restore)
    /\ Fail(task.restore)
    /\ UNCHANGED <<fleet, up, keep, touched, delivered, discarded, crashes>>

(* The account's archive or the selected items are ready.                   *)
Rebuild ==
    /\ up /\ task.at = "stage"
    /\ KindOf[task.restore] \in {"account", "items"}
    /\ task' = Restoring(task.restore, IF task.restore \in Applies THEN "apply" ELSE "keep")
    /\ UNCHANGED <<fleet, up, stage, keep, record, touched, delivered, discarded, crashes>>

(* A rehearsal verified what it rebuilt, and keeps nothing.                 *)
FinishDrill ==
    /\ up /\ task.at = "stage" /\ KindOf[task.restore] = "verify"
    /\ stage' = Released(task.restore)
    /\ Report(task.restore, "success", <<>>, FALSE)
    /\ UNCHANGED <<fleet, up, keep, touched, delivered, discarded, crashes>>

(* The files are left in the target; without one they are under the staging *)
(* directory, which is released when restoreFiles returns.                  *)
RestoreFiles ==
    /\ up /\ task.at = "stage" /\ KindOf[task.restore] = "files"
    /\ stage' = Released(task.restore)
    /\ delivered' = IF task.restore \in HasTarget THEN delivered \cup {task.restore} ELSE delivered
    /\ Report(task.restore, "success", <<>>, FALSE)
    /\ UNCHANGED <<fleet, up, keep, touched, discarded, crashes>>

(* The live account is written into.  restorepkg can fail part of the way,  *)
(* and confirmRestored can find that what it reported is not there: both    *)
(* are returned as an error of restoreAccount, which says nothing of what   *)
(* was written.  applyItems names the parts it had finished, not the one it *)
(* failed in.                                                               *)
WriteLive(succeeds) ==
    /\ up /\ task.at = "apply"
    /\ touched' = touched \cup {task.restore}
    /\ stage' = Released(task.restore)
    /\ IF succeeds
       THEN Report(task.restore, "success", <<>>, TRUE)
       ELSE \E wrote \in BOOLEAN : /\ wrote => KindOf[task.restore] = "items"
                                   /\ Report(task.restore, "failed", <<>>, wrote)
    /\ UNCHANGED <<fleet, up, keep, delivered, discarded, crashes>>

Replacing(key, r) == {o \in keep : o.key # key} \cup {[key |-> key, of |-> r]}

Retain ==
    /\ up /\ task.at = "keep"
    /\ stage' = Released(task.restore)
    /\ keep' = Replacing(RestoreKey(task.restore), task.restore)
    /\ task' = Restoring(task.restore, "kept")
    /\ UNCHANGED <<fleet, up, record, touched, delivered, discarded, crashes>>

(* The path of an archive is checked before success is claimed for it.      *)
FinishKept ==
    /\ up /\ task.at = "kept"
    /\ IF KindOf[task.restore] = "items" \/ \E o \in keep : o.key = RestoreKey(task.restore)
       THEN Report(task.restore, "success", RestoreKey(task.restore), FALSE)
       ELSE Fail(task.restore)
    /\ UNCHANGED <<fleet, up, stage, keep, touched, delivered, discarded, crashes>>

-----------------------------------------------------------------------------
(* Output nobody came back for, or that somebody deleted: standalone only.  *)
SweepWorkdir(o) ==
    /\ ~ fleet
    /\ o \in keep
    /\ keep' = keep \ {o}
    /\ discarded' = discarded \cup {<<o.of, Nothing>>}
    /\ UNCHANGED <<fleet, up, stage, task, record, touched, delivered, crashes>>

Crash ==
    /\ up /\ crashes < MaxCrashes
    /\ up' = FALSE
    /\ task' = Idle
    /\ crashes' = crashes + 1
    /\ UNCHANGED <<fleet, stage, keep, record, touched, delivered, discarded>>

Interrupted(r, st) == IF record[r].status = "running" THEN Stored(st, <<>>, FALSE) ELSE record[r]

(* The agent removes every directory.  Its restores go back on the queue    *)
(* when their leases run out, the ones that write into the account fail.    *)
CleanStaleStaging ==
    /\ fleet /\ ~ up
    /\ up' = TRUE
    /\ stage' = {}
    /\ keep' = {}
    /\ record' = [r \in Restores |-> Interrupted(r, IF r \in Applies THEN "failed" ELSE "pending")]
    /\ UNCHANGED <<fleet, task, touched, delivered, discarded, crashes>>

(* The engine fails what was in flight and removes what was being staged.   *)
RecoverFromRestart ==
    /\ ~ fleet /\ ~ up
    /\ up' = TRUE
    /\ stage' = {}
    /\ record' = [r \in Restores |-> Interrupted(r, "failed")]
    /\ UNCHANGED <<fleet, keep, task, touched, delivered, discarded, crashes>>

-----------------------------------------------------------------------------
Init ==
    /\ fleet \in BOOLEAN
    /\ up = TRUE
    /\ stage = {} /\ keep = {}
    /\ task = Idle
    /\ record = [r \in Restores |-> Fresh]
    /\ touched = {} /\ delivered = {} /\ discarded = {}
    /\ crashes = 0

Next ==
    \/ \E a \in Accounts : StageAccount(a)
    \/ FinishBackup
    \/ \E r \in Restores : Ask(r) \/ Start(r)
    \/ FailEarly \/ SupersedeOutputs \/ Allocate \/ FailStaged \/ Rebuild
    \/ FinishDrill \/ RestoreFiles
    \/ \E succeeds \in BOOLEAN : WriteLive(succeeds)
    \/ Retain \/ FinishKept
    \/ \E o \in keep : SweepWorkdir(o)
    \/ Crash \/ CleanStaleStaging \/ RecoverFromRestart

Spec == Init /\ [][Next]_vars

-----------------------------------------------------------------------------
Tasks == [backup: Accounts \cup {Nothing}, restore: Restores \cup {Nothing},
          at: {"idle", "work", "resolve", "allocate", "stage", "apply", "keep", "kept"}]

Records == [status: {"absent", "pending", "running", "success", "failed"},
            archive: Keys \cup {<<>>}, applied: BOOLEAN]

TypeOK ==
    /\ fleet \in BOOLEAN
    /\ up \in BOOLEAN
    /\ stage \subseteq Keys
    /\ keep \subseteq Outputs
    /\ task \in Tasks
    /\ record \in [Restores -> Records]
    /\ touched \subseteq Restores /\ delivered \subseteq Restores
    /\ discarded \subseteq Restores \X (Restores \cup {Nothing})
    /\ crashes \in 0..MaxCrashes

(* A stored restore's archive is its own or is gone: a later restore of the *)
(* same account never takes its place, and a download never hands over a    *)
(* different backup under the old one's date.                               *)
ArchiveIsOwn ==
    \A r \in Restores : \A o \in keep : o.key = record[r].archive => o.of = r

(* SupersedeOutputs clears output of the same account and the same kind of  *)
(* restore only, whatever the account is called.                            *)
SupersedesItsOwn ==
    \A pair \in discarded : pair[2] # Nothing =>
        /\ AccountOf[pair[1]] = AccountOf[pair[2]]
        /\ (KindOf[pair[1]] = "items") = (KindOf[pair[2]] = "items")

(* A worker with nothing to do has nothing staged: Allocate would refuse    *)
(* the account from then on, and the directory would hold one of the        *)
(* MaxConcurrent places.                                                    *)
NothingLeftStaged ==
    Free => stage = {}

(* Reported success is a promise that there is something to collect, until  *)
(* it is superseded, expires or is deleted; a restart is none of these.     *)
SuccessCanBeCollected ==
    \A r \in Restores :
        (/\ record[r].status = "success"
         /\ r \notin Applies /\ KindOf[r] # "verify"
         /\ \A why \in Restores \cup {Nothing} : <<r, why>> \notin discarded)
        => r \in delivered \/ \E o \in keep : o.of = r /\ o.key = record[r].archive

(* The standalone engine keeps that promise for archives and items.         *)
ArchiveCanBeCollected == ~ fleet => SuccessCanBeCollected

(* A restore that wrote into the live account is recorded as applied, on a  *)
(* failure that got part of the way above all.                              *)
AppliedIsRecorded ==
    \A r \in touched : record[r].status \in {"success", "failed"} => record[r].applied
=============================================================================
