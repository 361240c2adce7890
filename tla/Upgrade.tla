------------------------------- MODULE Upgrade -------------------------------
(* Finding, fetching and installing a newer build over the one that runs.   *)
(*                                                                          *)
(* The service checks what is published, an operator agrees to a version,   *)
(* a goroutine downloads and verifies it, and an installer outside the      *)
(* service replaces the binary and restarts the service that started it.    *)
(* What became of it is read back from disk by whoever looks at the page.   *)
(* Meanwhile whoever can push a branch or make a tag publishes what they    *)
(* like, the channel is changed, backups start, and the service dies.       *)
(*                                                                          *)
(* Builds are numbered in the order of their commits.  Build 0 is somebody's*)
(* own: it says nothing of where it came from, and as the contents of a     *)
(* tarball it is anything the release key did not sign.                     *)
EXTENDS Naturals, FiniteSets

CONSTANTS
    MaxBuild,
    Tags,          \* builds that are released versions
    First,         \* builds this server may start from
    Pushes,        \* what may be put where: a place, checksums, a signature, a tarball
    MaxAttempts,   \* upgrades in a behaviour
    MaxPublished,  \* changes of what is published
    MaxChoices,    \* changes of the channel and checks for updates
    MaxWork,       \* backups that start
    MaxCrashes

Builds == 1..MaxBuild
Channels == {"releases", "dist"}
Attempts == 1..MaxAttempts
Dist == 0      \* the branch, among the places something is published
Places == Tags \cup {Dist}

ASSUME UpgradeAssumption ==
    /\ MaxBuild \in Nat /\ First \subseteq 0..MaxBuild /\ Tags \subseteq Builds /\ Tags # {}
    /\ Pushes \subseteq [place : Places, sums : Builds, signed : BOOLEAN, tarball : 0..MaxBuild]
    /\ {MaxAttempts, MaxPublished, MaxChoices, MaxWork, MaxCrashes} \subseteq Nat

VARIABLES
    running,     \* the build this process is (agent.Version)
    channel,     \* Settings.UpdateChannel
    found,       \* UpdateState: what the last check found, and where
    asking,      \* channels a check in flight is reading
    published,   \* what is at each place: checksums for a build, signed or not, and a tarball
    latest,      \* the tag GitHub calls the latest release
    record,      \* UpgradeState
    upgrading,   \* Engine.upgrading
    agreed,      \* StartUpgrade calls that are past their checks
    task,        \* runUpgrade on its goroutine
    dir,         \* the directory a version is unpacked in
    installer,   \* the transient unit of each attempt
    old,         \* attempts begun more than upgradeGivesUp ago
    poll,        \* UpgradeStatus, between its read and its write
    working, works, \* whether a job or restore is running, and how many have begun
    cut,         \* which attempt's restart interrupted which work
    counts

sources == <<published, latest>>
checks == <<channel, found, asking>>
work == <<working, works>>
vars == <<running, checks, sources, record, upgrading, agreed, task, dir,
          installer, old, poll, work, cut, counts>>

NoRecord == [attempt |-> 0, version |-> 0, stage |-> "none", failed |-> FALSE, status |-> FALSE]
NoTask == [pc |-> "idle", attempt |-> 0, version |-> 0, from |-> 0, looked |-> 0, sums |-> 0]
NoDir == [attempt |-> 0, holds |-> 0, status |-> "none"]
NoUnit == [state |-> "none", version |-> 0, holds |-> 0, from |-> 0, looked |-> 0]
Unfinished(r) == r.stage \in {"downloading", "installing"}

Init ==
    /\ running \in First
    /\ channel \in Channels /\ found = [version |-> 0, channel |-> channel] /\ asking = {}
    /\ published = [p \in Places |-> LET b == IF p = Dist THEN MaxBuild ELSE p
                                     IN  [sums |-> b, signed |-> TRUE, tarball |-> b]]
    /\ latest \in {t \in Tags : \A s \in Tags : s <= t}
    /\ record = NoRecord /\ upgrading = FALSE /\ agreed = {} /\ task = NoTask
    /\ dir = [v \in Builds |-> NoDir]
    /\ installer = [a \in Attempts |-> NoUnit]
    /\ old = {} /\ poll = NoRecord
    /\ working = FALSE /\ works = 0 /\ cut = {}
    /\ counts = [attempts |-> 0, published |-> 0, choices |-> 0, crashes |-> 0]

Count(k, max) == counts[k] < max /\ counts' = [counts EXCEPT ![k] = @ + 1]

--------------------------------------------------------------------------
(* What is published, by whoever may push a branch or move a tag: any      *)
(* signed checksums there have ever been, or checksums nobody signed.      *)

Publish(p) ==
    /\ Count("published", MaxPublished)
    /\ published' = [published EXCEPT ![p.place] =
           [sums |-> p.sums, signed |-> p.signed, tarball |-> p.tarball]]
    /\ latest' \in IF p.place \in Tags THEN {p.place, latest} ELSE {latest}
    /\ UNCHANGED <<running, checks, record, upgrading, agreed, task, dir, installer,
                   old, poll, work, cut>>

--------------------------------------------------------------------------
(* Checking for updates.                                                   *)

Newer(current, b) == current \in Tags /\ b \in Tags /\ b > current
BuiltAfter(current, b) == current = 0 \/ b > current

UpdateOffered ==
    /\ found.version # 0
    /\ IF found.channel = "dist" THEN BuiltAfter(running, found.version)
                                 ELSE Newer(running, found.version)

checkForUpdate ==
    /\ Count("choices", MaxChoices)
    /\ asking' = asking \cup {channel}
    /\ UNCHANGED <<running, channel, found, sources, record, upgrading, agreed, task,
                   dir, installer, old, poll, work, cut>>

Latest == latest

\* A check that fails is recorded too, and offers nothing.
askWhatIsPublished(c) ==
    /\ c \in asking /\ asking' = asking \ {c}
    /\ \/ found' = [version |-> 0, channel |-> c]
       \/ c = "releases" /\ found' = [version |-> Latest, channel |-> c]
       \/ /\ c = "dist" /\ published[Dist].signed
          /\ found' = [version |-> published[Dist].sums, channel |-> c]
    /\ UNCHANGED <<running, channel, sources, record, upgrading, agreed, task, dir,
                   installer, old, poll, work, cut, counts>>

handleChooseChannel ==
    /\ Count("choices", MaxChoices)
    /\ channel' \in Channels \ {channel}
    /\ found' = [version |-> 0, channel |-> "releases"]
    /\ UNCHANGED <<running, asking, sources, record, upgrading, agreed, task, dir,
                   installer, old, poll, work, cut>>

--------------------------------------------------------------------------
(* Starting an upgrade.                                                    *)

\* A job or a restore is being worked on; queued work does not count.
workInFlight == working

\* What StartUpgrade asks of a version before anything is begun.
MayInstall(v) ==
    /\ channel = "dist" \/ v \in Tags
    /\ v = found.version /\ found.channel = channel
    /\ UpdateOffered
    /\ ~workInFlight
    /\ ~Unfinished(record)

StartUpgrade(v) ==
    /\ MayInstall(v)
    /\ counts.attempts < MaxAttempts
    /\ agreed' = agreed \cup {[version |-> v, looked |-> works]}
    /\ UNCHANGED <<running, checks, sources, record, upgrading, task, dir, installer,
                   old, poll, work, cut, counts>>

\* One call wins the compare-and-swap; the others are told so.
Begin(q) ==
    /\ q \in agreed /\ agreed' = agreed \ {q}
    /\ \/ upgrading /\ UNCHANGED <<record, upgrading, task, counts>>
       \/ /\ ~upgrading /\ Count("attempts", MaxAttempts)
          /\ upgrading' = TRUE
          /\ record' = [NoRecord EXCEPT !.attempt = counts'.attempts, !.version = q.version,
                                        !.stage = "downloading"]
          /\ task' = [NoTask EXCEPT !.pc = "clean", !.attempt = counts'.attempts,
                                    !.version = q.version, !.from = running, !.looked = q.looked]
    /\ UNCHANGED <<running, checks, sources, dir, installer, old, poll, work, cut>>

--------------------------------------------------------------------------
(* runUpgrade.                                                             *)

Step(pc, next) == task.pc = pc /\ task' = [task EXCEPT !.pc = next]
Quiet == UNCHANGED <<running, checks, sources, agreed, installer, old, poll, work, cut, counts>>

\* Mutant: a directory left by an earlier attempt is built on.
CleanedKept(d, a) == [d EXCEPT !.attempt = a]

\* What an earlier attempt left is removed whole.
Cleaned(d, a) == [NoDir EXCEPT !.attempt = a]

Clean ==
    /\ Step("clean", IF channel = "dist" THEN "published" ELSE "sums")
    /\ dir' = [dir EXCEPT ![task.version] = Cleaned(@, task.attempt)]
    /\ Quiet /\ UNCHANGED <<record, upgrading>>

\* On a branch, what is there now has to be newer than what runs.
Published ==
    /\ Step("published", "sums")
    /\ published[Dist].signed /\ BuiltAfter(running, published[Dist].sums)
    /\ Quiet /\ UNCHANGED <<record, upgrading, dir>>

\* Mutant: a signature by the release key is enough.
signedSumsForAny(m, v) == m.signed

\* The checksums are signed, and signed for the version asked for.
signedSums(m, v) == m.signed /\ m.sums = v

Place == IF channel = "dist" THEN Dist ELSE task.version

FetchSums ==
    /\ task.pc = "sums"
    /\ Place \in Places /\ signedSums(published[Place], task.version)
    /\ task' = [task EXCEPT !.pc = "tarball", !.sums = published[Place].sums]
    /\ Quiet /\ UNCHANGED <<record, upgrading, dir>>

\* The tarball is another request, and what is published may have moved.
Fetch ==
    /\ Step("tarball", "unpack")
    /\ Place \in Places /\ published[Place].tarball = task.sums
    /\ dir' = [dir EXCEPT ![task.version].holds = published[Place].tarball]
    /\ Quiet /\ UNCHANGED <<record, upgrading>>

Unpack ==
    /\ Step("unpack", "start")
    /\ record' = [NoRecord EXCEPT !.attempt = task.attempt, !.version = task.version, !.stage = "installing"]
    /\ Quiet /\ UNCHANGED <<upgrading, dir>>

\* systemd-run: the installer lives outside this process.
StartInstaller ==
    /\ task.pc = "start"
    /\ installer' = [installer EXCEPT ![task.attempt] =
           [state |-> "running", version |-> task.version, holds |-> dir[task.version].holds,
            from |-> task.from, looked |-> task.looked]]
    /\ task' = NoTask /\ upgrading' = FALSE
    /\ UNCHANGED <<running, checks, sources, record, agreed, dir, old, poll, work, cut, counts>>

\* Any step may fail, and a download is stopped after twenty minutes: what
\* was fetched is removed and the record says so.
runUpgradeFails ==
    /\ task.pc # "idle"
    /\ record' = [NoRecord EXCEPT !.attempt = task.attempt, !.version = task.version,
                                  !.stage = "done", !.failed = TRUE]
    /\ dir' = [dir EXCEPT ![task.version] = NoDir]
    /\ task' = NoTask /\ upgrading' = FALSE
    /\ Quiet

--------------------------------------------------------------------------
(* The installer, and the restart it makes.                                *)

Restarted(next) ==
    /\ running' = next /\ upgrading' = FALSE /\ agreed' = {} /\ task' = NoTask
    /\ asking' = {} /\ poll' = NoRecord /\ working' = FALSE
    /\ UNCHANGED <<channel, found, sources, record, old, works>>

\* The binary is replaced and the service restarted.
InstallerRestarts(a) ==
    /\ installer[a].state = "running"
    /\ installer' = [installer EXCEPT ![a].state = "restarted"]
    /\ Restarted(installer[a].holds)
    /\ cut' = IF working THEN cut \cup {[attempt |-> a, work |-> works]} ELSE cut
    /\ UNCHANGED <<dir, counts>>

\* It writes its status in the directory it was started in, which a later
\* attempt at the same version may have removed.
InstallerEnds(a) ==
    /\ \E code \in {"ok", "failed"} :
          /\ installer[a].state \in IF code = "ok" THEN {"restarted"} ELSE {"running", "restarted"}
          /\ installer' = [installer EXCEPT ![a].state = code]
          /\ LET v == installer[a].version
             IN  dir' = IF dir[v].attempt = a THEN [dir EXCEPT ![v].status = code] ELSE dir
    /\ UNCHANGED <<running, checks, sources, record, upgrading, agreed, task, old, poll,
                   work, cut, counts>>

Crash ==
    /\ Count("crashes", MaxCrashes)
    /\ Restarted(running)
    /\ UNCHANGED <<dir, installer, cut>>

--------------------------------------------------------------------------
(* Reading back how it went.                                               *)

\* Mutant: an upgrade that has said nothing is waited for.
GivesUpNever(r) == FALSE

GivesUp(r) == r.attempt \in old

UpgradeStatusReads ==
    /\ poll = NoRecord /\ Unfinished(record)
    /\ poll' = record
    /\ UNCHANGED <<running, checks, sources, record, upgrading, agreed, task, dir,
                   installer, old, work, cut, counts>>

\* The download stopped, the installer left its status, or nothing was heard
\* for too long; otherwise it is still running and nothing is written.
UpgradeStatus ==
    LET stopped == poll.stage = "downloading" /\ ~upgrading
        told == poll.stage = "installing" /\ dir[poll.version].status # "none"
        failed == IF stopped THEN TRUE
                  ELSE IF told THEN dir[poll.version].status = "failed"
                  ELSE running # poll.version
    IN  /\ poll # NoRecord /\ poll' = NoRecord
        /\ IF stopped \/ told \/ GivesUp(poll)
           THEN /\ record' = [poll EXCEPT !.stage = "done", !.failed = failed,
                                          !.status = told /\ ~stopped]
                /\ dir' = IF failed \/ poll.stage = "downloading" THEN dir
                          ELSE [dir EXCEPT ![poll.version] = NoDir]
           ELSE UNCHANGED <<record, dir>>
        /\ UNCHANGED <<running, checks, sources, upgrading, agreed, task, installer, old,
                       work, cut, counts>>

\* A record that says an upgrade is running is not cleared.
handleDismissUpgrade ==
    /\ record.stage = "done" /\ record' = NoRecord
    /\ UNCHANGED <<running, checks, sources, upgrading, agreed, task, dir, installer,
                   old, poll, work, cut, counts>>

\* Half an hour goes by; the download has long stopped by then.
TimePasses ==
    /\ task.pc = "idle"
    /\ record.attempt # 0 /\ record.attempt \notin old
    /\ old' = old \cup 1..counts.attempts
    /\ UNCHANGED <<running, checks, sources, record, upgrading, agreed, task, dir,
                   installer, poll, work, cut, counts>>

\* The worker does not look at whether an upgrade is under way.
Work ==
    /\ \/ ~working /\ works < MaxWork /\ working' = TRUE /\ works' = works + 1
       \/ working /\ working' = FALSE /\ UNCHANGED works
    /\ UNCHANGED <<running, checks, sources, record, upgrading, agreed, task, dir,
                   installer, old, poll, cut, counts>>

runUpgrade == Clean \/ Published \/ FetchSums \/ Fetch \/ Unpack \/ StartInstaller \/ runUpgradeFails

Next ==
    \/ \E p \in Pushes : Publish(p)
    \/ checkForUpdate \/ handleChooseChannel
    \/ \E c \in Channels : askWhatIsPublished(c)
    \/ \E v \in Builds : StartUpgrade(v)
    \/ \E q \in agreed : Begin(q)
    \/ runUpgrade
    \/ \E a \in Attempts : InstallerRestarts(a) \/ InstallerEnds(a)
    \/ Crash \/ UpgradeStatusReads \/ UpgradeStatus \/ handleDismissUpgrade \/ TimePasses \/ Work

\* The card polls itself while an upgrade runs, the goroutine goes on, and so
\* does the clock.  Nothing makes an installer finish.
Fairness ==
    /\ WF_vars(runUpgrade) /\ WF_vars(TimePasses)
    /\ WF_vars(UpgradeStatusReads) /\ WF_vars(UpgradeStatus)

Spec == Init /\ [][Next]_vars /\ Fairness

--------------------------------------------------------------------------
(* Properties.                                                             *)

\* Every variable keeps to what the code can store.
TypeOK ==
    /\ running \in 0..MaxBuild /\ channel \in Channels
    /\ found \in [version : 0..MaxBuild, channel : Channels]
    /\ published \in [Places -> [sums : Builds, signed : BOOLEAN, tarball : 0..MaxBuild]]
    /\ latest \in Tags
    /\ record \in [attempt : 0..MaxAttempts, version : 0..MaxBuild, failed : BOOLEAN, status : BOOLEAN,
                    stage : {"none", "downloading", "installing", "done"}]
    /\ task \in [pc : {"idle", "clean", "published", "sums", "tarball", "unpack", "start"},
                  attempt : 0..MaxAttempts, version : 0..MaxBuild, from : 0..MaxBuild,
                  looked : Nat, sums : 0..MaxBuild]
    /\ dir \in [Builds -> [attempt : 0..MaxAttempts, holds : 0..MaxBuild, status : {"none", "ok", "failed"}]]
    /\ installer \in [Attempts -> [state : {"none", "running", "restarted", "ok", "failed"},
                       version : 0..MaxBuild, holds : 0..MaxBuild, from : 0..MaxBuild, looked : Nat]]
    /\ agreed \subseteq [version : Builds, looked : Nat]
    /\ works \in Nat /\ working \in BOOLEAN

\* What an installer runs as root is the build the operator agreed to, signed
\* for that version, and newer than what was running then, whatever is pushed
\* or re-tagged between the check, the checksums and the tarball.
InstallsWhatWasAgreed ==
    \A a \in Attempts : installer[a].state # "none" =>
        /\ installer[a].holds = installer[a].version
        /\ installer[a].holds > installer[a].from

\* A verdict taken from a status file is the verdict of the installer whose
\* directory that is, never one an earlier attempt left there.
VerdictIsTheInstallers ==
    [][record'.status /\ ~record.status =>
          LET a == dir[record'.version].attempt
          IN  installer[a].state = IF record'.failed THEN "failed" ELSE "ok"]_vars

\* Work an installer's restart interrupts had not begun when StartUpgrade
\* looked for work in flight.
OnlyLateWorkIsCut == \A c \in cut : c.work > installer[c.attempt].looked

\* An upgrade that has been started comes to be recorded as finished, however
\* the download, the installer or the service ended, so another can be started.
UpgradeEnds == Unfinished(record) ~> ~Unfinished(record)
==========================================================================
