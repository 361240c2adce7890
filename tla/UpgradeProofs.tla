----------------------------- MODULE UpgradeProofs -----------------------------
(* What an upgrade installs and whose verdict is recorded, for any builds,   *)
(* pushes, and numbers of attempts, checks, crashes and backups.             *)
EXTENDS Upgrade, TLAPS

\* What the type invariant does not say of requests in the middle of something
Between ==
    /\ counts \in [attempts : Nat, published : Nat, choices : Nat, crashes : Nat]
    /\ counts.attempts <= MaxAttempts
    /\ poll \in [attempt : 0..MaxAttempts, version : 0..MaxBuild, failed : BOOLEAN, status : BOOLEAN,
                 stage : {"none", "downloading", "installing", "done"}]
    /\ record.stage # "none" => record.version \in Builds
    /\ poll # NoRecord => poll.version \in Builds

\* A version that was offered is newer than what runs until there is a restart,
\* and a restart ends everything that was offered
AgreedIsNewer == \A q \in agreed : q.version > running

\* Attempts are numbered as they begin
Numbered == \A a \in Attempts : a > counts.attempts => installer[a].state = "none"

\* The download under way is of the last attempt, and runs in the process that
\* began it
TaskIsTheLast ==
    task.pc # "idle" =>
        /\ task.version \in Builds /\ task.attempt \in Attempts
        /\ task.attempt = counts.attempts /\ installer[task.attempt].state = "none"
        /\ task.from = running /\ task.version > running

\* Its directory is its own, and once fetched it holds what was verified
TaskHasFetched ==
    /\ task.pc \notin {"idle", "clean"} =>
          dir[task.version].attempt = task.attempt /\ dir[task.version].status = "none"
    /\ task.pc \in {"tarball", "unpack", "start"} => task.sums = task.version
    /\ task.pc \in {"unpack", "start"} => dir[task.version].holds = task.version

\* A status file is the verdict of the installer its directory belongs to
StatusIsItsInstallers ==
    \A v \in Builds : dir[v].status # "none" =>
        dir[v].attempt \in Attempts /\ installer[dir[v].attempt].state = dir[v].status

Underway == AgreedIsNewer /\ Numbered /\ TaskIsTheLast /\ TaskHasFetched /\ StatusIsItsInstallers

IInv == TypeOK /\ Between /\ Underway /\ InstallsWhatWasAgreed

-----------------------------------------------------------------------------
LEMMA Initially == Init => IInv
<1> SUFFICES ASSUME Init PROVE IInv
  OBVIOUS
<1> USE UpgradeAssumption
<1>1. published \in [Places -> [sums : Builds, signed : BOOLEAN, tarball : 0..MaxBuild]]
  <2>1. ASSUME NEW p \in Places
        PROVE  LET b == IF p = Dist THEN MaxBuild ELSE p IN b \in Builds /\ b \in 0..MaxBuild
    <3>1. MaxBuild \in Builds
      <4>1. PICK t \in Tags : t \in 1..MaxBuild
        BY DEF Builds
      <4> QED
        BY <4>1 DEF Builds
    <3> QED
      BY <3>1 DEF Places, Dist, Builds
  <2>2. ASSUME NEW p \in Places
        PROVE  (LET b == IF p = Dist THEN MaxBuild ELSE p IN [sums |-> b, signed |-> TRUE, tarball |-> b])
                 \in [sums : Builds, signed : BOOLEAN, tarball : 0..MaxBuild]
    BY <2>1
  <2> QED
    BY <2>2 DEF Init
<1>2. latest \in Tags
  BY DEF Init
<1>3. NoRecord \in [attempt : 0..MaxAttempts, version : 0..MaxBuild, failed : BOOLEAN, status : BOOLEAN,
                    stage : {"none", "downloading", "installing", "done"}]
      /\ NoRecord.stage = "none" /\ NoRecord.version = 0
  BY DEF NoRecord
<1>4. NoTask \in [pc : {"idle", "clean", "published", "sums", "tarball", "unpack", "start"},
                  attempt : 0..MaxAttempts, version : 0..MaxBuild, from : 0..MaxBuild,
                  looked : Nat, sums : 0..MaxBuild] /\ NoTask.pc = "idle"
  BY DEF NoTask
<1>5. NoDir \in [attempt : 0..MaxAttempts, holds : 0..MaxBuild, status : {"none", "ok", "failed"}]
      /\ NoDir.status = "none"
  BY DEF NoDir
<1>6. NoUnit \in [state : {"none", "running", "restarted", "ok", "failed"},
                  version : 0..MaxBuild, holds : 0..MaxBuild, from : 0..MaxBuild, looked : Nat]
      /\ NoUnit.state = "none"
  BY DEF NoUnit
<1>7. TypeOK
  BY <1>1, <1>2, <1>3, <1>4, <1>5, <1>6 DEF Init, TypeOK
<1>8. Between
  BY <1>3 DEF Init, Between
<1>9. Underway /\ InstallsWhatWasAgreed
  BY <1>4, <1>5, <1>6 DEF Init, Underway, AgreedIsNewer, Numbered, TaskIsTheLast, TaskHasFetched,
     StatusIsItsInstallers, InstallsWhatWasAgreed
<1> QED
  BY <1>7, <1>8, <1>9 DEF IInv

\* Steps that begin, fetch, install and restart nothing.
LEMMA Elsewhere ==
    ASSUME IInv, UNCHANGED <<running, agreed, task, dir, installer>>, counts'.attempts = counts.attempts
    PROVE  Underway' /\ InstallsWhatWasAgreed'
<1>1. AgreedIsNewer' /\ Numbered' /\ TaskIsTheLast'
  BY DEF IInv, Underway, AgreedIsNewer, Numbered, TaskIsTheLast
<1>2. TaskHasFetched' /\ StatusIsItsInstallers'
  BY DEF IInv, Underway, TaskHasFetched, StatusIsItsInstallers
<1> QED
  BY <1>1, <1>2 DEF Underway, IInv, InstallsWhatWasAgreed

LEMMA CountIs ==
    ASSUME IInv, NEW k \in {"published", "choices", "crashes"}, NEW max, Count(k, max)
    PROVE  /\ counts' \in [attempts : Nat, published : Nat, choices : Nat, crashes : Nat]
           /\ counts'.attempts = counts.attempts
BY DEF Count, IInv, Between

-----------------------------------------------------------------------------
(* Publishing and checking.                                                 *)

LEMMA PublishKeeps ==
    ASSUME IInv, NEW p \in Pushes, Publish(p)
    PROVE  IInv'
<1> USE UpgradeAssumption
<1>1. /\ published' = [published EXCEPT ![p.place] = [sums |-> p.sums, signed |-> p.signed, tarball |-> p.tarball]]
      /\ latest' \in Tags
      /\ UNCHANGED <<running, channel, found, asking, record, upgrading, agreed, task, dir, installer,
                     old, poll, working, works, cut>>
  BY DEF Publish, checks, work, IInv, TypeOK
<1>2. /\ counts' \in [attempts : Nat, published : Nat, choices : Nat, crashes : Nat]
      /\ counts'.attempts = counts.attempts
  BY CountIs DEF Publish
<1>3. p \in [place : Places, sums : Builds, signed : BOOLEAN, tarball : 0..MaxBuild]
  OBVIOUS
<1>4. published' \in [Places -> [sums : Builds, signed : BOOLEAN, tarball : 0..MaxBuild]]
  BY <1>1, <1>3 DEF IInv, TypeOK
<1>5. TypeOK' /\ Between'
  BY <1>1, <1>2, <1>4 DEF IInv, TypeOK, Between
<1> QED
  BY <1>1, <1>2, <1>5, Elsewhere DEF IInv

LEMMA ChecksKeep ==
    ASSUME IInv,
           \/ checkForUpdate \/ handleChooseChannel
           \/ \E c \in Channels : askWhatIsPublished(c)
    PROVE  IInv'
<1> USE UpgradeAssumption
<1>1. UNCHANGED <<running, published, latest, record, upgrading, agreed, task, dir, installer,
                  old, poll, working, works, cut>>
  BY DEF checkForUpdate, handleChooseChannel, askWhatIsPublished, sources, work
<1>2. /\ counts' \in [attempts : Nat, published : Nat, choices : Nat, crashes : Nat]
      /\ counts'.attempts = counts.attempts
  BY CountIs DEF checkForUpdate, handleChooseChannel, askWhatIsPublished, IInv, Between
<1>3. channel' \in Channels
  BY DEF checkForUpdate, handleChooseChannel, askWhatIsPublished, IInv, TypeOK
<1>4. found' \in [version : 0..MaxBuild, channel : Channels]
  <2>1. /\ published[Dist].sums \in 0..MaxBuild /\ latest \in 0..MaxBuild /\ 0 \in 0..MaxBuild
        /\ "releases" \in Channels /\ "dist" \in Channels
    <3>1. published[Dist] \in [sums : Builds, signed : BOOLEAN, tarball : 0..MaxBuild] /\ latest \in Builds
      BY DEF IInv, TypeOK, Places
    <3> QED
      BY <3>1 DEF Builds, Channels
  <2>2. ASSUME NEW v \in 0..MaxBuild, NEW c \in Channels
        PROVE  [version |-> v, channel |-> c] \in [version : 0..MaxBuild, channel : Channels]
    OBVIOUS
  <2>3. CASE checkForUpdate
    BY <2>3 DEF checkForUpdate, IInv, TypeOK
  <2>4. CASE handleChooseChannel
    BY <2>4, <2>1, <2>2 DEF handleChooseChannel
  <2>5. ASSUME NEW c \in Channels, askWhatIsPublished(c)
        PROVE  found' \in [version : 0..MaxBuild, channel : Channels]
    BY <2>5, <2>1, <2>2 DEF askWhatIsPublished, Latest
  <2> QED
    BY <2>3, <2>4, <2>5
<1>5. TypeOK' /\ Between'
  BY <1>1, <1>2, <1>3, <1>4 DEF IInv, TypeOK, Between
<1> QED
  BY <1>1, <1>2, <1>5, Elsewhere DEF IInv

-----------------------------------------------------------------------------
(* Starting an upgrade.                                                     *)

Records == [attempt : 0..MaxAttempts, version : 0..MaxBuild, failed : BOOLEAN, status : BOOLEAN,
            stage : {"none", "downloading", "installing", "done"}]
Tasks == [pc : {"idle", "clean", "published", "sums", "tarball", "unpack", "start"},
          attempt : 0..MaxAttempts, version : 0..MaxBuild, from : 0..MaxBuild,
          looked : Nat, sums : 0..MaxBuild]
Dirs == [attempt : 0..MaxAttempts, holds : 0..MaxBuild, status : {"none", "ok", "failed"}]
Units == [state : {"none", "running", "restarted", "ok", "failed"},
          version : 0..MaxBuild, holds : 0..MaxBuild, from : 0..MaxBuild, looked : Nat]

\* What the empty records are.
LEMMA Empties ==
    /\ NoRecord \in Records /\ NoRecord.stage = "none"
    /\ NoTask \in Tasks /\ NoTask.pc = "idle"
    /\ NoDir \in Dirs /\ NoDir.status = "none"
    /\ 0..MaxAttempts = {0} \cup Attempts
BY UpgradeAssumption DEF NoRecord, Records, NoTask, Tasks, NoDir, Dirs, Attempts

\* An offer is newer than what runs, so one that is agreed to is too.
LEMMA StartKeeps ==
    ASSUME IInv, NEW v \in Builds, StartUpgrade(v)
    PROVE  IInv'
<1> USE UpgradeAssumption
<1>1. /\ agreed' = agreed \cup {[version |-> v, looked |-> works]}
      /\ UNCHANGED <<running, channel, found, asking, published, latest, record, upgrading, task, dir,
                     installer, old, poll, working, works, cut, counts>>
  BY DEF StartUpgrade, checks, sources, work
<1>2. v > running
  <2>1. v = found.version /\ UpdateOffered
    BY DEF StartUpgrade, MayInstall
  <2>2. v \in 1..MaxBuild /\ running \in 0..MaxBuild /\ MaxBuild \in Nat
    <3>1. running \in 0..MaxBuild
      BY DEF IInv, TypeOK
    <3> QED
      BY <3>1 DEF Builds
  <2> QED
    BY <2>1, <2>2 DEF UpdateOffered, BuiltAfter, Newer
<1>3. TypeOK' /\ Between'
  BY <1>1 DEF IInv, TypeOK, Between
<1>4. AgreedIsNewer'
  BY <1>1, <1>2 DEF IInv, Underway, AgreedIsNewer
<1>5. Numbered' /\ TaskIsTheLast' /\ TaskHasFetched' /\ StatusIsItsInstallers' /\ InstallsWhatWasAgreed'
  BY <1>1 DEF IInv, Underway, Numbered, TaskIsTheLast, TaskHasFetched, StatusIsItsInstallers,
     InstallsWhatWasAgreed
<1> QED
  BY <1>3, <1>4, <1>5 DEF IInv, Underway

\* The attempt that begins has a number none had before.
LEMMA BeginKeeps ==
    ASSUME IInv, NEW q \in agreed, Begin(q)
    PROVE  IInv'
<1> USE UpgradeAssumption
<1>1. /\ agreed' \subseteq agreed
      /\ UNCHANGED <<running, channel, found, asking, published, latest, dir, installer, old, poll,
                     working, works, cut>>
  BY DEF Begin, checks, sources, work
<1>2. q.version \in Builds /\ q.version \in 0..MaxBuild /\ q.looked \in Nat /\ q.version > running
  <2>1. q \in [version : Builds, looked : Nat] /\ q.version > running
    BY DEF IInv, TypeOK, Underway, AgreedIsNewer
  <2> QED
    BY <2>1 DEF Builds
<1>3. AgreedIsNewer'
  BY <1>1 DEF IInv, Underway, AgreedIsNewer
<1>4. StatusIsItsInstallers' /\ InstallsWhatWasAgreed'
  BY <1>1 DEF IInv, Underway, StatusIsItsInstallers, InstallsWhatWasAgreed
<1>5. CASE UNCHANGED <<record, upgrading, task, counts>>
  <2>1. TypeOK' /\ Between'
    BY <1>1, <1>5 DEF IInv, TypeOK, Between
  <2>2. Numbered' /\ TaskIsTheLast' /\ TaskHasFetched'
    BY <1>1, <1>5 DEF IInv, Underway, Numbered, TaskIsTheLast, TaskHasFetched
  <2> QED
    BY <1>3, <1>4, <2>1, <2>2 DEF IInv, Underway
<1>6. CASE ~upgrading /\ ~UNCHANGED <<record, upgrading, task, counts>>
  <2>1. PICK m \in Attempts :
          /\ m = counts.attempts + 1
          /\ counts' = [counts EXCEPT !.attempts = m]
          /\ record' = [NoRecord EXCEPT !.attempt = m, !.version = q.version, !.stage = "downloading"]
          /\ task' = [NoTask EXCEPT !.pc = "clean", !.attempt = m, !.version = q.version,
                                    !.from = running, !.looked = q.looked]
    <3>1. /\ counts.attempts < MaxAttempts
          /\ counts' = [counts EXCEPT !.attempts = counts.attempts + 1]
          /\ record' = [NoRecord EXCEPT !.attempt = counts'.attempts, !.version = q.version,
                                        !.stage = "downloading"]
          /\ task' = [NoTask EXCEPT !.pc = "clean", !.attempt = counts'.attempts,
                                    !.version = q.version, !.from = running, !.looked = q.looked]
      BY <1>6 DEF Begin, Count
    <3>2. counts'.attempts = counts.attempts + 1 /\ counts.attempts + 1 \in Attempts
      BY <3>1 DEF IInv, Between, Attempts
    <3> QED
      BY <3>1, <3>2
  <2>2. m \in 0..MaxAttempts /\ running \in 0..MaxBuild
    BY DEF Attempts, IInv, TypeOK
  <2>3. task' = [pc |-> "clean", attempt |-> m, version |-> q.version, from |-> running,
                 looked |-> q.looked, sums |-> 0]
    BY <2>1 DEF NoTask
  <2>4. task' \in Tasks
    BY <2>2, <2>3, <1>2 DEF Tasks
  <2>5. record' = [attempt |-> m, version |-> q.version, stage |-> "downloading",
                   failed |-> FALSE, status |-> FALSE]
    BY <2>1 DEF NoRecord
  <2>6. record' \in Records
    BY <2>2, <2>5, <1>2 DEF Records
  <2>7. TypeOK'
    BY <1>1, <2>4, <2>6 DEF IInv, TypeOK, Tasks, Records
  <2>8. /\ counts' \in [attempts : Nat, published : Nat, choices : Nat, crashes : Nat]
        /\ counts'.attempts = m /\ m <= MaxAttempts
    BY <2>1 DEF IInv, Between, Attempts
  <2>9. Between'
    BY <1>1, <1>2, <2>5, <2>8 DEF IInv, Between
  <2>10. Numbered' /\ installer[m].state = "none"
    BY <1>1, <2>1, <2>8 DEF IInv, Underway, Numbered, Between, Attempts
  <2>11. TaskIsTheLast' /\ TaskHasFetched'
    BY <1>1, <1>2, <2>1, <2>3, <2>8, <2>10 DEF TaskIsTheLast, TaskHasFetched
  <2> QED
    BY <1>3, <1>4, <2>7, <2>9, <2>10, <2>11 DEF IInv, Underway
<1> QED
  BY <1>5, <1>6 DEF Begin

-----------------------------------------------------------------------------
(* The download.                                                            *)

\* A step of the download leaves what other attempts have as it is.
LEMMA DownloadKeeps ==
    ASSUME IInv, task.pc # "idle",
           UNCHANGED <<running, channel, found, asking, published, latest, agreed, installer, old, poll,
                       working, works, cut, counts>>,
           record' \in Records, record'.stage # "none" => record'.version \in Builds,
           task' \in Tasks, TaskIsTheLast', TaskHasFetched',
           dir' \in [Builds -> Dirs],
           \A v \in Builds : v # task.version => dir'[v] = dir[v],
           dir'[task.version].status # "none" => dir'[task.version] = dir[task.version]
    PROVE  IInv'
<1>1. TypeOK'
  BY DEF IInv, TypeOK, Records, Tasks, Dirs
<1>2. Between'
  BY DEF IInv, Between
<1>3. AgreedIsNewer' /\ Numbered' /\ InstallsWhatWasAgreed'
  BY DEF IInv, Underway, AgreedIsNewer, Numbered, InstallsWhatWasAgreed
<1>4. StatusIsItsInstallers'
  BY DEF IInv, Underway, StatusIsItsInstallers
<1> QED
  BY <1>1, <1>2, <1>3, <1>4 DEF IInv, Underway

LEMMA CleanKeeps ==
    ASSUME IInv, Clean
    PROVE  IInv'
<1> USE UpgradeAssumption
<1>1. /\ task.pc = "clean"
      /\ task' = [task EXCEPT !.pc = IF channel = "dist" THEN "published" ELSE "sums"]
      /\ dir' = [dir EXCEPT ![task.version] = [NoDir EXCEPT !.attempt = task.attempt]]
      /\ UNCHANGED <<running, channel, found, asking, published, latest, record, upgrading, agreed,
                     installer, old, poll, working, works, cut, counts>>
  BY DEF Clean, Step, Cleaned, Quiet, checks, sources, work
<1>2. /\ task.version \in Builds /\ task \in Tasks /\ record \in Records /\ dir \in [Builds -> Dirs]
      /\ record.stage # "none" => record.version \in Builds
  BY <1>1 DEF IInv, Underway, TaskIsTheLast, TypeOK, Between, Tasks, Records, Dirs
<1>3. task'.pc \in {"published", "sums"} /\ task' \in Tasks
  BY <1>1, <1>2 DEF Tasks
<1>4. UNCHANGED <<task.attempt, task.version, task.from>>
  BY <1>1, <1>2 DEF Tasks
<1>5. dir'[task.version] = [attempt |-> task.attempt, holds |-> 0, status |-> "none"]
  BY <1>1, <1>2 DEF NoDir
<1>6. dir'[task.version] \in Dirs
  <2>1. 0 \in 0..MaxBuild /\ task.attempt \in 0..MaxAttempts
    BY <1>2 DEF Tasks
  <2> QED
    BY <1>5, <2>1 DEF Dirs
<1>7. dir' \in [Builds -> Dirs] /\ \A v \in Builds : v # task.version => dir'[v] = dir[v]
  BY <1>1, <1>2, <1>5, <1>6
<1>8. TaskIsTheLast'
  BY <1>1, <1>3, <1>4 DEF IInv, Underway, TaskIsTheLast
<1>9. TaskHasFetched'
  BY <1>3, <1>4, <1>5 DEF TaskHasFetched
<1> QED
  BY <1>1, <1>2, <1>3, <1>5, <1>7, <1>8, <1>9, DownloadKeeps

\* What is fetched is what the signed checksums are for, and those are for the
\* version that was agreed to.
LEMMA FetchesKeep ==
    ASSUME IInv, Published \/ FetchSums \/ Fetch \/ Unpack
    PROVE  IInv'
<1> USE UpgradeAssumption
<1>1. /\ task.pc \notin {"idle", "clean"}
      /\ UNCHANGED <<running, channel, found, asking, published, latest, upgrading, agreed,
                     installer, old, poll, working, works, cut, counts>>
  BY DEF Published, FetchSums, Fetch, Unpack, Step, Quiet, checks, sources, work
<1>2. /\ task.version \in Builds /\ task \in Tasks /\ record \in Records /\ dir \in [Builds -> Dirs]
      /\ record.stage # "none" => record.version \in Builds
      /\ dir[task.version].attempt = task.attempt /\ dir[task.version].status = "none"
  BY <1>1 DEF IInv, Underway, TaskIsTheLast, TaskHasFetched, TypeOK, Between, Tasks, Records, Dirs
<1>3. record' \in Records /\ (record'.stage # "none" => record'.version \in Builds)
  <2>1. CASE record' = record
    BY <1>2, <2>1
  <2>2. CASE Unpack
    <3>1. record' = [attempt |-> task.attempt, version |-> task.version, stage |-> "installing",
                     failed |-> FALSE, status |-> FALSE]
      BY <2>2 DEF Unpack, NoRecord
    <3>2. task.attempt \in 0..MaxAttempts /\ task.version \in 0..MaxBuild
      BY <1>2 DEF Tasks
    <3> QED
      BY <1>2, <3>1, <3>2 DEF Records
  <2> QED
    BY <2>1, <2>2 DEF Published, FetchSums, Fetch
<1>4. /\ task' \in Tasks /\ UNCHANGED <<task.attempt, task.version, task.from>>
      /\ task'.pc \in {"sums", "tarball", "unpack", "start"}
      /\ task'.pc \in {"tarball", "unpack", "start"} => task'.sums = task'.version
  <2>1. CASE Published
    BY <1>2, <2>1 DEF Published, Step, Tasks
  <2>2. CASE FetchSums
    <3>1. task' = [task EXCEPT !.pc = "tarball", !.sums = task.version]
      BY <2>2 DEF FetchSums, signedSums
    <3>2. task.version \in 0..MaxBuild
      BY <1>2 DEF Tasks
    <3> QED
      BY <1>2, <3>1, <3>2 DEF Tasks
  <2>3. CASE Fetch \/ Unpack
    <3>1. task.pc \in {"tarball", "unpack"}
          /\ (task' = [task EXCEPT !.pc = "unpack"] \/ task' = [task EXCEPT !.pc = "start"])
      BY <2>3 DEF Fetch, Unpack, Step
    <3>2. task.sums = task.version
      BY <3>1 DEF IInv, Underway, TaskHasFetched
    <3> QED
      BY <1>2, <3>1, <3>2 DEF Tasks
  <2> QED
    BY <2>1, <2>2, <2>3
<1>5. /\ dir' \in [Builds -> Dirs] /\ \A v \in Builds : v # task.version => dir'[v] = dir[v]
      /\ dir'[task.version].attempt = task.attempt /\ dir'[task.version].status = "none"
      /\ task'.pc \in {"unpack", "start"} => dir'[task.version].holds = task.version
  <2>1. CASE Published \/ FetchSums
    <3>1. dir' = dir /\ task'.pc \notin {"unpack", "start"}
      BY <1>2, <2>1 DEF Published, FetchSums, Step, Tasks
    <3> QED
      BY <1>2, <3>1
  <2>2. CASE Fetch
    <3>1. dir' = [dir EXCEPT ![task.version].holds = task.sums] /\ task.pc = "tarball"
      BY <2>2 DEF Fetch, Step
    <3>2. task.sums = task.version /\ task.version \in 0..MaxBuild
      BY <1>2, <3>1 DEF IInv, Underway, TaskHasFetched, Tasks
    <3>3. dir[task.version] \in Dirs
      BY <1>2
    <3>4. dir' = [dir EXCEPT ![task.version] = [dir[task.version] EXCEPT !.holds = task.version]]
      BY <3>1, <3>2
    <3>5. /\ [dir[task.version] EXCEPT !.holds = task.version] \in Dirs
          /\ [dir[task.version] EXCEPT !.holds = task.version].attempt = task.attempt
          /\ [dir[task.version] EXCEPT !.holds = task.version].status = "none"
          /\ [dir[task.version] EXCEPT !.holds = task.version].holds = task.version
      BY <1>2, <3>2, <3>3 DEF Dirs
    <3> QED
      BY <1>2, <3>4, <3>5
  <2>3. CASE Unpack
    <3>1. dir' = dir /\ task.pc = "unpack"
      BY <2>3 DEF Unpack, Step
    <3>2. dir[task.version].holds = task.version
      BY <3>1 DEF IInv, Underway, TaskHasFetched
    <3> QED
      BY <1>2, <3>1, <3>2
  <2> QED
    BY <2>1, <2>2, <2>3
<1>6. TaskIsTheLast'
  BY <1>1, <1>4 DEF IInv, Underway, TaskIsTheLast
<1>7. TaskHasFetched'
  BY <1>4, <1>5 DEF TaskHasFetched
<1> QED
  BY <1>1, <1>2, <1>3, <1>4, <1>5, <1>6, <1>7, DownloadKeeps

LEMMA DownloadFails ==
    ASSUME IInv, runUpgradeFails
    PROVE  IInv'
<1> USE UpgradeAssumption, Empties
<1>1. /\ task.pc # "idle" /\ task' = NoTask
      /\ record' = [NoRecord EXCEPT !.attempt = task.attempt, !.version = task.version,
                                    !.stage = "done", !.failed = TRUE]
      /\ dir' = [dir EXCEPT ![task.version] = NoDir]
      /\ UNCHANGED <<running, channel, found, asking, published, latest, agreed,
                     installer, old, poll, working, works, cut, counts>>
  BY DEF runUpgradeFails, Quiet, checks, sources, work
<1>2. /\ task.version \in Builds /\ task \in Tasks /\ dir \in [Builds -> Dirs]
  BY <1>1 DEF IInv, Underway, TaskIsTheLast, TypeOK, Tasks, Dirs
<1>3. record' \in Records /\ record'.version \in Builds
  <2>1. record' = [attempt |-> task.attempt, version |-> task.version, stage |-> "done",
                   failed |-> TRUE, status |-> FALSE]
    BY <1>1 DEF NoRecord
  <2>2. task.attempt \in 0..MaxAttempts /\ task.version \in 0..MaxBuild
    BY <1>2 DEF Tasks
  <2> QED
    BY <1>2, <2>1, <2>2 DEF Records
<1>4. /\ dir' \in [Builds -> Dirs] /\ \A v \in Builds : v # task.version => dir'[v] = dir[v]
      /\ dir'[task.version].status = "none"
  BY <1>1, <1>2
<1>5. TaskIsTheLast' /\ TaskHasFetched'
  BY <1>1 DEF TaskIsTheLast, TaskHasFetched
<1> QED
  BY <1>1, <1>3, <1>4, <1>5, DownloadKeeps

-----------------------------------------------------------------------------
(* The installer and what it leaves.                                        *)

\* The directory it is started in holds the version that was agreed to, which
\* is newer than what runs.
LEMMA StartInstallerKeeps ==
    ASSUME IInv, StartInstaller
    PROVE  IInv'
<1> USE UpgradeAssumption, Empties
<1>1. /\ task.pc = "start" /\ task' = NoTask
      /\ installer' = [installer EXCEPT ![task.attempt] =
             [state |-> "running", version |-> task.version, holds |-> dir[task.version].holds,
              from |-> task.from, looked |-> task.looked]]
      /\ UNCHANGED <<running, channel, found, asking, published, latest, record, agreed, dir, old, poll,
                     working, works, cut, counts>>
  BY DEF StartInstaller, checks, sources, work
<1>2. /\ task.version \in Builds /\ task.attempt \in Attempts /\ task \in Tasks
      /\ task.attempt = counts.attempts /\ installer[task.attempt].state = "none"
      /\ task.version > task.from /\ dir[task.version].holds = task.version
  BY <1>1 DEF IInv, Underway, TaskIsTheLast, TaskHasFetched, TypeOK, Tasks
<1>3. PICK u \in Units :
        /\ u.state = "running" /\ u.holds = u.version /\ u.holds > u.from
        /\ installer' = [installer EXCEPT ![task.attempt] = u]
  <2>1. [state |-> "running", version |-> task.version, holds |-> task.version,
         from |-> task.from, looked |-> task.looked] \in Units
    BY <1>2 DEF Tasks, Units
  <2> QED
    BY <1>1, <1>2, <2>1
<1>4. installer \in [Attempts -> Units] /\ installer' \in [Attempts -> Units]
  BY <1>3 DEF IInv, TypeOK, Units
<1>5. TypeOK' /\ Between'
  <2>1. task' \in Tasks
    BY <1>1
  <2>2. TypeOK'
    BY <1>1, <1>4, <2>1 DEF IInv, TypeOK, Units, Tasks
  <2> QED
    BY <1>1, <2>2 DEF IInv, Between
<1>6. AgreedIsNewer' /\ TaskIsTheLast' /\ TaskHasFetched'
  BY <1>1 DEF IInv, Underway, AgreedIsNewer, TaskIsTheLast, TaskHasFetched
<1>7. Numbered'
  BY <1>1, <1>2, <1>3, <1>4 DEF IInv, Underway, Numbered, Between, Attempts
<1>8. StatusIsItsInstallers'
  BY <1>1, <1>2, <1>3, <1>4 DEF IInv, Underway, StatusIsItsInstallers
<1>9. InstallsWhatWasAgreed'
  BY <1>3, <1>4 DEF IInv, InstallsWhatWasAgreed
<1> QED
  BY <1>5, <1>6, <1>7, <1>8, <1>9 DEF IInv, Underway

\* A restart ends every request that had compared a version with the build that
\* ran, and the download with them.
LEMMA RestartKeeps ==
    ASSUME IInv, NEW next \in 0..MaxBuild, Restarted(next), UNCHANGED dir,
           counts' \in [attempts : Nat, published : Nat, choices : Nat, crashes : Nat],
           counts'.attempts = counts.attempts,
           installer' \in [Attempts -> Units],
           StatusIsItsInstallers', InstallsWhatWasAgreed', Numbered'
    PROVE  IInv'
<1> USE UpgradeAssumption, Empties
<1>1. /\ running' = next /\ agreed' = {} /\ task' = NoTask /\ poll' = NoRecord /\ working' = FALSE
      /\ UNCHANGED <<channel, found, published, latest, record, works, dir>>
  BY DEF Restarted, sources
<1>2. TypeOK'
  <2>1. task' \in Tasks
    BY <1>1
  <2> QED
    BY <1>1, <2>1 DEF IInv, TypeOK, Units, Tasks
<1>3. Between'
  <2>1. poll' \in Records /\ poll' = NoRecord
    BY <1>1
  <2> QED
    BY <1>1, <2>1 DEF IInv, Between, Records
<1>4. AgreedIsNewer' /\ TaskIsTheLast' /\ TaskHasFetched'
  BY <1>1 DEF AgreedIsNewer, TaskIsTheLast, TaskHasFetched
<1> QED
  BY <1>2, <1>3, <1>4 DEF IInv, Underway

LEMMA CrashKeeps ==
    ASSUME IInv, Crash
    PROVE  IInv'
<1>1. Restarted(running) /\ UNCHANGED <<dir, installer>>
  BY DEF Crash
<1>2. /\ counts' \in [attempts : Nat, published : Nat, choices : Nat, crashes : Nat]
      /\ counts'.attempts = counts.attempts
  BY CountIs DEF Crash
<1>3. running \in 0..MaxBuild /\ installer' \in [Attempts -> Units]
  BY <1>1 DEF IInv, TypeOK, Units
<1>4. StatusIsItsInstallers' /\ InstallsWhatWasAgreed' /\ Numbered'
  BY <1>1, <1>2 DEF IInv, Underway, StatusIsItsInstallers, InstallsWhatWasAgreed, Numbered
<1> QED
  BY <1>1, <1>2, <1>3, <1>4, RestartKeeps

\* What an installer's change of state leaves of the others.
LEMMA InstallerMoves ==
    ASSUME IInv, NEW a \in Attempts, NEW s \in {"restarted", "ok", "failed"},
           installer[a].state \in {"running", "restarted"},
           installer' = [installer EXCEPT ![a].state = s],
           counts'.attempts = counts.attempts
    PROVE  /\ installer' \in [Attempts -> Units] /\ installer'[a].state = s
           /\ \A b \in Attempts : b # a => installer'[b] = installer[b]
           /\ Numbered' /\ InstallsWhatWasAgreed'
<1>1. installer \in [Attempts -> Units]
  BY DEF IInv, TypeOK, Units
<1>2. installer' = [installer EXCEPT ![a] = [installer[a] EXCEPT !.state = s]]
  OBVIOUS
<1>3. /\ [installer[a] EXCEPT !.state = s] \in Units
      /\ [installer[a] EXCEPT !.state = s].state = s
      /\ [installer[a] EXCEPT !.state = s].holds = installer[a].holds
      /\ [installer[a] EXCEPT !.state = s].version = installer[a].version
      /\ [installer[a] EXCEPT !.state = s].from = installer[a].from
  BY <1>1 DEF Units
<1>4. /\ installer' \in [Attempts -> Units] /\ installer'[a] = [installer[a] EXCEPT !.state = s]
      /\ \A b \in Attempts : b # a => installer'[b] = installer[b]
  BY <1>1, <1>2, <1>3
<1>5. installer[a].state # "none"
  OBVIOUS
<1>6. Numbered'
  BY <1>4, <1>5 DEF IInv, Underway, Numbered
<1>7. InstallsWhatWasAgreed'
  BY <1>3, <1>4, <1>5 DEF IInv, InstallsWhatWasAgreed
<1> QED
  BY <1>3, <1>4, <1>6, <1>7

LEMMA InstallerRestartsKeeps ==
    ASSUME IInv, NEW a \in Attempts, InstallerRestarts(a)
    PROVE  IInv'
<1>1. /\ installer[a].state = "running"
      /\ installer' = [installer EXCEPT ![a].state = "restarted"]
      /\ Restarted(installer[a].holds) /\ UNCHANGED <<dir, counts>>
  BY DEF InstallerRestarts
<1>2. installer[a].holds \in 0..MaxBuild
  BY DEF IInv, TypeOK
<1>3. counts' \in [attempts : Nat, published : Nat, choices : Nat, crashes : Nat]
      /\ counts'.attempts = counts.attempts
  BY <1>1 DEF IInv, Between
<1>4. /\ installer' \in [Attempts -> Units] /\ Numbered' /\ InstallsWhatWasAgreed'
      /\ \A b \in Attempts : b # a => installer'[b] = installer[b]
  BY <1>1, <1>3, InstallerMoves
<1>5. StatusIsItsInstallers'
  <2>1. ASSUME NEW v \in Builds, dir[v].status # "none"
        PROVE  dir[v].attempt \in Attempts /\ dir[v].attempt # a
               /\ installer[dir[v].attempt].state = dir[v].status
    <3>1. dir[v].status \in {"none", "ok", "failed"}
      BY DEF IInv, TypeOK
    <3> QED
      BY <1>1, <2>1, <3>1 DEF IInv, Underway, StatusIsItsInstallers
  <2> QED
    BY <1>1, <1>4, <2>1 DEF StatusIsItsInstallers
<1> QED
  BY <1>1, <1>2, <1>3, <1>4, <1>5, RestartKeeps

LEMMA InstallerEndsKeeps ==
    ASSUME IInv, NEW a \in Attempts, InstallerEnds(a)
    PROVE  IInv'
<1> USE UpgradeAssumption
<1>1. PICK code \in {"ok", "failed"} :
        /\ installer[a].state \in {"running", "restarted"}
        /\ installer' = [installer EXCEPT ![a].state = code]
        /\ \/ dir' = dir /\ dir[installer[a].version].attempt # a
           \/ /\ dir[installer[a].version].attempt = a
              /\ dir' = [dir EXCEPT ![installer[a].version].status = code]
  BY DEF InstallerEnds
<1>2. UNCHANGED <<running, channel, found, asking, published, latest, record, upgrading, agreed, task, old,
                  poll, working, works, cut, counts>>
  BY DEF InstallerEnds, checks, sources, work
<1>3. /\ installer' \in [Attempts -> Units] /\ Numbered' /\ InstallsWhatWasAgreed'
      /\ installer'[a].state = code
      /\ \A b \in Attempts : b # a => installer'[b] = installer[b]
  <2>1. counts'.attempts = counts.attempts
    BY <1>2
  <2> QED
    BY <1>1, <2>1, InstallerMoves
<1>4. installer[a].version \in Builds /\ dir \in [Builds -> Dirs]
  <2>1. /\ installer[a].holds = installer[a].version /\ installer[a].holds > installer[a].from
        /\ installer[a].version \in 0..MaxBuild /\ installer[a].from \in 0..MaxBuild
    BY <1>1 DEF IInv, InstallsWhatWasAgreed, TypeOK
  <2>2. MaxBuild \in Nat
    OBVIOUS
  <2>3. installer[a].version \in 1..MaxBuild
    BY <2>1, <2>2
  <2>4. dir \in [Builds -> Dirs]
    BY DEF IInv, TypeOK, Dirs
  <2> QED
    BY <2>3, <2>4 DEF Builds
<1>5. /\ dir' \in [Builds -> Dirs]
      /\ \A v \in Builds : dir'[v].attempt = dir[v].attempt /\ dir'[v].holds = dir[v].holds
      /\ \A v \in Builds : dir'[v].status = dir[v].status \/ (dir[v].attempt = a /\ dir'[v].status = code)
      /\ dir'[installer[a].version].attempt = a => dir'[installer[a].version].status = code
  <2>1. CASE dir' = dir /\ dir[installer[a].version].attempt # a
    BY <1>4, <2>1
  <2>2. CASE dir[installer[a].version].attempt = a
             /\ dir' = [dir EXCEPT ![installer[a].version].status = code]
    <3>1. PICK d \in Dirs : /\ d = [dir[installer[a].version] EXCEPT !.status = code]
                            /\ d.attempt = a /\ d.status = code
                            /\ d.holds = dir[installer[a].version].holds
      BY <1>4, <2>2 DEF Dirs
    <3>2. dir' = [dir EXCEPT ![installer[a].version] = d]
      BY <2>2, <3>1
    <3> QED
      BY <1>4, <2>2, <3>1, <3>2
  <2> QED
    BY <1>1, <2>1, <2>2
<1>6. TypeOK'
  BY <1>2, <1>3, <1>5 DEF IInv, TypeOK, Units, Dirs
<1>7. Between' /\ AgreedIsNewer'
  BY <1>2 DEF IInv, Between, Underway, AgreedIsNewer
<1>8. TaskIsTheLast'
  <2>1. ASSUME task.pc # "idle" PROVE task.attempt \in Attempts /\ task.attempt # a
    BY <1>1, <2>1 DEF IInv, Underway, TaskIsTheLast
  <2> QED
    BY <1>2, <1>3, <2>1 DEF IInv, Underway, TaskIsTheLast
<1>9. TaskHasFetched'
  <2>1. ASSUME task.pc # "idle" PROVE task.version \in Builds /\ task.attempt # a
    BY <1>1, <2>1 DEF IInv, Underway, TaskIsTheLast
  <2> QED
    BY <1>2, <1>5, <2>1 DEF IInv, Underway, TaskHasFetched
<1>10. StatusIsItsInstallers'
  <2>1. ASSUME NEW v \in Builds, dir'[v].status # "none"
        PROVE  dir'[v].attempt \in Attempts /\ installer'[dir'[v].attempt].state = dir'[v].status
    <3>1. CASE dir[v].attempt = a /\ dir'[v].status = code
      BY <1>3, <1>5, <3>1
    <3>2. CASE dir'[v].status = dir[v].status
      <4>1. dir[v].attempt \in Attempts /\ installer[dir[v].attempt].state = dir[v].status
        BY <2>1, <3>2 DEF IInv, Underway, StatusIsItsInstallers
      <4>2. dir[v].status \in {"none", "ok", "failed"}
        BY DEF IInv, TypeOK
      <4> QED
        BY <1>1, <1>3, <1>5, <2>1, <3>2, <4>1, <4>2
    <3> QED
      BY <1>5, <3>1, <3>2
  <2> QED
    BY <2>1 DEF StatusIsItsInstallers
<1> QED
  BY <1>3, <1>6, <1>7, <1>8, <1>9, <1>10 DEF IInv, Underway

-----------------------------------------------------------------------------
(* Reading back how it went.                                                *)

\* While a download is under way its directory says nothing, and what runs is
\* older than its version: a late answer of an earlier attempt at that version
\* is taken for a failure and leaves the directory alone.
LEMMA StatusKeeps ==
    ASSUME IInv, UpgradeStatus
    PROVE  IInv'
<1> USE UpgradeAssumption, Empties
<1>1. /\ poll # NoRecord /\ poll' = NoRecord
      /\ UNCHANGED <<running, channel, found, asking, published, latest, upgrading, agreed, task, installer,
                     old, working, works, cut, counts>>
  BY DEF UpgradeStatus, checks, sources, work
<1>2. \/ UNCHANGED <<record, dir>>
      \/ \E f, t \in BOOLEAN :
            /\ record' = [poll EXCEPT !.stage = "done", !.failed = f, !.status = t]
            /\ \/ dir' = dir
               \/ /\ poll.stage # "downloading" /\ dir' = [dir EXCEPT ![poll.version] = NoDir]
                  /\ dir[poll.version].status # "none" \/ running = poll.version
  BY DEF UpgradeStatus
<1>3. poll \in Records /\ record \in Records /\ dir \in [Builds -> Dirs]
  BY DEF IInv, Between, TypeOK, Records, Dirs
<1>4. poll.version \in Builds
  BY <1>1 DEF IInv, Between
<1>5. record' \in Records /\ (record'.stage # "none" => record'.version \in Builds)
  <2>1. CASE record' = record
    BY <1>3, <2>1 DEF IInv, Between
  <2>2. ASSUME NEW f \in BOOLEAN, NEW t \in BOOLEAN,
               record' = [poll EXCEPT !.stage = "done", !.failed = f, !.status = t]
        PROVE  record' \in Records /\ record'.version \in Builds
    <3>1. record' = [attempt |-> poll.attempt, version |-> poll.version, stage |-> "done",
                     failed |-> f, status |-> t]
      BY <1>3, <2>2 DEF Records
    <3> QED
      BY <1>3, <1>4, <3>1 DEF Records
  <2> QED
    BY <1>2, <2>1, <2>2
<1>6. /\ dir' \in [Builds -> Dirs]
      /\ \A v \in Builds : dir'[v] = dir[v] \/ dir'[v].status = "none"
      /\ \A v \in Builds : dir'[v] = dir[v] \/ dir[v].status # "none" \/ running = v
  <2>1. CASE dir' = dir
    BY <1>3, <2>1
  <2>2. CASE /\ dir' = [dir EXCEPT ![poll.version] = NoDir]
             /\ dir[poll.version].status # "none" \/ running = poll.version
    BY <1>3, <1>4, <2>2
  <2> QED
    BY <1>2, <2>1, <2>2
<1>7. TypeOK'
  <2>1. dir' \in [Builds -> [attempt : 0..MaxAttempts, holds : 0..MaxBuild, status : {"none", "ok", "failed"}]]
    BY <1>6 DEF Dirs
  <2> QED
    BY <1>1, <1>5, <2>1 DEF IInv, TypeOK, Records
<1>8. Between'
  <2>1. poll' \in Records
    BY <1>1
  <2> QED
    BY <1>1, <1>5, <2>1 DEF IInv, Between, Records
<1>9. AgreedIsNewer' /\ Numbered' /\ TaskIsTheLast' /\ InstallsWhatWasAgreed'
  BY <1>1 DEF IInv, Underway, AgreedIsNewer, Numbered, TaskIsTheLast, InstallsWhatWasAgreed
<1>10. StatusIsItsInstallers'
  BY <1>1, <1>6 DEF IInv, Underway, StatusIsItsInstallers
<1>11. TaskHasFetched'
  <2>1. ASSUME task.pc \notin {"idle", "clean"}
        PROVE  dir'[task.version] = dir[task.version]
    <3>1. task.version \in Builds /\ task.version # running
      <4>1. task.version \in Builds /\ task.version > running
        BY <2>1 DEF IInv, Underway, TaskIsTheLast
      <4>2. task.version \in 0..MaxBuild /\ running \in 0..MaxBuild
        BY DEF IInv, TypeOK
      <4> QED
        BY <4>1, <4>2
    <3>2. dir[task.version].status = "none"
      BY <2>1 DEF IInv, Underway, TaskHasFetched
    <3> QED
      BY <1>6, <3>1, <3>2
  <2> QED
    BY <1>1, <2>1 DEF IInv, Underway, TaskHasFetched
<1> QED
  BY <1>7, <1>8, <1>9, <1>10, <1>11 DEF IInv, Underway

\* Looking, dismissing, and what goes on beside an upgrade.
LEMMA RestKeeps ==
    ASSUME IInv, UpgradeStatusReads \/ handleDismissUpgrade \/ TimePasses \/ Work
    PROVE  IInv'
<1> USE UpgradeAssumption, Empties
<1>1. UNCHANGED <<running, channel, found, published, latest, agreed, task, dir, installer, counts>>
  BY DEF UpgradeStatusReads, handleDismissUpgrade, TimePasses, Work, checks, sources
<1>2. /\ record' \in {record, NoRecord} /\ works' \in Nat /\ working' \in BOOLEAN
      /\ poll' = poll \/ (poll' = record /\ record.stage # "none" /\ record' = record)
  <2>1. CASE UpgradeStatusReads
    BY <2>1 DEF UpgradeStatusReads, work, Unfinished, IInv, TypeOK
  <2>2. CASE handleDismissUpgrade \/ TimePasses
    BY <2>2 DEF handleDismissUpgrade, TimePasses, work, IInv, TypeOK
  <2>3. CASE Work
    <3>1. works \in Nat
      BY DEF IInv, TypeOK
    <3>2. UNCHANGED <<record, poll>> /\ works' \in Nat
      BY <2>3, <3>1 DEF Work
    <3>3. working' \in BOOLEAN
      BY <2>3, Zenon DEF Work
    <3> QED
      BY <3>2, <3>3
  <2> QED
    BY <2>1, <2>2, <2>3
<1>3. record' \in Records /\ poll' \in Records
  BY <1>2 DEF IInv, TypeOK, Between, Records
<1>4. TypeOK'
  BY <1>1, <1>2, <1>3 DEF IInv, TypeOK, Records
<1>5. Between'
  BY <1>1, <1>2, <1>3 DEF IInv, Between, Records
<1> QED
  BY <1>1, <1>4, <1>5, Elsewhere DEF IInv

-----------------------------------------------------------------------------
LEMMA Stutters ==
    ASSUME IInv, UNCHANGED vars
    PROVE  IInv'
<1>1. TypeOK' /\ Between'
  BY DEF vars, checks, sources, work, IInv, TypeOK, Between
<1> QED
  BY <1>1, Elsewhere DEF vars, checks, sources, work, IInv

LEMMA Keeps ==
    ASSUME IInv, [Next]_vars
    PROVE  IInv'
<1>1. ASSUME NEW p \in Pushes, Publish(p) PROVE IInv'
  BY <1>1, PublishKeeps
<1>2. CASE checkForUpdate \/ handleChooseChannel \/ \E c \in Channels : askWhatIsPublished(c)
  BY <1>2, ChecksKeep
<1>3. ASSUME NEW v \in Builds, StartUpgrade(v) PROVE IInv'
  BY <1>3, StartKeeps
<1>4. ASSUME NEW q \in agreed, Begin(q) PROVE IInv'
  BY <1>4, BeginKeeps
<1>5. CASE runUpgrade
  BY <1>5, CleanKeeps, FetchesKeep, StartInstallerKeeps, DownloadFails DEF runUpgrade
<1>6. ASSUME NEW a \in Attempts, InstallerRestarts(a) \/ InstallerEnds(a) PROVE IInv'
  BY <1>6, InstallerRestartsKeeps, InstallerEndsKeeps
<1>7. CASE Crash \/ UpgradeStatus
  BY <1>7, CrashKeeps, StatusKeeps
<1>8. CASE UpgradeStatusReads \/ handleDismissUpgrade \/ TimePasses \/ Work
  BY <1>8, RestKeeps
<1>9. CASE UNCHANGED vars
  BY <1>9, Stutters
<1> QED
  BY <1>1, <1>2, <1>3, <1>4, <1>5, <1>6, <1>7, <1>8, <1>9 DEF Next

\* The invariant the others rest on holds in every state.
THEOREM Invariance == Spec => []IInv
<1>1. Init => IInv
  BY Initially
<1>2. IInv /\ [Next]_vars => IInv'
  BY Keeps
<1> QED
  BY <1>1, <1>2, PTL DEF Spec

\* Whatever is pushed, re-tagged or chosen between the check, the checksums and
\* the tarball, an installer is given the build the operator agreed to, and that
\* is newer than what ran (StartUpgrade, signedSums, runUpgrade).
THEOREM InstallsTheAgreed == Spec => []InstallsWhatWasAgreed
<1>1. IInv => InstallsWhatWasAgreed
  BY DEF IInv
<1> QED
  BY <1>1, Invariance, PTL

\* A verdict read from a status file is its own installer's, although a version
\* may be tried again in the directory an earlier attempt was started in.
THEOREM VerdictIsItsOwn == Spec => VerdictIsTheInstallers
<1> DEFINE Verdict == record'.status /\ ~record.status =>
          LET a == dir[record'.version].attempt
          IN  installer[a].state = IF record'.failed THEN "failed" ELSE "ok"
<1>1. ASSUME IInv, [Next]_vars PROVE [Verdict]_vars
  <2>1. ASSUME UpgradeStatus PROVE Verdict
    <3> SUFFICES ASSUME record'.status, ~record.status PROVE Verdict
      OBVIOUS
    <3>1. PICK f, t \in BOOLEAN :
            /\ poll # NoRecord
            /\ record' = [poll EXCEPT !.stage = "done", !.failed = f, !.status = t]
            /\ t => dir[poll.version].status # "none"
            /\ t /\ f => dir[poll.version].status = "failed"
            /\ t /\ ~f => dir[poll.version].status # "failed"
      <4>1. record' # record
        OBVIOUS
      <4>2. CASE poll.stage = "installing" /\ dir[poll.version].status = "failed"
        <5>1. record' = [poll EXCEPT !.stage = "done", !.failed = TRUE, !.status = TRUE]
          BY <2>1, <4>1, <4>2 DEF UpgradeStatus
        <5> QED
          BY <2>1, <4>2, <5>1 DEF UpgradeStatus
      <4>3. CASE poll.stage = "installing" /\ dir[poll.version].status \notin {"failed", "none"}
        <5>1. record' = [poll EXCEPT !.stage = "done", !.failed = FALSE, !.status = TRUE]
          BY <2>1, <4>1, <4>3 DEF UpgradeStatus
        <5> QED
          BY <2>1, <4>3, <5>1 DEF UpgradeStatus
      <4>4. CASE poll.stage # "installing" \/ dir[poll.version].status = "none"
        <5>1. \E f \in BOOLEAN : record' = [poll EXCEPT !.stage = "done", !.failed = f, !.status = FALSE]
          BY <2>1, <4>1, <4>4 DEF UpgradeStatus
        <5> QED
          BY <2>1, <5>1 DEF UpgradeStatus
      <4> QED
        BY <4>2, <4>3, <4>4
    <3>2. poll \in Records /\ poll.version \in Builds
      BY <1>1, <3>1 DEF IInv, Between, Records
    <3>3. /\ record'.version = poll.version
          /\ record'.failed = f /\ record'.status = t
      BY <3>1, <3>2 DEF Records
    <3>4. dir[poll.version].status \in {"none", "ok", "failed"}
      BY <1>1, <3>2 DEF IInv, TypeOK
    <3>5. installer[dir[poll.version].attempt].state = dir[poll.version].status
      BY <1>1, <3>1, <3>2, <3>3 DEF IInv, Underway, StatusIsItsInstallers
    <3>6. dir[record'.version] = dir[poll.version]
      BY <3>3
    <3> QED
      BY <3>1, <3>3, <3>4, <3>5, <3>6
  <2>2. ASSUME NEW p \in Pushes, Publish(p) PROVE record' = record
    BY <2>2 DEF Publish
  <2>3. ASSUME checkForUpdate \/ handleChooseChannel \/ \E c \in Channels : askWhatIsPublished(c)
        PROVE  record' = record
    BY <2>3 DEF checkForUpdate, handleChooseChannel, askWhatIsPublished
  <2>4. ASSUME NEW v \in Builds, StartUpgrade(v) PROVE record' = record
    BY <2>4 DEF StartUpgrade
  <2>5. ASSUME NEW q \in agreed, Begin(q) PROVE record' = record \/ ~record'.status
    BY <2>5 DEF Begin, NoRecord
  <2>6. ASSUME runUpgrade PROVE record' = record \/ ~record'.status
    BY <2>6 DEF runUpgrade, Clean, Published, FetchSums, Fetch, Unpack, StartInstaller, runUpgradeFails, NoRecord
  <2>7. ASSUME NEW a \in Attempts, InstallerRestarts(a) \/ InstallerEnds(a) PROVE record' = record
    BY <2>7 DEF InstallerRestarts, InstallerEnds, Restarted
  <2>8. ASSUME Crash \/ UpgradeStatusReads \/ handleDismissUpgrade \/ TimePasses \/ Work
        PROVE  record' = record \/ ~record'.status
    BY <2>8 DEF Crash, Restarted, UpgradeStatusReads, handleDismissUpgrade, TimePasses, Work, NoRecord
  <2>9. ASSUME record' = record \/ ~record'.status PROVE Verdict
    BY <2>9
  <2> HIDE DEF Verdict
  <2> QED
    BY <1>1, <2>1, <2>2, <2>3, <2>4, <2>5, <2>6, <2>7, <2>8, <2>9 DEF Next
<1>2. IInv /\ [Next]_vars => [Verdict]_vars
  BY <1>1
<1> QED
  BY <1>2, Invariance, PTL DEF Spec, VerdictIsTheInstallers
==============================================================================
