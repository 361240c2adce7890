------------------------------- MODULE PutBack -------------------------------
(* Putting a backup back into a live cPanel account: the parts of it a      *)
(* basket names (applyItems), or the whole account (restoreAccount).        *)
(*                                                                          *)
(* One restore of the account runs at a time; it is a chain of calls into   *)
(* the cPanel provider, and each call can fail before, in the middle of or  *)
(* after its work.  Between the calls the server is not standing still: the *)
(* customer drops databases and logins, another account takes a name that   *)
(* has become free, the account is terminated, the agent dies.  No lock     *)
(* holds any of them off inside a call: what a call has looked up may be    *)
(* dropped, and taken by another account, before the call uses it.          *)
EXTENDS Naturals, FiniteSets

CONSTANTS
    Databases,
    Logins,        \* MySQL logins; OwnLogin is the account's own
    OwnLogin,
    Backups,       \* what the chosen restore point may hold
    Baskets,       \* what may be asked for
    MaxRestores,   \* restores in a behaviour
    MaxOutside     \* steps of anybody else in a behaviour

Account == "account"
Other == "other"
Nobody == "nobody"

\* Files, the website and mail are all the home directory.
KindsThatApply == {"homedir", "database", "dbusers", "cron"}
Kinds == KindsThatApply \cup {"dns"}

BackupRecord == [dumps : SUBSET Databases, users : SUBSET Logins,
                 grants : [Logins -> SUBSET Databases], parts : SUBSET {"homedir", "databases", "metadata"},
                 cron : BOOLEAN, complete : BOOLEAN]
Basket == [kinds : SUBSET Kinds, dbs : SUBSET Databases, users : SUBSET Logins]

ASSUME PutBackAssumption ==
    /\ OwnLogin \in Logins
    /\ Backups \subseteq BackupRecord /\ Backups # {}
    /\ Baskets \subseteq Basket /\ Baskets # {}
    /\ MaxRestores \in Nat /\ MaxOutside \in Nat

VARIABLES
    dbOwner,     \* who cPanel says a database belongs to, Nobody when there is none
    dbContent,   \* "live", "backup", "torn" or "empty"
    loginBy,     \* who made the login that is on the MySQL server
    loginPass,   \* the password it has: "now", or the one in the backup
    loginMap,    \* the account whose login the panel says it is
    granted,     \* databases a login was given by a restore
    home, cron,  \* "live", "backup" or "torn"; "none", "live" or "backup"
    replaced,    \* crontabs kept before they were written over
    sandbox,     \* databases a disposable restore login still has access to
    there,       \* the account is on the server
    phase, backup, basket, whole,
    left,        \* databases still to be made or loaded
    loading,     \* the database a dump is going into
    existing,    \* the logins the server had when PutDatabaseUsers asked
    overwrite,   \* ApplyOptions.Overwrite
    wrote,       \* what has been put back, as the restore keeps count
    touched,     \* what has been changed on the server, whether it knows or not
    report,      \* status, applied and what it says was written
    restores, outside,
    swappedDbs,      \* databases another account took after the call under way
                     \* had found them to be this account's
    swappedLogins    \* logins taken so, until a call looks and the panel does
                     \* not say that they are this account's

db == <<dbOwner, dbContent>>
login == <<loginBy, loginPass, loginMap, granted>>
request == <<backup, basket, whole>>
bounds == <<restores, outside>>
progress == <<left, loading, existing, overwrite>>
swapped == <<swappedDbs, swappedLogins>>
vars == <<db, login, home, cron, replaced, sandbox, there, phase, request,
          progress, wrote, touched, report, bounds, swapped>>

NoReport == [status |-> "none", applied |-> FALSE, why |-> "none"]

Init ==
    /\ dbOwner \in [Databases -> {Account, Nobody}]
    /\ dbContent = [d \in Databases |-> "live"]
    /\ loginBy \in {f \in [Logins -> {Account, Other, Nobody}] : f[OwnLogin] # Other}
    /\ loginPass = [l \in Logins |-> "now"]
    /\ loginMap = [l \in Logins |-> IF l = OwnLogin THEN Account ELSE loginBy[l]]
    /\ granted = [l \in Logins |-> {}]
    /\ home = "live" /\ cron \in {"none", "live"}
    /\ replaced = {} /\ sandbox = {} /\ there = TRUE
    /\ phase = "idle"
    /\ backup = CHOOSE b \in Backups : TRUE
    /\ basket = CHOOSE k \in Baskets : TRUE
    /\ whole = FALSE
    /\ left = {} /\ loading = {} /\ existing = {} /\ overwrite = FALSE
    /\ wrote = {} /\ touched = {} /\ report = NoReport
    /\ restores = 0 /\ outside = 0 /\ swappedDbs = {} /\ swappedLogins = {}

--------------------------------------------------------------------------
(* What a granular restore takes out of the snapshot (package granular).   *)

\* Every part a basket names has to be in the snapshot, or none is read.
BuildAll(k, b) ==
    /\ k.kinds # {}
    /\ "homedir" \in k.kinds => "homedir" \in b.parts
    /\ k.kinds \cap {"database", "dbusers"} # {} => "databases" \in b.parts
    /\ k.kinds \cap {"cron", "dns"} # {} => "metadata" \in b.parts

buildDatabase(k, b) == IF "database" \in k.kinds THEN k.dbs \cap b.dumps ELSE {}
buildDatabaseUsers(k, b) == IF "dbusers" \in k.kinds THEN b.users ELSE {}
buildHomedir(k, b) == "homedir" \in k.kinds
buildMetadata(k, b) == "dns" \in k.kinds \/ ("cron" \in k.kinds /\ b.cron)

\* Something came out of the backup: an empty tree is never a success.
measure(k, b) ==
    \/ buildHomedir(k, b) \/ buildMetadata(k, b)
    \/ buildDatabase(k, b) # {} \/ buildDatabaseUsers(k, b) # {}

wantDumps == "database" \in basket.kinds
wantUsers == "dbusers" \in basket.kinds

\* No name chosen means every user of the backup.
Wanted == IF basket.users = {} THEN backup.users ELSE basket.users

\* What the account has, and whose logins are whose, asked of the server.
AccountDatabases == {d \in Databases : dbOwner[d] = Account}
databaseUserOwners(l) == loginMap[l]
serverDatabaseUsers == {l \in Logins : loginBy[l] # Nobody}

--------------------------------------------------------------------------
(* Ending a restore.                                                       *)

Report(status, why, done) ==
    /\ report' = [status |-> status, applied |-> done # {}, why |-> why]
    /\ phase' = "idle"
    /\ left' = {} /\ loading' = {} /\ existing' = {} /\ overwrite' = FALSE

\* A failure carries what had been put back by then (partly).
partly(why) ==
    /\ Report("failed", why, wrote)
    /\ UNCHANGED <<request, wrote, bounds, swapped>>

\* The call being made fails and has changed nothing.
CallFails(why) ==
    /\ partly(why)
    /\ UNCHANGED <<db, login, home, cron, replaced, sandbox, there, touched>>

Proceed(p) == phase' = p /\ UNCHANGED <<request, report, there, bounds>>
Continue(p) == Proceed(p) /\ UNCHANGED swapped

\* The next group of writes this basket calls for, in the order the account
\* needs: databases exist before dumps and grants go into them.
Phases == <<"create", "load", "users", "homedir", "cron">>
Calls(p) ==
    \/ p \in {"create", "load"} /\ wantDumps
    \/ p = "users" /\ wantUsers
    \/ p \in {"homedir", "cron"} /\ p \in basket.kinds
After(i) ==
    LET rest == {j \in (i + 1)..5 : Calls(Phases[j])}
    IN  IF rest = {} THEN "finish"
        ELSE Phases[CHOOSE j \in rest : \A m \in rest : j <= m]

--------------------------------------------------------------------------
(* The parts of an account.                                                *)

Start(w) ==
    /\ phase = "idle" /\ restores < MaxRestores
    /\ restores' = restores + 1
    /\ backup' \in Backups /\ basket' \in Baskets /\ whole' = w
    /\ phase' = IF w THEN "rebuild" ELSE "stage"
    /\ wrote' = {} /\ touched' = {} /\ report' = NoReport
    /\ UNCHANGED <<db, login, home, cron, replaced, sandbox, there, progress, outside, swapped>>

StageItems ==
    /\ phase = "stage"
    /\ \/ CallFails("stage")
       \/ /\ BuildAll(basket, backup) /\ measure(basket, backup)
          /\ Continue("check")
          /\ UNCHANGED <<db, login, home, cron, replaced, sandbox, progress, wrote, touched>>

checkDatabaseDumps == basket.dbs # {} /\ basket.dbs \subseteq backup.dumps

checkDatabaseUsers(present) ==
    /\ Wanted # {} /\ Wanted \subseteq backup.users
    /\ \A u \in Wanted : backup.grants[u] \subseteq present

\* Everything applyItems looks at before it writes.
CanBeApplied ==
    LET create == IF wantDumps THEN basket.dbs ELSE {}
    IN  /\ basket.kinds \subseteq KindsThatApply
        /\ wantDumps \/ wantUsers => there
        /\ wantDumps => checkDatabaseDumps
        /\ wantUsers => checkDatabaseUsers(AccountDatabases \cup create)
        /\ "cron" \in basket.kinds => backup.cron

applyItems ==
    /\ phase = "check"
    /\ \/ ~CanBeApplied /\ CallFails("refused")
       \/ /\ CanBeApplied
          /\ left' = basket.dbs \ AccountDatabases
          /\ Continue(After(0))
          /\ UNCHANGED <<db, login, home, cron, replaced, sandbox, loading, existing, overwrite, wrote, touched>>

\* cPanel makes the database as the account: it refuses a name somebody has.
CreateDatabase ==
    /\ phase = "create"
    /\ \/ CallFails("create")
       \/ /\ left = {}
          /\ left' = basket.dbs
          /\ Continue("load")
          /\ UNCHANGED <<db, wrote, touched>>
          /\ UNCHANGED <<login, home, cron, replaced, sandbox, loading, existing, overwrite>>
       \/ \E d \in left :
             /\ there /\ dbOwner[d] = Nobody
             /\ dbOwner' = [dbOwner EXCEPT ![d] = Account]
             /\ dbContent' = [dbContent EXCEPT ![d] = "empty"]
             /\ left' = left \ {d}
             /\ wrote' = wrote \cup {<<"created", d>>}
             /\ touched' = touched \cup {<<"created", d>>}
             /\ Continue("create")
             /\ UNCHANGED <<login, home, cron, replaced, sandbox, loading, existing, overwrite>>

\* The server is asked again whose database it is: the name in the backup may
\* have changed hands since.
MayLoad(d) == dbOwner[d] = Account

\* A login that can reach this one database is made for the dump.
LoadDatabase ==
    /\ phase = "load"
    /\ \/ CallFails("load")
       \/ /\ left = {}
          /\ Continue(After(2))
          /\ UNCHANGED <<db, login, home, cron, replaced, sandbox, progress, wrote, touched>>
       \/ \E d \in left :
             /\ there /\ MayLoad(d)
             /\ left' = left \ {d} /\ loading' = {d}
             /\ sandbox' = sandbox \cup {d}
             /\ Proceed("loading") /\ swappedDbs' = {} /\ UNCHANGED swappedLogins
             /\ UNCHANGED <<db, login, home, cron, replaced, existing, overwrite, wrote, touched>>

\* Mutant: cleanup runs under the restore's own context and is cancelled with it.
LoginAfterUnclean(d, got, dropped) == IF got = "backup" THEN sandbox \ {d} ELSE sandbox

\* The disposable login is dropped whatever became of the load.
LoginAfter(d, got, dropped) == IF dropped THEN sandbox \ {d} ELSE sandbox

\* A dump goes in whole, in part or not at all; a login that could not be
\* dropped makes the call a failure.
loadIsolatedDatabase ==
    /\ phase = "loading"
    /\ \E d \in loading, got \in {"nothing", "torn", "backup"}, dropped \in BOOLEAN :
          /\ dbOwner[d] = Nobody => got = "nothing"
          /\ dbContent' = IF got = "nothing" THEN dbContent ELSE [dbContent EXCEPT ![d] = got]
          /\ touched' = IF got = "nothing" THEN touched ELSE touched \cup {<<"loaded", d>>}
          /\ sandbox' = LoginAfter(d, got, dropped)
          /\ IF got = "backup" /\ dropped
             THEN /\ wrote' = wrote \cup {<<"loaded", d>>}
                  /\ loading' = {} /\ Continue("load")
                  /\ UNCHANGED <<left, existing, overwrite>>
             ELSE /\ Report("failed", IF dropped THEN "load" ELSE "login left", wrote)
                  /\ UNCHANGED <<request, there, bounds, wrote, swapped>>
    /\ UNCHANGED <<dbOwner, login, home, cron, replaced>>

--------------------------------------------------------------------------
(* PutDatabaseUsers: every login is checked, then root makes the logins,   *)
(* dbmaptool says whose they are, and cPanel grants as the account.        *)

Mapped == Wanted \ {OwnLogin}
Fresh == Mapped \ existing
Known == Mapped \cap existing
UserPhases == {"owner", "fresh", "known", "map", "grant", "ownergrant"}

\* Mutant: what the backup says the logins could open is not looked up.
UsersAllowedUngranted(u) ==
    /\ u \in serverDatabaseUsers => databaseUserOwners(u) = Account
    /\ databaseUserOwners(u) # Other

\* A login on the server is the account's by the panel's record, nobody else's
\* by any record, and opens only databases the account has now.
UsersAllowed(u) ==
    /\ u \in serverDatabaseUsers => databaseUserOwners(u) = Account
    /\ databaseUserOwners(u) # Other
    /\ backup.grants[u] \subseteq AccountDatabases

PutDatabaseUsers ==
    /\ phase = "users"
    /\ \/ CallFails("users")
       \/ (\E u \in Wanted : ~UsersAllowed(u)) /\ CallFails("users refused")
       \/ /\ there
          /\ \A u \in Wanted : UsersAllowed(u)
          /\ existing' = serverDatabaseUsers
          /\ Proceed("owner") /\ swappedDbs' = {}
          /\ swappedLogins' = {l \in swappedLogins : databaseUserOwners(l) = Account}
          /\ UNCHANGED <<db, login, home, cron, replaced, sandbox, left, loading, overwrite, wrote, touched>>

UsersTouched(S) == touched' = IF S = {} THEN touched ELSE touched \cup {<<"users", "all">>}

\* CREATE USER for those of S that are absent; the password of those in P is
\* the backup's from now on.
Written(S, P) ==
    /\ loginBy' = [l \in Logins |-> IF l \in S /\ loginBy[l] = Nobody THEN Account ELSE loginBy[l]]
    /\ loginPass' = [l \in Logins |-> IF l \in P THEN "backup" ELSE loginPass[l]]
    /\ UsersTouched(P)
    /\ UNCHANGED <<loginMap, granted>>

\* A script of statements stops at the first that fails.
Script(done, all, next) ==
    /\ IF done = all THEN Continue(next) /\ UNCHANGED progress
                     ELSE Report("failed", "users", wrote)
    /\ UNCHANGED <<db, home, cron, replaced, sandbox, there, request, wrote, bounds, swapped>>

Absent(S) == S \ serverDatabaseUsers

\* The account's own login is made if it is missing and is otherwise left.
createDatabaseUsers(S) == Absent(S)

writeOwner ==
    /\ phase = "owner"
    /\ \E S \in SUBSET (Wanted \cap {OwnLogin}) :
          /\ Written(S, createDatabaseUsers(S))
          /\ Script(S, Wanted \cap {OwnLogin}, "fresh")

\* Mutant: CREATE USER IF NOT EXISTS and ALTER USER, as for a login that is known.
CreatableOrThere(S) == S

\* A login that was absent must still be absent when it is made.
Creatable(S) == Absent(S)

writeDatabaseUsers ==
    /\ phase = "fresh"
    /\ \E S \in SUBSET Creatable(Fresh) :
          /\ Written(S, S)
          /\ Script(S, Fresh, "known")

\* A login that was there is set back to the password it had.  By now it may
\* have been dropped, and is made again, or be somebody else's.
RestoredPasswords(S) == S

writeKnown ==
    /\ phase = "known"
    /\ \E S \in SUBSET Known :
          /\ Written(S, RestoredPasswords(S))
          /\ Script(S, Known, "map")

mapDatabaseUsers ==
    /\ phase = "map"
    /\ \E S \in SUBSET {u \in Mapped : there} :
          /\ loginMap' = [l \in Logins |-> IF l \in S THEN Account ELSE loginMap[l]]
          /\ UsersTouched(S)
          /\ Script(S, Mapped, "grant")
    /\ UNCHANGED <<loginBy, loginPass, granted>>

Granted(S) ==
    /\ granted' = [l \in Logins |-> IF l \in S THEN granted[l] \cup backup.grants[l] ELSE granted[l]]
    /\ UsersTouched(S)
    /\ UNCHANGED <<loginBy, loginPass, loginMap>>

\* cPanel refuses a login or a database that is not the account's by then.
Grantable == {u \in Mapped : loginMap[u] = Account /\ backup.grants[u] \subseteq AccountDatabases}

grantDatabaseUsers ==
    /\ phase = "grant"
    /\ \E S \in SUBSET Grantable :
          Granted(S) /\ Script(S, Mapped, "ownergrant")

\* MySQL itself is asked for the account's own login, which cPanel cannot map:
\* it grants on whatever has the name by now, to a login that is there.
grantOwnerDatabases ==
    /\ phase = "ownergrant"
    /\ \/ CallFails("users")
       \/ /\ OwnLogin \in Wanted => loginBy[OwnLogin] # Nobody
          /\ Granted(Wanted \cap {OwnLogin})
          /\ wrote' = wrote \cup {<<"users", "all">>}
          /\ Continue(After(3))
          /\ UNCHANGED <<db, home, cron, replaced, sandbox, progress>>

--------------------------------------------------------------------------
(* Files and cron jobs, and the end of a basket.                           *)

PutHomeDir ==
    /\ phase = "homedir"
    /\ \/ CallFails("homedir")
       \/ \E got \in {"torn", "backup"} :
             /\ there
             /\ home' = got
             /\ touched' = touched \cup {<<"home", "all">>}
             /\ IF got = "backup"
                THEN /\ wrote' = wrote \cup {<<"home", "all">>}
                     /\ Continue(After(4)) /\ UNCHANGED progress
                ELSE Report("failed", "homedir", wrote) /\ UNCHANGED <<request, there, bounds, wrote, swapped>>
    /\ UNCHANGED <<db, login, cron, replaced, sandbox>>

\* crontab(1) takes the whole file or none of it; the one it replaces is kept.
PutCrontab ==
    /\ phase = "cron"
    /\ \/ CallFails("cron")
       \/ /\ there
          /\ replaced' = replaced \cup ({cron} \ {"none"})
          /\ \/ /\ cron' = "backup"
                /\ wrote' = wrote \cup {<<"cron", "all">>}
                /\ touched' = touched \cup {<<"cron", "all">>}
                /\ Continue("finish") /\ UNCHANGED progress
             \/ /\ Report("failed", "cron", wrote)
                /\ UNCHANGED <<cron, request, there, bounds, wrote, touched, swapped>>
          /\ UNCHANGED <<db, login, home, sandbox>>

Finish ==
    /\ phase = "finish"
    /\ Report("success", "done", {"all"})
    /\ UNCHANGED <<db, login, home, cron, replaced, sandbox, there, request, wrote, touched, bounds, swapped>>

--------------------------------------------------------------------------
(* A whole account.                                                        *)

\* The archive is rebuilt and has to be complete; whether the account is
\* already here decides how cPanel is asked.
restoreAccount ==
    /\ phase = "rebuild"
    /\ \/ CallFails("rebuild")
       \/ /\ backup.complete
          /\ overwrite' = there
          /\ Continue("apply")
          /\ UNCHANGED <<db, login, home, cron, replaced, sandbox, left, loading, existing, wrote, touched>>

\* restorepkg: it will not make an account that exists, restores nothing into
\* nothing, skips a database it cannot restore and exits zero all the same.
Apply ==
    /\ phase = "apply"
    /\ \/ CallFails("apply")
       \/ overwrite /\ ~there /\ Continue("confirm")
          /\ UNCHANGED <<db, login, home, cron, replaced, sandbox, progress, wrote, touched>>
       \/ \E S \in SUBSET {d \in backup.dumps : dbOwner[d] # Other}, all \in BOOLEAN :
             /\ overwrite = there
             /\ there' = TRUE
             /\ dbOwner' = [d \in Databases |-> IF d \in S THEN Account ELSE dbOwner[d]]
             /\ dbContent' = [d \in Databases |-> IF d \in S THEN "backup" ELSE dbContent[d]]
             /\ home' = IF all THEN "backup" ELSE "torn"
             /\ touched' = touched \cup {<<"account", "all">>}
             /\ IF all THEN phase' = "confirm" /\ UNCHANGED <<report, progress>>
                       ELSE Report("failed", "apply", wrote)
             /\ loginBy' = [loginBy EXCEPT ![OwnLogin] = Account]
             /\ UNCHANGED <<loginPass, loginMap, granted, cron, replaced, sandbox, request, wrote, bounds, swapped>>

\* What cPanel said it restored is looked for on the server.
confirmRestored == there /\ backup.dumps \subseteq AccountDatabases

Confirm ==
    /\ phase = "confirm"
    /\ \/ CallFails("not there")
       \/ /\ confirmRestored
          /\ Report("success", "done", {"all"})
          /\ UNCHANGED <<db, login, home, cron, replaced, sandbox, there, request,
                         wrote, touched, bounds, swapped>>

--------------------------------------------------------------------------
(* Everybody else.                                                         *)

Outside ==
    /\ outside < MaxOutside /\ outside' = outside + 1
    /\ UNCHANGED <<home, cron, replaced, phase, request, progress, wrote, touched, report, restores>>

CustomerDropsDatabase(d) ==
    /\ Outside
    /\ dbOwner[d] = Account
    /\ dbOwner' = [dbOwner EXCEPT ![d] = Nobody]
    /\ UNCHANGED <<dbContent, login, sandbox, there, swapped>>

\* Between the check of a name and its use, or at any other time.
OtherTakesDatabase(d) ==
    /\ Outside
    /\ dbOwner[d] = Nobody
    /\ swappedDbs' = IF d \in loading \/ phase \in UserPhases THEN swappedDbs \cup {d} ELSE swappedDbs
    /\ dbOwner' = [dbOwner EXCEPT ![d] = Other]
    /\ dbContent' = [dbContent EXCEPT ![d] = "live"]
    /\ UNCHANGED <<login, sandbox, there, swappedLogins>>

CustomerDropsLogin(l) ==
    /\ Outside
    /\ l # OwnLogin /\ loginBy[l] = Account
    /\ loginBy' = [loginBy EXCEPT ![l] = Nobody]
    /\ loginMap' = [loginMap EXCEPT ![l] = Nobody]
    /\ loginPass' = [loginPass EXCEPT ![l] = "now"]
    /\ granted' = [granted EXCEPT ![l] = {}]
    /\ UNCHANGED <<db, sandbox, there, swapped>>

\* A login that a call found absent is safe until the call has made it: CREATE
\* USER is refused.  One that it found, or has made, is used by its name.
UsedByName(l) == phase \in UserPhases /\ (l \in existing \/ phase \notin {"owner", "fresh"})

OtherTakesLogin(l) ==
    /\ Outside
    /\ loginBy[l] = Nobody /\ loginMap[l] = Nobody
    /\ swappedLogins' = IF UsedByName(l) THEN swappedLogins \cup {l} ELSE swappedLogins \ {l}
    /\ loginBy' = [loginBy EXCEPT ![l] = Other]
    /\ loginMap' = [loginMap EXCEPT ![l] = Other]
    /\ loginPass' = [loginPass EXCEPT ![l] = "now"]
    /\ granted' = [granted EXCEPT ![l] = {}]
    /\ UNCHANGED <<db, sandbox, there, swappedDbs>>

Terminate ==
    /\ Outside
    /\ there /\ there' = FALSE
    /\ dbOwner' = [d \in Databases |-> IF dbOwner[d] = Account THEN Nobody ELSE dbOwner[d]]
    /\ loginBy' = [l \in Logins |-> IF loginBy[l] = Account THEN Nobody ELSE loginBy[l]]
    /\ loginMap' = [l \in Logins |-> IF loginMap[l] = Account /\ l # OwnLogin THEN Nobody ELSE loginMap[l]]
    /\ UNCHANGED <<dbContent, loginPass, granted, sandbox, swapped>>

\* The agent dies: nothing it had deferred runs, and the restore is reported
\* by the next one as interrupted.
AgentDies ==
    /\ phase # "idle"
    /\ outside < MaxOutside /\ outside' = outside + 1
    /\ Report("failed", "died", {})
    /\ UNCHANGED <<db, login, home, cron, replaced, sandbox, there, request, wrote, touched, restores, swapped>>

Next ==
    \/ \E w \in BOOLEAN : Start(w)
    \/ StageItems \/ applyItems \/ CreateDatabase \/ LoadDatabase \/ loadIsolatedDatabase
    \/ PutDatabaseUsers \/ writeOwner \/ writeDatabaseUsers \/ writeKnown
    \/ mapDatabaseUsers \/ grantDatabaseUsers \/ grantOwnerDatabases
    \/ PutHomeDir \/ PutCrontab \/ Finish
    \/ restoreAccount \/ Apply \/ Confirm
    \/ \E d \in Databases : CustomerDropsDatabase(d) \/ OtherTakesDatabase(d)
    \/ \E l \in Logins : CustomerDropsLogin(l) \/ OtherTakesLogin(l)
    \/ Terminate \/ AgentDies

Spec == Init /\ [][Next]_vars

--------------------------------------------------------------------------
(* Properties.                                                             *)

\* Every variable keeps to what the server and the restore can hold.
TypeOK ==
    /\ dbOwner \in [Databases -> {Account, Other, Nobody}]
    /\ dbContent \in [Databases -> {"live", "backup", "torn", "empty"}]
    /\ loginBy \in [Logins -> {Account, Other, Nobody}]
    /\ loginPass \in [Logins -> {"now", "backup"}]
    /\ loginMap \in [Logins -> {Account, Other, Nobody}]
    /\ granted \in [Logins -> SUBSET Databases]
    /\ backup \in Backups /\ basket \in Baskets
    /\ left \subseteq Databases /\ loading \subseteq Databases
    /\ sandbox \subseteq Databases
    /\ existing \subseteq Logins
    /\ swappedDbs \subseteq Databases /\ swappedLogins \subseteq Logins

\* A restore changes nothing of another account's: no database it has come by
\* is loaded into, and no login it has made is given a password from the backup
\* or recorded as this account's.  Excepted are the names that were this
\* account's when the call looked, or were made by the call, and changed hands
\* before it used them: no lock keeps a name still inside a call.
OthersUntouched ==
    [][/\ \A d \in Databases \ swappedDbs :
             dbOwner[d] = Other => dbContent'[d] = dbContent[d]
       /\ \A l \in Logins \ swappedLogins :
             loginBy[l] = Other => loginPass'[l] = loginPass[l] /\ loginMap'[l] = loginMap[l]]_vars

\* Nothing is granted on a database another account has, whichever of the two
\* ways the grant is given and whatever the backup says it used to open, unless
\* the database changed hands after PutDatabaseUsers had looked.
GrantsAreConfined ==
    [][\A l \in Logins : \A d \in granted'[l] \ granted[l] :
          dbOwner[d] # Other \/ d \in swappedDbs]_vars

\* "Do not turn a CREATE collision into ALTER of a login created by somebody
\* else" (putback.go:443), of every login: TLC finds it violated for one that
\* was there at the look and was dropped and taken before ALTER USER.
NoLoginOfAnothers ==
    [][\A l \in Logins : loginBy[l] = Other => loginPass'[l] = loginPass[l]]_vars

\* A load that ends, however it ends, leaves no disposable login behind unless
\* dropping it failed, and then the report says so.
SandboxIsGone ==
    [][loading # {} /\ loading' = {} =>
          sandbox' \cap loading = {} \/ report'.why \in {"login left", "died"}]_vars

\* The account's own MySQL login keeps its password while it exists: cPanel
\* keeps it in step with the account's, and a leaked one must not come back.
OwnPasswordStays ==
    [][loginBy[OwnLogin] # Nobody => loginPass'[OwnLogin] = loginPass[OwnLogin]]_vars

\* A restore that reports success put back all it was asked for: what is still
\* the account's then holds what the backup held, and a whole account is there.
SuccessIsWhole ==
    [][report.status = "none" /\ report'.status = "success" =>
          IF whole THEN there /\ backup.dumps \subseteq AccountDatabases
          ELSE /\ wantDumps => \A d \in basket.dbs \cap AccountDatabases : dbContent[d] = "backup"
               /\ wantUsers => \A u \in Mapped :
                     loginBy[u] = Account =>
                        /\ loginPass[u] = "backup" /\ loginMap[u] = Account
                        /\ backup.grants[u] \subseteq granted[u]
               /\ "homedir" \in basket.kinds => home = "backup"
               /\ "cron" \in basket.kinds => cron = "backup"]_vars

\* "Everything is checked before anything is written" (items.go:334): users that
\* are refused are refused before a database has been replaced.  TLC finds it
\* violated: whose the logins are is asked by PutDatabaseUsers, after the loads.
UsersAreRefusedFirst == report.why = "users refused" => touched = {}

\* A restore that failed and has changed the account says that it has
\* (items.go:149).  TLC finds it violated by a call that fails half-way.
ChangeIsSaid == report.status = "failed" /\ report.why # "died" /\ touched # {} => report.applied
==========================================================================
