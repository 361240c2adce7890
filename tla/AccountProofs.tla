----------------------------- MODULE AccountProofs -----------------------------
(* What holds while an account is put back on a server, whoever else changes *)
(* what is there meanwhile, and while it is removed from one and forgotten.  *)
(* The two have their own variables and their own specifications here.       *)
EXTENDS PutBack, Termination, FiniteSetTheorems, WellFoundedInduction, TLAPS

\* A dump goes into nothing of another account's, unless it was taken since the
\* look; so with a grant, a login that was there and one that has been made.
LoadsOwn == \A d \in loading : dbOwner[d] = Other => d \in swappedDbs

KnownAreOwn ==
    phase \in UserPhases => \A l \in Known : loginBy[l] = Other => l \in swappedLogins

FreshAreOwn ==
    phase \in {"known", "map", "grant", "ownergrant"} =>
        \A l \in Fresh : loginBy[l] = Other => l \in swappedLogins

GrantsAreOwn ==
    phase \in UserPhases =>
        \A u \in Wanted : \A d \in backup.grants[u] : dbOwner[d] = Other => d \in swappedDbs

\* What the panel calls this account's is nobody else's, unless a name that was
\* taken inside a call has been recorded by it
RecordsAgree ==
    \A l \in Logins : loginBy[l] = Other /\ loginMap[l] = Account => l \in swappedLogins

\* One dump goes in at a time, and the restore does nothing else meanwhile.
LoadsOne == \A d \in loading : loading = {d} /\ phase = "loading"

HandsOff == LoadsOwn /\ KnownAreOwn /\ FreshAreOwn /\ GrantsAreOwn

IInv == TypeOK /\ RecordsAgree /\ HandsOff

-----------------------------------------------------------------------------
\* The first of the parts a basket calls for is no part of PutDatabaseUsers.
LEMMA AfterIsAPart ==
    ASSUME NEW i \in {0, 2, 3, 4}
    PROVE  After(i) \notin UserPhases
<1> DEFINE rest == {j \in (i + 1)..5 : Calls(Phases[j])}
           first == CHOOSE j \in rest : \A m \in rest : j <= m
<1>1. CASE rest = {}
  BY <1>1 DEF After, UserPhases
<1>2. CASE rest # {}
  <2>1. rest \subseteq 1..5
    OBVIOUS
  <2>2. \E j \in rest : \A m \in rest : j <= m
    <3> HIDE DEF rest
    <3>1. CASE 1 \in rest
      BY <3>1, <2>1
    <3>2. CASE 1 \notin rest /\ 2 \in rest
      BY <3>2, <2>1
    <3>3. CASE 1 \notin rest /\ 2 \notin rest /\ 3 \in rest
      BY <3>3, <2>1
    <3>4. CASE 1 \notin rest /\ 2 \notin rest /\ 3 \notin rest /\ 4 \in rest
      BY <3>4, <2>1
    <3>5. CASE 1 \notin rest /\ 2 \notin rest /\ 3 \notin rest /\ 4 \notin rest
      <4>1. \A j \in rest : j = 5
        BY <3>5, <2>1
      <4>2. PICK j \in rest : TRUE
        BY <1>2
      <4> QED
        BY <4>1, <4>2
    <3> QED
      BY <3>1, <3>2, <3>3, <3>4, <3>5
  <2>3. first \in 1..5
    <3> HIDE DEF rest
    <3> QED
      BY <2>1, <2>2
  <2>4. After(i) = Phases[first]
    BY <1>2 DEF After
  <2>5. Phases[first] \in {"create", "load", "users", "homedir", "cron"}
    <3> HIDE DEF first
    <3> QED
      BY <2>3 DEF Phases
  <2> QED
    BY <2>4, <2>5 DEF UserPhases
<1> QED
  BY <1>1, <1>2

\* What a backup and a basket name is on the server's lists.
LEMMA RequestsAreTyped ==
    ASSUME TypeOK
    PROVE  /\ backup.grants \in [Logins -> SUBSET Databases]
           /\ backup.users \subseteq Logins /\ backup.dumps \subseteq Databases
           /\ basket.dbs \subseteq Databases /\ basket.users \subseteq Logins
           /\ Wanted \subseteq Logins
<1>1. backup \in BackupRecord /\ basket \in Basket
  BY PutBackAssumption DEF TypeOK
<1>2. /\ backup.grants \in [Logins -> SUBSET Databases]
      /\ backup.users \subseteq Logins /\ backup.dumps \subseteq Databases
      /\ basket.dbs \subseteq Databases /\ basket.users \subseteq Logins
  BY <1>1 DEF BackupRecord, Basket
<1> QED
  BY <1>2 DEF Wanted

LEMMA InitiallyHandsOff == Init => IInv
<1> SUFFICES ASSUME Init PROVE IInv
  OBVIOUS
<1>1. backup \in Backups /\ basket \in Baskets
  BY PutBackAssumption DEF Init
<1>2. TypeOK
  BY <1>1, PutBackAssumption DEF Init, TypeOK, Account, Other, Nobody
<1>3. RecordsAgree
  BY PutBackAssumption DEF Init, RecordsAgree, Account, Other, Nobody
<1>4. HandsOff
  BY DEF Init, HandsOff, LoadsOwn, KnownAreOwn, FreshAreOwn, GrantsAreOwn, UserPhases
<1> QED
  BY <1>2, <1>3, <1>4 DEF IInv
-----------------------------------------------------------------------------
(* What a step keeps, by what it leaves alone.                              *)

\* A step that leaves names, owners and the request alone, and lets no login
\* phase begin, keeps everything.
LEMMA QuietStep ==
    ASSUME IInv, TypeOK',
           UNCHANGED <<dbOwner, login, request, swappedLogins>>,
           \A d \in loading' : dbOwner[d] = Other => d \in loading /\ swappedDbs' = swappedDbs,
           phase' \in UserPhases => phase' = phase /\ existing' = existing /\ swappedDbs' = swappedDbs
    PROVE  IInv'
<1>1. RecordsAgree'
  BY DEF IInv, RecordsAgree, login
<1>2. LoadsOwn'
  BY DEF IInv, HandsOff, LoadsOwn
<1>3. KnownAreOwn' /\ FreshAreOwn' /\ GrantsAreOwn'
  BY DEF IInv, HandsOff, KnownAreOwn, FreshAreOwn, GrantsAreOwn, Known, Fresh, Mapped,
         Wanted, login, request, UserPhases
<1> QED
  BY <1>1, <1>2, <1>3 DEF IInv, HandsOff

LEMMA ReportKeeps ==
    ASSUME IInv, NEW status, NEW why, NEW done,
           Report(status, why, done), UNCHANGED <<dbOwner, login, request, swapped>>,
           dbContent' \in [Databases -> {"live", "backup", "torn", "empty"}],
           sandbox' \subseteq Databases
    PROVE  IInv'
<1>1. TypeOK'
  BY DEF IInv, TypeOK, Report, login, request, swapped
<1>2. phase' \notin UserPhases /\ loading' = {}
  BY DEF Report, UserPhases
<1> QED
  BY <1>1, <1>2, QuietStep DEF swapped

LEMMA CallFailsKeeps ==
    ASSUME IInv, NEW why, CallFails(why)
    PROVE  IInv'
<1>1. Report("failed", why, wrote) /\ UNCHANGED <<dbOwner, dbContent, login, request, sandbox, swapped>>
  BY DEF CallFails, partly, db
<1>2. dbContent' \in [Databases -> {"live", "backup", "torn", "empty"}] /\ sandbox' \subseteq Databases
  BY <1>1 DEF IInv, TypeOK
<1> QED
  BY <1>1, <1>2, ReportKeeps

-----------------------------------------------------------------------------
(* The parts of an account.                                                 *)

LEMMA StartKeeps ==
    ASSUME IInv, NEW w \in BOOLEAN, Start(w)
    PROVE  IInv'
<1>1. TypeOK'
  BY DEF Start, IInv, TypeOK, db, login, progress, swapped
<1>2. phase' \notin UserPhases
  BY DEF Start, UserPhases
<1>3. RecordsAgree' /\ LoadsOwn'
  BY DEF Start, IInv, RecordsAgree, HandsOff, LoadsOwn, db, login, progress, swapped
<1>4. KnownAreOwn' /\ FreshAreOwn' /\ GrantsAreOwn'
  BY <1>2 DEF KnownAreOwn, FreshAreOwn, GrantsAreOwn, UserPhases
<1> QED
  BY <1>1, <1>3, <1>4 DEF IInv, HandsOff

LEMMA PartsKeep ==
    ASSUME IInv,
           StageItems \/ applyItems \/ LoadDatabase \/ PutHomeDir \/ PutCrontab \/ Finish
    PROVE  IInv'
<1>1. CASE StageItems
  <2>1. CASE CallFails("stage")
    BY <2>1, CallFailsKeeps
  <2>2. CASE ~ CallFails("stage")
    <3>1. TypeOK' /\ phase' \notin UserPhases
      BY <1>1, <2>2 DEF StageItems, IInv, TypeOK, db, login, progress, Continue, Proceed, request, swapped, UserPhases
    <3> QED
      BY <1>1, <2>2, <3>1, QuietStep DEF StageItems, Continue, Proceed, swapped, db, progress
  <2> QED
    BY <2>1, <2>2
<1>2. CASE applyItems
  <2>1. CASE CallFails("refused")
    BY <2>1, CallFailsKeeps
  <2>2. CASE ~ CallFails("refused")
    <3>1. basket.dbs \subseteq Databases
      BY RequestsAreTyped DEF IInv
    <3>2. TypeOK'
      BY <1>2, <2>2, <3>1 DEF applyItems, IInv, TypeOK, db, login, Continue, Proceed, request, swapped
    <3>3. phase' \notin UserPhases
      BY <1>2, <2>2, AfterIsAPart DEF applyItems, Continue, Proceed
    <3> QED
      BY <1>2, <2>2, <3>2, <3>3, QuietStep DEF applyItems, Continue, Proceed, swapped, db
  <2> QED
    BY <2>1, <2>2
<1>3. CASE LoadDatabase
  <2>1. CASE CallFails("load")
    BY <2>1, CallFailsKeeps
  <2>2. CASE left = {} /\ ~ CallFails("load") /\ UNCHANGED progress
    <3>1. TypeOK'
      BY <1>3, <2>2 DEF LoadDatabase, IInv, TypeOK, db, login, progress, Continue, Proceed, request, swapped
    <3>2. phase' \notin UserPhases
      BY <1>3, <2>2, AfterIsAPart DEF LoadDatabase, Continue, Proceed
    <3> QED
      BY <1>3, <2>2, <3>1, <3>2, QuietStep DEF LoadDatabase, Continue, Proceed, swapped, db, progress
  <2>3. CASE left # {} /\ ~ CallFails("load")
    <3>1. PICK d \in left : MayLoad(d) /\ left' = left \ {d} /\ loading' = {d}
                            /\ sandbox' = sandbox \cup {d} /\ Proceed("loading")
                            /\ swappedDbs' = {} /\ UNCHANGED swappedLogins
                            /\ UNCHANGED <<db, login, home, cron, replaced, existing, overwrite, wrote, touched>>
      BY <1>3, <2>3 DEF LoadDatabase
    <3>2. TypeOK'
      BY <3>1 DEF IInv, TypeOK, db, login, Continue, Proceed, request, swapped
    <3>3. phase' \notin UserPhases
      BY <3>1 DEF Proceed, UserPhases
    <3>4. dbOwner[d] # Other
      BY <3>1 DEF MayLoad, Account, Other
    <3> QED
      BY <3>1, <3>2, <3>3, <3>4, QuietStep DEF Proceed, db
  <2>4. CASE left = {} /\ ~ CallFails("load") /\ ~ UNCHANGED progress
    BY <1>3, <2>4 DEF LoadDatabase
  <2> QED
    BY <2>1, <2>2, <2>3, <2>4
<1>4. CASE PutHomeDir
  <2>1. CASE CallFails("homedir")
    BY <2>1, CallFailsKeeps
  <2>2. CASE ~ CallFails("homedir")
    <3>1. TypeOK'
      BY <1>4, <2>2 DEF PutHomeDir, IInv, TypeOK, db, login, progress, Continue, Proceed, request, swapped, Report
    <3>2. phase' \notin UserPhases /\ loading' \subseteq loading
      BY <1>4, <2>2, AfterIsAPart DEF PutHomeDir, Continue, Proceed, Report, UserPhases, progress
    <3> QED
      BY <1>4, <2>2, <3>1, <3>2, QuietStep DEF PutHomeDir, Continue, Proceed, swapped, db
  <2> QED
    BY <2>1, <2>2
<1>5. CASE PutCrontab
  <2>1. CASE CallFails("cron")
    BY <2>1, CallFailsKeeps
  <2>2. CASE ~ CallFails("cron")
    <3>1. TypeOK'
      BY <1>5, <2>2 DEF PutCrontab, IInv, TypeOK, db, login, progress, Continue, Proceed, request, swapped, Report
    <3>2. phase' \notin UserPhases /\ loading' \subseteq loading
      BY <1>5, <2>2 DEF PutCrontab, Continue, Proceed, Report, UserPhases, progress
    <3> QED
      BY <1>5, <2>2, <3>1, <3>2, QuietStep DEF PutCrontab, Continue, Proceed, swapped, db
  <2> QED
    BY <2>1, <2>2
<1>6. CASE Finish
  <2>1. Report("success", "done", {"all"}) /\ UNCHANGED <<dbOwner, dbContent, login, request, sandbox, swapped>>
    BY <1>6 DEF Finish, db
  <2>2. dbContent' \in [Databases -> {"live", "backup", "torn", "empty"}] /\ sandbox' \subseteq Databases
    BY <2>1 DEF IInv, TypeOK
  <2> QED
    BY <2>1, <2>2, ReportKeeps
<1> QED
  BY <1>1, <1>2, <1>3, <1>4, <1>5, <1>6
-----------------------------------------------------------------------------
(* Databases and dumps.                                                     *)

LEMMA CreateDatabaseKeeps ==
    ASSUME IInv, CreateDatabase
    PROVE  IInv'
<1>1. CASE CallFails("create")
  BY <1>1, CallFailsKeeps
<1>2. CASE /\ left' = basket.dbs /\ Continue("load")
           /\ UNCHANGED <<db, wrote, touched>>
           /\ UNCHANGED <<login, home, cron, replaced, sandbox, loading, existing, overwrite>>
  <2>1. basket.dbs \subseteq Databases
    BY RequestsAreTyped DEF IInv
  <2>2. TypeOK'
    BY <1>2, <2>1 DEF IInv, TypeOK, db, login, Continue, Proceed, request, swapped
  <2>3. phase' \notin UserPhases
    BY <1>2 DEF Continue, Proceed, UserPhases
  <2> QED
    BY <1>2, <2>2, <2>3, QuietStep DEF Continue, Proceed, swapped, db
<1>3. ASSUME NEW d \in left, dbOwner[d] = Nobody,
             dbOwner' = [dbOwner EXCEPT ![d] = Account],
             dbContent' = [dbContent EXCEPT ![d] = "empty"],
             left' = left \ {d}, Continue("create"),
             UNCHANGED <<login, home, cron, replaced, sandbox, loading, existing, overwrite>>
      PROVE  IInv'
  <2>1. TypeOK'
    BY <1>3 DEF IInv, TypeOK, login, Continue, Proceed, request, swapped
  <2>2. phase' \notin UserPhases
    BY <1>3 DEF Continue, Proceed, UserPhases
  <2>3. RecordsAgree'
    BY <1>3 DEF IInv, RecordsAgree, login, Continue, swapped
  <2>4. LoadsOwn'
    BY <1>3 DEF IInv, TypeOK, HandsOff, LoadsOwn, Account, Other, Continue, swapped
  <2>5. KnownAreOwn' /\ FreshAreOwn' /\ GrantsAreOwn'
    BY <2>2 DEF KnownAreOwn, FreshAreOwn, GrantsAreOwn, UserPhases
  <2> QED
    BY <2>1, <2>3, <2>4, <2>5 DEF IInv, HandsOff
<1> QED
  BY <1>1, <1>2, <1>3 DEF CreateDatabase

LEMMA loadIsolatedDatabaseKeeps ==
    ASSUME IInv, loadIsolatedDatabase
    PROVE  IInv'
<1>1. PICK d \in loading, got \in {"nothing", "torn", "backup"}, dropped \in BOOLEAN :
        /\ dbContent' = IF got = "nothing" THEN dbContent ELSE [dbContent EXCEPT ![d] = got]
        /\ sandbox' = LoginAfter(d, got, dropped)
        /\ IF got = "backup" /\ dropped
           THEN /\ loading' = {} /\ Continue("load")
                /\ UNCHANGED <<left, existing, overwrite>>
           ELSE /\ Report("failed", IF dropped THEN "load" ELSE "login left", wrote)
                /\ UNCHANGED <<request, there, bounds, wrote, swapped>>
  BY Zenon DEF loadIsolatedDatabase
<1>a. UNCHANGED <<dbOwner, login>>
  BY DEF loadIsolatedDatabase
<1>b. \/ loading' = {} /\ Continue("load") /\ UNCHANGED <<left, existing, overwrite>>
      \/ /\ Report("failed", IF dropped THEN "load" ELSE "login left", wrote)
         /\ UNCHANGED <<request, there, bounds, wrote, swapped>>
  BY <1>1, Zenon
<1>c. UNCHANGED swapped
  BY <1>b DEF Continue
<1>2. dbContent' \in [Databases -> {"live", "backup", "torn", "empty"}] /\ sandbox' \subseteq Databases
  BY <1>1 DEF IInv, TypeOK, LoginAfter
<1>4. TypeOK' /\ phase' \notin UserPhases /\ loading' = {} /\ UNCHANGED request
  BY <1>1, <1>a, <1>b, <1>2 DEF IInv, TypeOK, login, Continue, Proceed, Report, request, swapped, UserPhases
<1> QED
  BY <1>a, <1>c, <1>4, QuietStep DEF swapped

-----------------------------------------------------------------------------
(* PutDatabaseUsers.                                                        *)

\* Every login that was found and every database about to be granted has been
\* looked up before the first statement.
LEMMA PutDatabaseUsersKeeps ==
    ASSUME IInv, LoadsOne, PutDatabaseUsers
    PROVE  IInv'
<1>1. CASE CallFails("users")
  BY <1>1, CallFailsKeeps
<1>2. CASE CallFails("users refused")
  BY <1>2, CallFailsKeeps
<1>3. CASE /\ \A u \in Wanted : UsersAllowed(u)
           /\ existing' = serverDatabaseUsers /\ Proceed("owner") /\ swappedDbs' = {}
           /\ swappedLogins' = {l \in swappedLogins : databaseUserOwners(l) = Account}
           /\ UNCHANGED <<db, login, home, cron, replaced, sandbox, left, loading, overwrite, wrote, touched>>
  <2>0. Wanted \subseteq Logins /\ backup.grants \in [Logins -> SUBSET Databases]
    BY RequestsAreTyped DEF IInv
  <2>1. TypeOK'
    BY <1>3 DEF IInv, TypeOK, db, login, Proceed, request, serverDatabaseUsers
  <2>2. RecordsAgree' /\ LoadsOwn'
    <3>1. RecordsAgree'
      BY <1>3 DEF IInv, RecordsAgree, login, databaseUserOwners
    <3>2. LoadsOwn'
      <4>1. loading = {}
        BY DEF PutDatabaseUsers, LoadsOne
      <4> QED
        BY <1>3, <4>1 DEF LoadsOwn
    <3> QED
      BY <3>1, <3>2
  <2>3. KnownAreOwn'
    <3>1. ASSUME NEW l \in Wanted, l \in serverDatabaseUsers, loginBy[l] = Other
          PROVE  l \in swappedLogins'
      <4>1. loginMap[l] = Account
        BY <1>3, <3>1 DEF UsersAllowed, databaseUserOwners
      <4>2. l \in swappedLogins
        BY <2>0, <3>1, <4>1 DEF IInv, RecordsAgree
      <4> QED
        BY <1>3, <4>1, <4>2 DEF databaseUserOwners
    <3> QED
      BY <1>3, <3>1 DEF KnownAreOwn, Known, Mapped, Wanted, Proceed, request, login
  <2>4. FreshAreOwn'
    BY <1>3 DEF FreshAreOwn, Proceed
  <2>5. GrantsAreOwn'
    <3>1. \A u \in Wanted : \A d \in backup.grants[u] : dbOwner[d] # Other
      BY <1>3 DEF UsersAllowed, AccountDatabases, Account, Other
    <3> QED
      BY <1>3, <3>1 DEF GrantsAreOwn, Wanted, Proceed, request, db
  <2> QED
    BY <2>1, <2>2, <2>3, <2>4, <2>5 DEF IInv, HandsOff
<1> QED
  BY <1>1, <1>2, <1>3 DEF PutDatabaseUsers

\* A script goes on to the next part or ends the restore.
LEMMA ScriptKeeps ==
    ASSUME IInv, NEW done, NEW all, NEW next,
           phase \in {"owner", "fresh", "known", "map", "grant"},
           next \in {"fresh", "known", "map", "grant", "ownergrant"},
           Script(done, all, next),
           loginBy' \in [Logins -> {Account, Other, Nobody}],
           loginPass' \in [Logins -> {"now", "backup"}],
           loginMap' \in [Logins -> {Account, Other, Nobody}],
           granted' \in [Logins -> SUBSET Databases],
           \A l \in Logins : loginBy'[l] = Other => loginBy[l] = Other,
           RecordsAgree',
           done = all /\ next = "known" => \A l \in Fresh : loginBy'[l] # Other,
           next \in {"map", "grant", "ownergrant"} => phase \in {"known", "map", "grant"}
    PROVE  IInv'
<1>0. UNCHANGED <<swappedDbs, swappedLogins>> /\ Wanted \subseteq Logins
  BY RequestsAreTyped DEF Script, Continue, swapped, IInv
<1>1. UNCHANGED <<dbOwner, dbContent, sandbox, backup, basket>>
  BY DEF Script, db, request
<1>2. CASE done = all
  <2>1. phase' = next /\ UNCHANGED progress
    BY <1>2 DEF Script, Continue, Proceed
  <2>2. TypeOK'
    BY <1>0, <1>1, <2>1 DEF IInv, TypeOK, progress
  <2>3. LoadsOwn' /\ GrantsAreOwn'
    BY <1>0, <1>1, <2>1 DEF IInv, HandsOff, LoadsOwn, GrantsAreOwn, Wanted, UserPhases, progress
  <2>4. KnownAreOwn'
    BY <1>0, <1>1, <2>1 DEF IInv, HandsOff, KnownAreOwn, Known, Mapped, Wanted, UserPhases, progress
  <2>5. FreshAreOwn'
    <3>1. CASE next = "fresh"
      BY <2>1, <3>1 DEF FreshAreOwn
    <3>2. CASE next = "known"
      BY <1>1, <1>2, <2>1, <3>2 DEF FreshAreOwn, Fresh, Mapped, Wanted, progress
    <3>3. CASE next \in {"map", "grant", "ownergrant"}
      BY <1>0, <1>1, <2>1, <3>3 DEF IInv, HandsOff, FreshAreOwn, Fresh, Mapped, Wanted, progress
    <3> QED
      BY <3>1, <3>2, <3>3
  <2> QED
    BY <2>2, <2>3, <2>4, <2>5 DEF IInv, HandsOff
<1>3. CASE done # all
  <2>1. Report("failed", "users", wrote)
    BY <1>3 DEF Script
  <2>2. TypeOK' /\ phase' \notin UserPhases /\ loading' = {}
    BY <1>0, <1>1, <2>1 DEF IInv, TypeOK, Report, UserPhases
  <2>3. HandsOff'
    BY <2>2 DEF HandsOff, LoadsOwn, KnownAreOwn, FreshAreOwn, GrantsAreOwn, UserPhases
  <2> QED
    BY <2>2, <2>3 DEF IInv
<1> QED
  BY <1>2, <1>3
\* What a script that writes logins leaves alone: it makes only what is absent.
LEMMA WrittenIs ==
    ASSUME TypeOK, NEW S \in SUBSET Logins, NEW P \in SUBSET Logins, Written(S, P)
    PROVE  /\ loginBy' \in [Logins -> {Account, Other, Nobody}]
           /\ loginPass' \in [Logins -> {"now", "backup"}]
           /\ UNCHANGED <<loginMap, granted>>
           /\ \A l \in Logins : loginBy'[l] = Other => loginBy[l] = Other
           /\ \A l \in Logins : l \notin P => loginPass'[l] = loginPass[l]
           /\ \A l \in S : loginBy[l] = Nobody => loginBy'[l] = Account
<1>1. /\ loginBy' \in [Logins -> {Account, Other, Nobody}]
      /\ loginPass' \in [Logins -> {"now", "backup"}]
      /\ UNCHANGED <<loginMap, granted>>
  BY DEF Written, TypeOK
<1>2. \A l \in Logins : loginBy'[l] = Other => loginBy[l] = Other
  BY DEF Written, TypeOK, Account, Other, Nobody
<1>3. \A l \in Logins : l \notin P => loginPass'[l] = loginPass[l]
  BY DEF Written, TypeOK
<1>4. \A l \in S : loginBy[l] = Nobody => loginBy'[l] = Account
  BY DEF Written
<1> QED
  BY <1>1, <1>2, <1>3, <1>4

\* Of the three scripts: whose logins are given a password.
LEMMA ScriptsWrite ==
    ASSUME IInv, writeOwner \/ writeDatabaseUsers \/ writeKnown
    PROVE  \E S \in SUBSET Logins, P \in SUBSET Logins : \E all, next :
             /\ Written(S, P) /\ Script(S, all, next)
             /\ \A l \in P : loginBy[l] = Other => l \in swappedLogins
             /\ \/ phase = "owner" /\ next = "fresh"
                \/ phase = "fresh" /\ next = "known" /\ all = Fresh /\ \A l \in S : loginBy[l] = Nobody
                \/ phase = "known" /\ next = "map"
<1>1. Wanted \subseteq Logins
  BY RequestsAreTyped DEF IInv
<1>2. CASE writeOwner
  <2>1. PICK S \in SUBSET (Wanted \cap {OwnLogin}) :
           Written(S, Absent(S)) /\ Script(S, Wanted \cap {OwnLogin}, "fresh")
    BY <1>2 DEF writeOwner, createDatabaseUsers
  <2>2. \A l \in Absent(S) : loginBy[l] # Other
    BY <1>1, <2>1 DEF Absent, serverDatabaseUsers, Other, Nobody
  <2>3. S \in SUBSET Logins /\ Absent(S) \in SUBSET Logins /\ phase = "owner"
    BY <1>1, <1>2, <2>1 DEF Absent, writeOwner
  <2> QED
    BY <2>1, <2>2, <2>3
<1>3. CASE writeDatabaseUsers
  <2>1. PICK S \in SUBSET Absent(Fresh) : Written(S, S) /\ Script(S, Fresh, "known")
    BY <1>3 DEF writeDatabaseUsers, Creatable
  <2>2. \A l \in S : loginBy[l] = Nobody
    BY <1>1, <2>1 DEF Absent, serverDatabaseUsers, Fresh, Mapped
  <2>3. S \in SUBSET Logins /\ phase = "fresh"
    BY <1>1, <1>3, <2>1 DEF Absent, Fresh, Mapped, writeDatabaseUsers
  <2>4. \A l \in S : loginBy[l] # Other
    BY <2>2 DEF Other, Nobody
  <2> QED
    BY <2>1, <2>2, <2>3, <2>4
<1>4. CASE writeKnown
  <2>1. PICK S \in SUBSET Known : Written(S, S) /\ Script(S, Known, "map")
    BY <1>4 DEF writeKnown, RestoredPasswords
  <2>2. S \in SUBSET Logins /\ phase = "known"
    BY <1>1, <1>4, <2>1 DEF Known, Mapped, writeKnown
  <2>3. \A l \in S : loginBy[l] = Other => l \in swappedLogins
    BY <2>1, <2>2 DEF IInv, HandsOff, KnownAreOwn, UserPhases
  <2> QED
    BY <2>1, <2>2, <2>3
<1> QED
  BY <1>2, <1>3, <1>4

LEMMA WritesKeep ==
    ASSUME IInv, writeOwner \/ writeDatabaseUsers \/ writeKnown
    PROVE  IInv'
<1>1. PICK S \in SUBSET Logins, P \in SUBSET Logins : \E all, next :
        /\ Written(S, P) /\ Script(S, all, next)
        /\ \/ phase = "owner" /\ next = "fresh"
           \/ phase = "fresh" /\ next = "known" /\ all = Fresh /\ \A l \in S : loginBy[l] = Nobody
           \/ phase = "known" /\ next = "map"
  BY ScriptsWrite
<1>a. PICK all, next :
        /\ Written(S, P) /\ Script(S, all, next)
        /\ \/ phase = "owner" /\ next = "fresh"
           \/ phase = "fresh" /\ next = "known" /\ all = Fresh /\ \A l \in S : loginBy[l] = Nobody
           \/ phase = "known" /\ next = "map"
  BY <1>1
<1>2. /\ loginBy' \in [Logins -> {Account, Other, Nobody}]
      /\ loginPass' \in [Logins -> {"now", "backup"}]
      /\ UNCHANGED <<loginMap, granted>>
      /\ \A l \in Logins : loginBy'[l] = Other => loginBy[l] = Other
      /\ \A l \in S : loginBy[l] = Nobody => loginBy'[l] = Account
  BY <1>a, WrittenIs DEF IInv
<1>3. UNCHANGED swappedLogins
  BY <1>a DEF Script, Continue, swapped
<1>4. RecordsAgree'
  BY <1>2, <1>3 DEF IInv, RecordsAgree
<1>5. S = all /\ next = "known" => \A l \in Fresh : loginBy'[l] # Other
  BY <1>a, <1>2 DEF Account, Other
<1>6. /\ loginMap' \in [Logins -> {Account, Other, Nobody}]
      /\ granted' \in [Logins -> SUBSET Databases]
  BY <1>2 DEF IInv, TypeOK
<1>7. /\ phase \in {"owner", "fresh", "known", "map", "grant"}
      /\ next \in {"fresh", "known", "map", "grant", "ownergrant"}
      /\ next \in {"map", "grant", "ownergrant"} => phase \in {"known", "map", "grant"}
  BY <1>a
<1>8. /\ loginBy' \in [Logins -> {Account, Other, Nobody}]
      /\ loginPass' \in [Logins -> {"now", "backup"}]
      /\ \A l \in Logins : loginBy'[l] = Other => loginBy[l] = Other
  BY <1>2
<1> QED
  BY <1>a, <1>4, <1>5, <1>6, <1>7, <1>8, ScriptKeeps

\* By now every login of the backup that another account has was taken inside
\* the call.
LEMMA MappedAreOwn ==
    ASSUME IInv, phase = "map"
    PROVE  \A l \in Mapped : loginBy[l] = Other => l \in swappedLogins
<1> QED
  BY DEF IInv, HandsOff, KnownAreOwn, FreshAreOwn, Known, Fresh, UserPhases

LEMMA MapKeeps ==
    ASSUME IInv, mapDatabaseUsers
    PROVE  IInv'
<1>1. PICK S \in SUBSET Mapped :
        /\ loginMap' = [l \in Logins |-> IF l \in S THEN Account ELSE loginMap[l]]
        /\ Script(S, Mapped, "grant")
        /\ UNCHANGED <<loginBy, loginPass, granted>>
  BY DEF mapDatabaseUsers
<1>2. phase = "map"
  BY DEF mapDatabaseUsers
<1>3. \A l \in Mapped : loginBy[l] = Other => l \in swappedLogins
  BY <1>2, MappedAreOwn
<1>4. loginMap' \in [Logins -> {Account, Other, Nobody}]
  BY <1>1 DEF IInv, TypeOK
<1>5. UNCHANGED swappedLogins
  BY <1>1 DEF Script, Continue, swapped
<1>6. RecordsAgree'
  BY <1>1, <1>3, <1>5 DEF IInv, RecordsAgree
<1>7. /\ loginBy' \in [Logins -> {Account, Other, Nobody}]
      /\ loginPass' \in [Logins -> {"now", "backup"}]
      /\ granted' \in [Logins -> SUBSET Databases]
      /\ \A l \in Logins : loginBy'[l] = Other => loginBy[l] = Other
  BY <1>1 DEF IInv, TypeOK
<1> QED
  BY <1>1, <1>2, <1>4, <1>6, <1>7, ScriptKeeps

LEMMA GrantsKeep ==
    ASSUME IInv, grantDatabaseUsers \/ grantOwnerDatabases
    PROVE  IInv'
<1>0. backup.grants \in [Logins -> SUBSET Databases]
  BY RequestsAreTyped DEF IInv
<1>1. ASSUME NEW S, Granted(S)
      PROVE  granted' \in [Logins -> SUBSET Databases] /\ UNCHANGED <<loginBy, loginPass, loginMap>>
  BY <1>0, <1>1 DEF Granted, IInv, TypeOK
<1>2. CASE grantDatabaseUsers
  <2>1. PICK S : Granted(S) /\ Script(S, Mapped, "ownergrant")
    BY <1>2 DEF grantDatabaseUsers
  <2>2. phase = "grant"
    BY <1>2 DEF grantDatabaseUsers
  <2>3. granted' \in [Logins -> SUBSET Databases] /\ UNCHANGED <<loginBy, loginPass, loginMap>>
    BY <1>1, <2>1
  <2>4. UNCHANGED swappedLogins
    BY <2>1 DEF Script, Continue, swapped
  <2>5. RecordsAgree'
    BY <2>3, <2>4 DEF IInv, RecordsAgree
  <2>6. /\ loginBy' \in [Logins -> {Account, Other, Nobody}]
        /\ loginPass' \in [Logins -> {"now", "backup"}]
        /\ loginMap' \in [Logins -> {Account, Other, Nobody}]
        /\ \A l \in Logins : loginBy'[l] = Other => loginBy[l] = Other
    BY <2>3 DEF IInv, TypeOK
  <2> QED
    BY <2>1, <2>2, <2>3, <2>5, <2>6, ScriptKeeps
<1>3. CASE grantOwnerDatabases
  <2>1. CASE CallFails("users")
    BY <2>1, CallFailsKeeps
  <2>2. CASE ~ CallFails("users")
    <3>1. /\ Granted(Wanted \cap {OwnLogin}) /\ Continue(After(3))
          /\ UNCHANGED <<dbOwner, dbContent, sandbox>> /\ UNCHANGED progress
      BY <1>3, <2>2 DEF grantOwnerDatabases, db
    <3>2. granted' \in [Logins -> SUBSET Databases] /\ UNCHANGED <<loginBy, loginPass, loginMap>>
      BY <1>1, <3>1
    <3>3. TypeOK' /\ UNCHANGED <<swappedDbs, swappedLogins>>
      BY <3>1, <3>2 DEF IInv, TypeOK, Continue, Proceed, request, progress, swapped
    <3>4. phase' \notin UserPhases
      BY <3>1, AfterIsAPart DEF Continue, Proceed
    <3>5. RecordsAgree' /\ LoadsOwn'
      BY <3>1, <3>2, <3>3 DEF IInv, RecordsAgree, HandsOff, LoadsOwn, progress
    <3>6. KnownAreOwn' /\ FreshAreOwn' /\ GrantsAreOwn'
      BY <3>4 DEF KnownAreOwn, FreshAreOwn, GrantsAreOwn, UserPhases
    <3> QED
      BY <3>3, <3>5, <3>6 DEF IInv, HandsOff
  <2> QED
    BY <2>1, <2>2
<1> QED
  BY <1>2, <1>3

-----------------------------------------------------------------------------
(* A whole account.                                                         *)

LEMMA WholeAccountKeeps ==
    ASSUME IInv, restoreAccount \/ Apply \/ Confirm
    PROVE  IInv'
<1>1. CASE restoreAccount
  <2>1. CASE CallFails("rebuild")
    BY <2>1, CallFailsKeeps
  <2>2. CASE ~ CallFails("rebuild")
    <3>1. TypeOK' /\ phase' \notin UserPhases
      BY <1>1, <2>2 DEF restoreAccount, IInv, TypeOK, db, login, Continue, Proceed, request, swapped, UserPhases
    <3> QED
      BY <1>1, <2>2, <3>1, QuietStep DEF restoreAccount, Continue, Proceed, swapped, db
  <2> QED
    BY <2>1, <2>2
<1>2. CASE Apply
  <2>1. CASE CallFails("apply")
    BY <2>1, CallFailsKeeps
  <2>2. CASE overwrite /\ ~there /\ Continue("confirm")
             /\ UNCHANGED <<db, login, home, cron, replaced, sandbox, progress, wrote, touched>>
    <3>1. TypeOK' /\ phase' \notin UserPhases
      BY <2>2 DEF IInv, TypeOK, db, login, Continue, Proceed, request, swapped, progress, UserPhases
    <3> QED
      BY <2>2, <3>1, QuietStep DEF Continue, Proceed, swapped, db, progress
  <2>3. ASSUME NEW S \in SUBSET {d \in backup.dumps : dbOwner[d] # Other}, NEW all \in BOOLEAN,
               dbOwner' = [d \in Databases |-> IF d \in S THEN Account ELSE dbOwner[d]],
               dbContent' = [d \in Databases |-> IF d \in S THEN "backup" ELSE dbContent[d]],
               IF all THEN phase' = "confirm" /\ UNCHANGED <<report, progress>>
                      ELSE Report("failed", "apply", wrote),
               loginBy' = [loginBy EXCEPT ![OwnLogin] = Account],
               UNCHANGED <<loginPass, loginMap, granted, cron, replaced, sandbox, request, wrote, bounds, swapped>>
        PROVE  IInv'
    <3>1. TypeOK' /\ phase' \notin UserPhases /\ loading' \subseteq loading
      BY <2>3 DEF IInv, TypeOK, Report, request, progress, swapped, UserPhases
    <3>2. RecordsAgree'
      <4>1. \A l \in Logins : loginBy'[l] = Other => loginBy[l] = Other
        BY <2>3 DEF IInv, TypeOK, Account, Other
      <4> QED
        BY <4>1, <2>3 DEF IInv, RecordsAgree, swapped
    <3>3. LoadsOwn'
      BY <2>3, <3>1 DEF IInv, TypeOK, HandsOff, LoadsOwn, Account, Other, swapped
    <3>4. KnownAreOwn' /\ FreshAreOwn' /\ GrantsAreOwn'
      BY <3>1 DEF KnownAreOwn, FreshAreOwn, GrantsAreOwn, UserPhases
    <3> QED
      BY <3>1, <3>2, <3>3, <3>4 DEF IInv, HandsOff
  <2> QED
    BY <1>2, <2>1, <2>2, <2>3 DEF Apply
<1>3. CASE Confirm
  <2>1. CASE CallFails("not there")
    BY <2>1, CallFailsKeeps
  <2>2. CASE ~ CallFails("not there")
    <3>1. Report("success", "done", {"all"}) /\ UNCHANGED <<dbOwner, dbContent, login, request, sandbox, swapped>>
      BY <1>3, <2>2 DEF Confirm, db
    <3>2. dbContent' \in [Databases -> {"live", "backup", "torn", "empty"}] /\ sandbox' \subseteq Databases
      BY <3>1 DEF IInv, TypeOK
    <3> QED
      BY <3>1, <3>2, ReportKeeps
  <2> QED
    BY <2>1, <2>2
<1> QED
  BY <1>1, <1>2, <1>3
-----------------------------------------------------------------------------
(* Everybody else.                                                          *)

\* A database changes hands at any moment: what is taken inside a call that has
\* looked at it is marked.
LEMMA DatabasesChangeHands ==
    ASSUME IInv, NEW d \in Databases, CustomerDropsDatabase(d) \/ OtherTakesDatabase(d)
    PROVE  IInv'
<1>1. UNCHANGED <<login, sandbox, phase, request, progress, swappedLogins>>
  BY DEF CustomerDropsDatabase, OtherTakesDatabase, Outside, swapped
<1>2. TypeOK'
  BY <1>1 DEF CustomerDropsDatabase, OtherTakesDatabase, IInv, TypeOK, login, request, progress, swapped
<1>3. RecordsAgree'
  BY <1>1 DEF IInv, RecordsAgree, login
<1>4. /\ swappedDbs \subseteq swappedDbs'
      /\ \A o \in Databases :
           dbOwner'[o] = Other => \/ dbOwner[o] = Other
                                  \/ loading = {} \/ o \notin loading \/ o \in swappedDbs'
      /\ \A o \in Databases :
           dbOwner'[o] = Other /\ phase \in UserPhases => dbOwner[o] = Other \/ o \in swappedDbs'
  <2>1. CASE CustomerDropsDatabase(d)
    BY <2>1 DEF CustomerDropsDatabase, IInv, TypeOK, Other, Nobody, swapped
  <2>2. CASE OtherTakesDatabase(d)
    <3>1. swappedDbs' = IF d \in loading \/ phase \in UserPhases THEN swappedDbs \cup {d} ELSE swappedDbs
      BY <2>2 DEF OtherTakesDatabase
    <3>2. \A o \in Databases : o # d => dbOwner'[o] = dbOwner[o]
      BY <2>2 DEF OtherTakesDatabase, IInv, TypeOK
    <3> HIDE DEF UserPhases
    <3> QED
      BY <3>1, <3>2
  <2> QED
    BY <2>1, <2>2
<1>5. LoadsOwn'
  <2>1. loading \subseteq Databases /\ loading' = loading
    BY <1>1 DEF IInv, TypeOK, progress
  <2> QED
    BY <1>4, <2>1 DEF IInv, HandsOff, LoadsOwn
<1>6. KnownAreOwn' /\ FreshAreOwn'
  BY <1>1 DEF IInv, HandsOff, KnownAreOwn, FreshAreOwn, Known, Fresh, Mapped, Wanted,
              login, request, progress
<1>7. GrantsAreOwn'
  <2>1. backup.grants \in [Logins -> SUBSET Databases] /\ Wanted \subseteq Logins
    BY RequestsAreTyped DEF IInv
  <2>2. backup' = backup /\ Wanted' = Wanted /\ phase' = phase
    BY <1>1 DEF Wanted, request
  <2>3. SUFFICES ASSUME phase \in UserPhases, NEW u \in Wanted, NEW o \in backup.grants[u],
                        dbOwner'[o] = Other
                 PROVE  o \in swappedDbs'
    BY <2>2 DEF GrantsAreOwn
  <2>4. o \in Databases
    BY <2>1
  <2>5. dbOwner[o] = Other \/ o \in swappedDbs'
    BY <1>4, <2>3, <2>4
  <2>6. dbOwner[o] = Other => o \in swappedDbs
    BY <2>3 DEF IInv, HandsOff, GrantsAreOwn
  <2> QED
    BY <1>4, <2>5, <2>6
<1> QED
  BY <1>2, <1>3, <1>5, <1>6, <1>7 DEF IInv, HandsOff

\* A login changes hands at any moment, and is marked alike.
LEMMA LoginsChangeHands ==
    ASSUME IInv, NEW l \in Logins, CustomerDropsLogin(l) \/ OtherTakesLogin(l)
    PROVE  IInv'
<1>1. UNCHANGED <<dbOwner, dbContent, sandbox, phase, request, progress, swappedDbs>>
  BY DEF CustomerDropsLogin, OtherTakesLogin, Outside, db, swapped
<1>2. /\ loginBy' \in [Logins -> {Account, Other, Nobody}]
      /\ loginPass' \in [Logins -> {"now", "backup"}]
      /\ loginMap' \in [Logins -> {Account, Other, Nobody}]
      /\ granted' \in [Logins -> SUBSET Databases]
      /\ swappedLogins' \subseteq Logins
  BY DEF CustomerDropsLogin, OtherTakesLogin, IInv, TypeOK, swapped
<1>3. TypeOK'
  BY <1>1, <1>2 DEF IInv, TypeOK, request, progress
<1>4. \A o \in Logins : o # l => /\ loginBy'[o] = loginBy[o] /\ loginMap'[o] = loginMap[o]
                                 /\ o \in swappedLogins' <=> o \in swappedLogins
  BY DEF CustomerDropsLogin, OtherTakesLogin, IInv, TypeOK, swapped
<1>5. loginBy'[l] = Other => loginMap'[l] = Other /\ (UsedByName(l) => l \in swappedLogins')
  BY DEF CustomerDropsLogin, OtherTakesLogin, IInv, TypeOK, Other, Nobody
<1>6. RecordsAgree'
  BY <1>4, <1>5 DEF IInv, RecordsAgree, Account, Other
<1>7. LoadsOwn' /\ GrantsAreOwn'
  BY <1>1 DEF IInv, HandsOff, LoadsOwn, GrantsAreOwn, Wanted, request, progress
<1>8. phase' = phase /\ Wanted' = Wanted /\ existing' = existing /\ Wanted \subseteq Logins
  BY <1>1, RequestsAreTyped DEF IInv, Wanted, request, progress
<1>9. KnownAreOwn'
  <2>1. SUFFICES ASSUME phase \in UserPhases, NEW o \in Known, loginBy'[o] = Other
                 PROVE  o \in swappedLogins'
    BY <1>8 DEF KnownAreOwn, Known, Mapped
  <2>2. o \in Logins /\ o \in existing
    BY <1>8 DEF Known, Mapped
  <2>3. CASE o = l
    BY <1>5, <2>1, <2>2, <2>3 DEF UsedByName
  <2>4. CASE o # l
    BY <1>4, <2>1, <2>2, <2>4 DEF IInv, HandsOff, KnownAreOwn
  <2> QED
    BY <2>3, <2>4
<1>10. FreshAreOwn'
  <2>1. SUFFICES ASSUME phase \in {"known", "map", "grant", "ownergrant"}, NEW o \in Fresh,
                        loginBy'[o] = Other
                 PROVE  o \in swappedLogins'
    BY <1>8 DEF FreshAreOwn, Fresh, Mapped
  <2>2. o \in Logins
    BY <1>8 DEF Fresh, Mapped
  <2>3. CASE o = l
    BY <1>5, <2>1, <2>2, <2>3 DEF UsedByName, UserPhases
  <2>4. CASE o # l
    BY <1>4, <2>1, <2>2, <2>4 DEF IInv, HandsOff, FreshAreOwn
  <2> QED
    BY <2>3, <2>4
<1> QED
  BY <1>3, <1>6, <1>7, <1>9, <1>10 DEF IInv, HandsOff

\* A termination gives names up and takes none.
LEMMA EndsKeep ==
    ASSUME IInv, Terminate \/ AgentDies
    PROVE  IInv'
<1>1. CASE Terminate
  <2>1. UNCHANGED <<dbContent, loginPass, granted, sandbox, phase, request, progress, swappedDbs, swappedLogins>>
    BY <1>1 DEF Terminate, Outside, swapped
  <2>2. TypeOK'
    BY <1>1, <2>1 DEF Terminate, IInv, TypeOK, request, progress
  <2>3. /\ \A d \in Databases : dbOwner'[d] = Other => dbOwner[d] = Other
        /\ \A l \in Logins : loginBy'[l] = Other => loginBy[l] = Other
        /\ \A l \in Logins : loginMap'[l] = Account => loginMap[l] = Account
    BY <1>1 DEF Terminate, IInv, TypeOK, Account, Other, Nobody
  <2>4. RecordsAgree'
    BY <2>1, <2>3 DEF IInv, RecordsAgree
  <2>5. LoadsOwn'
    BY <2>1, <2>3 DEF IInv, TypeOK, HandsOff, LoadsOwn, progress
  <2>6. /\ phase' = phase /\ Wanted' = Wanted /\ existing' = existing /\ backup' = backup
        /\ Wanted \subseteq Logins /\ backup.grants \in [Logins -> SUBSET Databases]
    BY <2>1, RequestsAreTyped DEF IInv, Wanted, request, progress
  <2>7. KnownAreOwn' /\ FreshAreOwn'
    BY <2>1, <2>3, <2>6 DEF IInv, HandsOff, KnownAreOwn, FreshAreOwn, Known, Fresh, Mapped
  <2>8. GrantsAreOwn'
    <3>1. SUFFICES ASSUME phase \in UserPhases, NEW u \in Wanted, NEW o \in backup.grants[u],
                          dbOwner'[o] = Other
                   PROVE  o \in swappedDbs
      BY <2>1, <2>6 DEF GrantsAreOwn
    <3>2. dbOwner[o] = Other
      BY <2>3, <2>6, <3>1
    <3> QED
      BY <3>1, <3>2 DEF IInv, HandsOff, GrantsAreOwn
  <2> QED
    BY <2>2, <2>4, <2>5, <2>7, <2>8 DEF IInv, HandsOff
<1>2. CASE AgentDies
  <2>1. Report("failed", "died", {}) /\ UNCHANGED <<dbOwner, dbContent, login, request, sandbox, swapped>>
    BY <1>2 DEF AgentDies, db
  <2>2. dbContent' \in [Databases -> {"live", "backup", "torn", "empty"}] /\ sandbox' \subseteq Databases
    BY <2>1 DEF IInv, TypeOK
  <2> QED
    BY <2>1, <2>2, ReportKeeps
<1> QED
  BY <1>1, <1>2

-----------------------------------------------------------------------------
\* While a dump goes in only its own end, a death and other people's steps on
\* other names are possible; at any other time nothing is going in.
LEMMA LoadBeginsAndEnds ==
    ASSUME LoadsOne, [Next]_vars
    PROVE  \/ loading' = loading /\ (loading # {} => phase' = phase)
           \/ LoadDatabase /\ \E d : loading' = {d} /\ phase' = "loading"
           \/ loading # {} /\ loading' = {} /\ (loadIsolatedDatabase \/ AgentDies)
           \/ loading = {} /\ loading' = {}
<1>1. CASE phase = "loading"
  <2>1. CASE loadIsolatedDatabase
    BY <2>1 DEF loadIsolatedDatabase, Report
  <2>2. CASE AgentDies
    BY <2>2 DEF AgentDies, Report
  <2>3. CASE \/ \E d \in Databases : CustomerDropsDatabase(d) \/ OtherTakesDatabase(d)
             \/ \E l \in Logins : CustomerDropsLogin(l) \/ OtherTakesLogin(l)
             \/ Terminate \/ UNCHANGED vars
    BY <2>3 DEF CustomerDropsDatabase, OtherTakesDatabase, CustomerDropsLogin, OtherTakesLogin,
                Terminate, Outside, progress, vars
  <2>4. /\ ~(\E w \in BOOLEAN : Start(w)) /\ ~StageItems /\ ~applyItems /\ ~CreateDatabase
        /\ ~LoadDatabase /\ ~PutDatabaseUsers
    BY <1>1 DEF Start, StageItems, applyItems, CreateDatabase, LoadDatabase, PutDatabaseUsers
  <2>5. ~writeOwner /\ ~writeDatabaseUsers /\ ~writeKnown /\ ~mapDatabaseUsers /\ ~grantDatabaseUsers
    BY <1>1 DEF writeOwner, writeDatabaseUsers, writeKnown, mapDatabaseUsers, grantDatabaseUsers
  <2>6. /\ ~grantOwnerDatabases /\ ~PutHomeDir /\ ~PutCrontab /\ ~Finish
        /\ ~restoreAccount /\ ~Apply /\ ~Confirm
    BY <1>1 DEF grantOwnerDatabases, PutHomeDir, PutCrontab, Finish, restoreAccount, Apply, Confirm
  <2>. QED
    BY <2>1, <2>2, <2>3, <2>4, <2>5, <2>6 DEF Next
<1>2. CASE phase # "loading"
  <2>1. loading = {}
    BY <1>2 DEF LoadsOne
  <2>2. CASE LoadDatabase
    BY <2>1, <2>2 DEF LoadDatabase, CallFails, partly, Report, Continue, Proceed, progress
  <2>3. CASE (\E w \in BOOLEAN : Start(w)) \/ StageItems \/ applyItems \/ CreateDatabase \/ PutDatabaseUsers
    BY <2>1, <2>3 DEF Start, StageItems, applyItems, CreateDatabase, PutDatabaseUsers, CallFails, partly,
                      Report, progress
  <2>4. CASE writeOwner \/ writeDatabaseUsers \/ writeKnown \/ mapDatabaseUsers \/ grantDatabaseUsers
    BY <2>1, <2>4 DEF writeOwner, writeDatabaseUsers, writeKnown, mapDatabaseUsers, grantDatabaseUsers,
                      Script, Report, progress
  <2>5. CASE grantOwnerDatabases \/ PutHomeDir \/ PutCrontab \/ Finish
    BY <2>1, <2>5 DEF grantOwnerDatabases, PutHomeDir, PutCrontab, Finish, CallFails, partly, Report, progress
  <2>6. CASE restoreAccount \/ Apply \/ Confirm
    BY <2>1, <2>6 DEF restoreAccount, Apply, Confirm, CallFails, partly, Report, progress
  <2>7. CASE \/ \E d \in Databases : CustomerDropsDatabase(d) \/ OtherTakesDatabase(d)
             \/ \E l \in Logins : CustomerDropsLogin(l) \/ OtherTakesLogin(l)
             \/ Terminate \/ AgentDies \/ UNCHANGED vars
    BY <2>1, <2>7 DEF CustomerDropsDatabase, OtherTakesDatabase, CustomerDropsLogin, OtherTakesLogin,
                      Terminate, Outside, AgentDies, Report, progress, vars
  <2>8. ~loadIsolatedDatabase
    BY <1>2 DEF loadIsolatedDatabase
  <2>. QED
    BY <2>2, <2>3, <2>4, <2>5, <2>6, <2>7, <2>8 DEF Next
<1>. QED
  BY <1>1, <1>2

LEMMA LoadsOneAlways == Spec => []LoadsOne
<1>1. Init => LoadsOne
  BY DEF Init, LoadsOne
<1>2. LoadsOne /\ [Next]_vars => LoadsOne'
  BY LoadBeginsAndEnds DEF LoadsOne
<1>. QED
  BY <1>1, <1>2, PTL DEF Spec

LEMMA StepKeeps == IInv /\ LoadsOne /\ [Next]_vars => IInv'
<1> SUFFICES ASSUME IInv, LoadsOne, [Next]_vars PROVE IInv'
  OBVIOUS
<1>1. CASE UNCHANGED vars
  BY <1>1 DEF vars, db, login, request, progress, swapped, IInv, TypeOK, RecordsAgree, HandsOff,
              LoadsOwn, KnownAreOwn, FreshAreOwn, GrantsAreOwn, Known, Fresh, Mapped, Wanted
<1>2. CASE Next
  BY <1>2, StartKeeps, PartsKeep, CreateDatabaseKeeps, loadIsolatedDatabaseKeeps,
     PutDatabaseUsersKeeps, WritesKeep, MapKeeps, GrantsKeep, WholeAccountKeeps,
     DatabasesChangeHands, LoginsChangeHands, EndsKeep DEF Next
<1> QED
  BY <1>1, <1>2

\* What a call holds in hand between its statements was the account's own when
\* it looked, and is still nobody else's unless it changed hands since.
THEOREM Invariance == Spec => []IInv
<1> QED
  BY InitiallyHandsOff, StepKeeps, LoadsOneAlways, PTL DEF Spec

\* What is in a database is changed by its holder, or by a restore it belongs to
\* or belonged to when the restore looked.
LEMMA ContentsAreKept ==
    ASSUME IInv, [Next]_vars, NEW d \in Databases \ swappedDbs, dbOwner[d] = Other
    PROVE  dbContent'[d] = dbContent[d]
<1>1. CASE UNCHANGED dbContent
  BY <1>1
<1>2. CASE CreateDatabase \/ \E o \in Databases : OtherTakesDatabase(o)
  <2>1. UNCHANGED dbContent \/ \E o : dbOwner[o] = Nobody /\ \E c : dbContent' = [dbContent EXCEPT ![o] = c]
    BY <1>2 DEF CreateDatabase, OtherTakesDatabase, CallFails, db
  <2> QED
    BY <2>1 DEF IInv, TypeOK, Other, Nobody
<1>3. CASE loadIsolatedDatabase
  <2>1. PICK o \in loading, got \in {"nothing", "torn", "backup"} :
           dbContent' = IF got = "nothing" THEN dbContent ELSE [dbContent EXCEPT ![o] = got]
    BY <1>3 DEF loadIsolatedDatabase
  <2>2. o # d
    BY DEF IInv, HandsOff, LoadsOwn
  <2> QED
    BY <2>1, <2>2 DEF IInv, TypeOK
<1>4. CASE Apply
  <2>1. UNCHANGED dbContent \/ \E S \in SUBSET {o \in backup.dumps : dbOwner[o] # Other} :
           dbContent' = [o \in Databases |-> IF o \in S THEN "backup" ELSE dbContent[o]]
    BY <1>4 DEF Apply, CallFails, db
  <2> QED
    BY <2>1
<1>5. CASE ~UNCHANGED dbContent
  <2>1. CASE (\E w \in BOOLEAN : Start(w)) \/ StageItems \/ applyItems \/ LoadDatabase \/ PutDatabaseUsers
    BY <1>5, <2>1 DEF Start, StageItems, applyItems, LoadDatabase, PutDatabaseUsers, CallFails, db
  <2>2. CASE writeOwner \/ writeDatabaseUsers \/ writeKnown \/ mapDatabaseUsers \/ grantDatabaseUsers
    BY <1>5, <2>2 DEF writeOwner, writeDatabaseUsers, writeKnown, mapDatabaseUsers, grantDatabaseUsers,
                      Script, db
  <2>3. CASE grantOwnerDatabases \/ PutHomeDir \/ PutCrontab \/ Finish \/ restoreAccount \/ Confirm
    BY <1>5, <2>3 DEF grantOwnerDatabases, PutHomeDir, PutCrontab, Finish, restoreAccount, Confirm,
                      CallFails, db
  <2>4. CASE \/ \E o \in Databases : CustomerDropsDatabase(o)
             \/ \E l \in Logins : CustomerDropsLogin(l) \/ OtherTakesLogin(l)
             \/ Terminate \/ AgentDies \/ UNCHANGED vars
    BY <1>5, <2>4 DEF CustomerDropsDatabase, CustomerDropsLogin, OtherTakesLogin, Terminate, AgentDies,
                      vars, db
  <2> QED
    BY <1>2, <1>3, <1>4, <2>1, <2>2, <2>3, <2>4 DEF Next
<1> QED
  BY <1>1, <1>5

\* A login's password and the account it is recorded as are changed by whoever
\* has it, or by a restore of an account that had it when the restore looked.
LEMMA LoginsAreKept ==
    ASSUME IInv, [Next]_vars, NEW l \in Logins \ swappedLogins, loginBy[l] = Other
    PROVE  loginPass'[l] = loginPass[l] /\ loginMap'[l] = loginMap[l]
<1>1. CASE writeOwner \/ writeDatabaseUsers \/ writeKnown
  <2>1. PICK S \in SUBSET Logins, P \in SUBSET Logins :
           Written(S, P) /\ \A o \in P : loginBy[o] = Other => o \in swappedLogins
    BY <1>1, ScriptsWrite
  <2> QED
    BY <2>1, WrittenIs DEF IInv
<1>2. CASE mapDatabaseUsers
  <2>1. PICK S \in SUBSET Mapped :
           /\ loginMap' = [o \in Logins |-> IF o \in S THEN Account ELSE loginMap[o]]
           /\ loginPass' = loginPass
    BY <1>2 DEF mapDatabaseUsers
  <2>2. l \notin S
    BY <1>2, <2>1, MappedAreOwn DEF mapDatabaseUsers
  <2> QED
    BY <2>1, <2>2
<1>3. CASE \E o \in Logins : CustomerDropsLogin(o) \/ OtherTakesLogin(o)
  BY <1>3 DEF CustomerDropsLogin, OtherTakesLogin, IInv, TypeOK, Account, Other, Nobody
<1>4. CASE Terminate
  <2>1. loginMap[l] # Account
    BY DEF IInv, RecordsAgree
  <2> QED
    BY <1>4, <2>1 DEF Terminate
<1>5. CASE (\E w \in BOOLEAN : Start(w)) \/ StageItems \/ applyItems \/ CreateDatabase
             \/ LoadDatabase \/ loadIsolatedDatabase \/ PutDatabaseUsers
  BY <1>5 DEF Start, StageItems, applyItems, CreateDatabase, LoadDatabase, loadIsolatedDatabase,
              PutDatabaseUsers, CallFails, login
<1>6. CASE grantDatabaseUsers \/ grantOwnerDatabases
  BY <1>6 DEF grantDatabaseUsers, grantOwnerDatabases, Granted, CallFails, login
<1>7. CASE PutHomeDir \/ PutCrontab \/ Finish \/ restoreAccount \/ Apply \/ Confirm
  BY <1>7 DEF PutHomeDir, PutCrontab, Finish, restoreAccount, Apply, Confirm, CallFails, login
<1>8. CASE (\E d \in Databases : CustomerDropsDatabase(d) \/ OtherTakesDatabase(d)) \/ AgentDies \/ UNCHANGED vars
  BY <1>8 DEF CustomerDropsDatabase, OtherTakesDatabase, AgentDies, vars, login
<1> QED
  BY <1>1, <1>2, <1>3, <1>4, <1>5, <1>6, <1>7, <1>8 DEF Next

\* A restore loads nothing into another account's database, and neither sets the
\* password of another's login nor claims it, unless the name was this account's
\* when the call looked and changed hands before it was used.
THEOREM NothingOfOthers == Spec => OthersUntouched
<1>1. IInv /\ [Next]_vars =>
        [/\ \A d \in Databases \ swappedDbs : dbOwner[d] = Other => dbContent'[d] = dbContent[d]
         /\ \A l \in Logins \ swappedLogins :
              loginBy[l] = Other => loginPass'[l] = loginPass[l] /\ loginMap'[l] = loginMap[l]]_vars
  BY ContentsAreKept, LoginsAreKept
<1> QED
  BY <1>1, Invariance, PTL DEF Spec, OthersUntouched

\* Logins are granted access in two steps only, and each grants what the
\* account has: cPanel refuses the rest, and the owner's was looked up before.
LEMMA OnlyGrantsGrant ==
    ASSUME IInv, [Next]_vars, ~ grantDatabaseUsers, ~ grantOwnerDatabases
    PROVE  \A l \in Logins : granted'[l] \subseteq granted[l]
<1>1. CASE UNCHANGED granted
  BY <1>1
<1>2. CASE \E l \in Logins : granted' = [granted EXCEPT ![l] = {}]
  BY <1>2 DEF IInv, TypeOK
<1>3. UNCHANGED granted \/ \E l \in Logins : granted' = [granted EXCEPT ![l] = {}]
  <2>1. CASE \E w \in BOOLEAN : Start(w)
    BY <2>1 DEF Start, login
  <2>2. CASE StageItems \/ applyItems \/ CreateDatabase \/ LoadDatabase \/ loadIsolatedDatabase \/ PutDatabaseUsers
    BY <2>2 DEF StageItems, applyItems, CreateDatabase, LoadDatabase, loadIsolatedDatabase,
                PutDatabaseUsers, CallFails, login
  <2>3. CASE writeOwner \/ writeDatabaseUsers \/ writeKnown \/ mapDatabaseUsers
    BY <2>3 DEF writeOwner, writeDatabaseUsers, writeKnown, mapDatabaseUsers, Written
  <2>4. CASE PutHomeDir \/ PutCrontab \/ Finish
    BY <2>4 DEF PutHomeDir, PutCrontab, Finish, CallFails, login
  <2>5. CASE restoreAccount \/ Apply \/ Confirm
    BY <2>5 DEF restoreAccount, Apply, Confirm, CallFails, login
  <2>6. CASE \/ \E d \in Databases : CustomerDropsDatabase(d) \/ OtherTakesDatabase(d)
             \/ \E l \in Logins : CustomerDropsLogin(l) \/ OtherTakesLogin(l)
             \/ Terminate \/ AgentDies
    BY <2>6 DEF CustomerDropsDatabase, OtherTakesDatabase, CustomerDropsLogin, OtherTakesLogin,
                Terminate, AgentDies, login
  <2>7. CASE UNCHANGED vars
    BY <2>7 DEF vars, login
  <2> QED
    BY <2>1, <2>2, <2>3, <2>4, <2>5, <2>6, <2>7 DEF Next
<1> QED
  BY <1>1, <1>2, <1>3

\* No restore gives a login access to a database another account has, however
\* long ago the backup was taken and whatever it says the login could open,
\* unless the database changed hands inside the call that grants.
THEOREM GrantsStayHome == Spec => GrantsAreConfined
<1>1. IInv /\ [Next]_vars =>
        [\A l \in Logins : \A d \in granted'[l] \ granted[l] : dbOwner[d] # Other \/ d \in swappedDbs]_vars
  <2> SUFFICES ASSUME IInv, [Next]_vars, NEW l \in Logins, NEW d \in granted'[l] \ granted[l]
               PROVE  dbOwner[d] # Other \/ d \in swappedDbs
    OBVIOUS
  <2>1. ASSUME NEW S, Granted(S)
        PROVE  l \in S /\ d \in backup.grants[l]
    BY <2>1 DEF Granted
  <2>2. CASE grantDatabaseUsers
    <3>1. PICK S \in SUBSET {u \in Mapped : backup.grants[u] \subseteq AccountDatabases} : Granted(S)
      BY <2>2 DEF grantDatabaseUsers, Grantable
    <3>2. d \in AccountDatabases
      BY <2>1, <3>1
    <3> QED
      BY <3>2 DEF AccountDatabases, Account, Other
  <2>3. CASE grantOwnerDatabases
    <3>1. CASE Granted(Wanted \cap {OwnLogin})
      <4>1. phase \in UserPhases
        BY <2>3 DEF grantOwnerDatabases, UserPhases
      <4> QED
        BY <2>1, <3>1, <4>1 DEF IInv, HandsOff, GrantsAreOwn
    <3>2. CASE CallFails("users")
      BY <3>2 DEF CallFails, login
    <3> QED
      BY <2>3, <3>1, <3>2 DEF grantOwnerDatabases
  <2> QED
    BY <2>2, <2>3, OnlyGrantsGrant
<1> QED
  BY <1>1, Invariance, PTL DEF Spec, GrantsAreConfined

\* A disposable login outlives its load only if dropping it failed, which the
\* report says, or if the agent died, whose deferred work never runs.
THEOREM SandboxesGo == Spec => SandboxIsGone
<1>1. LoadsOne /\ [Next]_vars =>
        [loading # {} /\ loading' = {} =>
            sandbox' \cap loading = {} \/ report'.why \in {"login left", "died"}]_vars
  <2>. SUFFICES ASSUME LoadsOne, [Next]_vars, loading # {}, loading' = {}
                PROVE  sandbox' \cap loading = {} \/ report'.why \in {"login left", "died"}
    OBVIOUS
  <2>1. loadIsolatedDatabase \/ AgentDies
    BY LoadBeginsAndEnds
  <2>2. CASE AgentDies
    BY <2>2 DEF AgentDies, Report
  <2>3. CASE loadIsolatedDatabase
    <3>1. PICK d \in loading, got \in {"nothing", "torn", "backup"}, dropped \in BOOLEAN :
             /\ sandbox' = LoginAfter(d, got, dropped)
             /\ ~(got = "backup" /\ dropped) =>
                   Report("failed", IF dropped THEN "load" ELSE "login left", wrote)
      BY <2>3 DEF loadIsolatedDatabase
    <3>2. loading = {d}
      BY <3>1 DEF LoadsOne
    <3>3. CASE dropped
      BY <3>1, <3>2, <3>3 DEF LoginAfter
    <3>4. CASE ~dropped
      <4>1. Report("failed", "login left", wrote)
        BY <3>1, <3>4
      <4>. QED
        BY <4>1 DEF Report
    <3>. QED
      BY <3>3, <3>4
  <2>. QED
    BY <2>1, <2>2, <2>3
<1>. QED
  BY <1>1, LoadsOneAlways, PTL DEF Spec, SandboxIsGone

-----------------------------------------------------------------------------
(* Removing an account and forgetting it.                                   *)

Jobs == [policy: Policies \cup {0}, repos: SUBSET Repos, complete: BOOLEAN, holder: Nat, listed: BOOLEAN]
Successes == [policy: Policies \cup {0}, at: Nat, repos: SUBSET Repos, complete: BOOLEAN, holder: Nat]
Copies == [repo: Repos, at: Nat, whole: BOOLEAN, holder: Nat]

RemovalTypes ==
    /\ clock \in Nat /\ policy \in [Policies -> Schedules] /\ holder \in Nat \ {0}
    /\ running \in Jobs /\ history \subseteq Successes /\ copies \subseteq Copies
    /\ forget \in [on: BOOLEAN, todo: SUBSET Repos]
    /\ \A j \in history : j.at <= clock
    /\ \A c \in copies : c.at <= clock

(* While a holder has the name, what a job of theirs that took the whole    *)
(* account says it wrote is there, or something newer is; nothing is        *)
(* forgotten beside it, unless a backup of theirs ran meanwhile.            *)
HoldsWhole(c, r) == c.repo = r /\ c.whole /\ c.holder = holder

HolderKeeps ==
    /\ identity = "retired" => ~present
    /\ running.holder <= holder /\ \A j \in history : j.holder <= holder
    /\ present /\ ~overlap =>
         /\ forget.on => \A j \in history : j.holder = holder => j.repos = {}
         /\ \A j \in history : j.complete /\ j.holder = holder =>
               \A r \in j.repos : \E c \in copies : HoldsWhole(c, r) /\ c.at >= j.at

(* What has been forgotten so far stays forgotten.                          *)
ForgottenSoFar ==
    /\ forget.on /\ ~overlap => running.repos = {} /\ \A c \in copies : c.repo \in forget.todo
    /\ identity = "none" /\ ~overlap => running.repos = {} /\ copies = {}

RemovalInv == RemovalTypes /\ HolderKeeps /\ ForgottenSoFar

-----------------------------------------------------------------------------
LEMMA NoJobIs == NoJob \in Jobs /\ NoJob.repos = {} /\ NoJob.listed = FALSE /\ NoJob.holder = 0
BY DEF NoJob, Jobs

LEMMA NotForgettingIs == NotForgetting \in [on: BOOLEAN, todo: SUBSET Repos] /\ ~NotForgetting.on
BY DEF NotForgetting

(* The strictest schedule has a window.                                     *)
LEMMA DueIsOne ==
    ASSUME policy \in [Policies -> Schedules], NEW r \in Promised
    PROVE  Due(r) \in Nat
<1>. DEFINE dues == {policyFreshness(p) : p \in {q \in FullPolicies : r \in policy[q].repos}}
<1>1. \A p \in FullPolicies : policyFreshness(p) \in Nat
  BY DEF FullPolicies, policyFreshness, Schedules
<1>2. dues \subseteq Nat /\ dues # {}
  BY <1>1 DEF Promised
<1>. HIDE DEF dues
<1>. DEFINE less == OpToRel(<, Nat)
<1>3. IsWellFoundedOn(less, Nat) /\ \A d, e \in Nat : <<e, d>> \notin less => d <= e
  <2>1. \A d, e \in Nat : <<e, d>> \in {ss \in Nat \X Nat : ss[1] < ss[2]} <=> e < d
    OBVIOUS
  <2>2. less = {ss \in Nat \X Nat : ss[1] < ss[2]}
    BY Zenon DEF OpToRel
  <2>3. \A d, e \in Nat : <<e, d>> \notin less => d <= e
    <3>. HIDE DEF less
    <3>. QED  BY <2>1, <2>2
  <2>. QED  BY NatLessThanWellFounded, <2>3
<1>. HIDE DEF less
<1>4. PICK d \in dues : \A e \in dues : d <= e
  <2>1. \E d \in dues : \A e \in dues : <<e, d>> \notin less
    BY <1>2, <1>3, WFMin
  <2>. QED  BY <2>1, <1>2, <1>3
<1>5. (CHOOSE x \in dues : \A e \in dues : x <= e) \in dues
  BY <1>4
<1>6. Due(r) = CHOOSE x \in dues : \A e \in dues : x <= e
  BY DEF Due, dues
<1>. QED  BY <1>2, <1>5, <1>6

(* What a run leaves at the destinations.                                   *)
LEMMA CopiedIs ==
    ASSUME RemovalTypes, NEW written \in SUBSET running.repos, NEW entire \in SUBSET written
    PROVE  /\ Copied(written, entire) \subseteq Copies
           /\ \A c \in Copied(written, entire) : c.at <= clock
           /\ \A c \in Copied(written, entire) : c \in copies \/ c.repo \in running.repos
           /\ \A c \in copies : c.whole =>
                 \E d \in Copied(written, entire) :
                    d.repo = c.repo /\ d.whole /\ d.holder = c.holder /\ d.at >= c.at
           /\ running.complete => \A r \in entire :
                 \E d \in Copied(written, entire) :
                    d.repo = r /\ d.whole /\ d.holder = running.holder /\ d.at = clock
           /\ running.repos = {} => Copied(written, entire) = copies
<1>. DEFINE copy(r) == [repo |-> r, at |-> IF running.complete /\ r \in entire THEN clock ELSE 0,
                        whole |-> running.complete /\ r \in entire, holder |-> running.holder]
            made == {copy(r) : r \in written}
            kept == {c \in copies : \A m \in made : <<m.repo, m.whole, m.holder>> # <<c.repo, c.whole, c.holder>>}
<1>1. Copied(written, entire) = made \cup kept
  BY DEF Copied
<1>2. ASSUME NEW r \in written
      PROVE  /\ copy(r) \in Copies /\ copy(r).at <= clock /\ copy(r).repo = r /\ copy(r).holder = running.holder
             /\ copy(r).whole <=> running.complete /\ r \in entire
             /\ copy(r).whole => copy(r).at = clock
  <2>1. r \in Repos /\ clock \in Nat /\ running.holder \in Nat /\ running.complete \in BOOLEAN
    BY DEF RemovalTypes, Jobs
  <2>2. CASE running.complete /\ r \in entire
    <3>1. copy(r) = [repo |-> r, at |-> clock, whole |-> TRUE, holder |-> running.holder]
      BY <2>1, <2>2
    <3>. HIDE DEF copy
    <3>2. /\ copy(r) \in Copies /\ copy(r).at = clock /\ copy(r).repo = r /\ copy(r).holder = running.holder
          /\ copy(r).whole
      BY <2>1, <3>1 DEF Copies
    <3>. QED  BY <2>1, <2>2, <3>2
  <2>3. CASE ~(running.complete /\ r \in entire)
    <3>1. copy(r) = [repo |-> r, at |-> 0, whole |-> FALSE, holder |-> running.holder]
      BY <2>1, <2>3
    <3>. HIDE DEF copy
    <3>2. /\ copy(r) \in Copies /\ copy(r).at = 0 /\ copy(r).repo = r /\ copy(r).holder = running.holder
          /\ ~copy(r).whole
      BY <2>1, <3>1 DEF Copies
    <3>. QED  BY <2>1, <2>3, <3>2
  <2>. QED  BY <2>2, <2>3
<1>. HIDE DEF copy
<1>3. made \subseteq Copies /\ \A m \in made : m.at <= clock /\ m.repo \in running.repos /\ (m.whole => m.at = clock)
  BY <1>2
<1>4. \A c \in copies : c.whole =>
         \E d \in made \cup kept : d.repo = c.repo /\ d.whole /\ d.holder = c.holder /\ d.at >= c.at
  <2>. SUFFICES ASSUME NEW c \in copies, c.whole
                PROVE  \E d \in made \cup kept : d.repo = c.repo /\ d.whole /\ d.holder = c.holder /\ d.at >= c.at
    OBVIOUS
  <2>1. c.at \in Nat /\ c.at <= clock /\ clock \in Nat
    BY DEF RemovalTypes, Copies
  <2>2. CASE c \in kept
    BY <2>1, <2>2
  <2>3. ASSUME NEW m \in made, m.repo = c.repo, m.whole = c.whole, m.holder = c.holder
        PROVE  \E d \in made \cup kept : d.repo = c.repo /\ d.whole /\ d.holder = c.holder /\ d.at >= c.at
    BY <2>1, <2>3, <1>3
  <2>. QED  BY <2>2, <2>3
<1>5. running.complete => \A r \in entire :
         \E d \in made : d.repo = r /\ d.whole /\ d.holder = running.holder /\ d.at = clock
  BY <1>2
<1>6. kept \subseteq copies /\ (running.repos = {} => made = {} /\ kept = copies)
  OBVIOUS
<1>. HIDE DEF made, kept
<1>. QED  BY <1>1, <1>3, <1>4, <1>5, <1>6 DEF RemovalTypes

-----------------------------------------------------------------------------
(* The steps.                                                               *)

LEMMA QuietKeeps ==
    ASSUME RemovalInv, clock' \in Nat, clock' >= clock, Policies' = Policies, policy' \in [Policies -> Schedules],
           UNCHANGED <<holder, present, identity, running, history, copies, forget, overlap>>
    PROVE  RemovalInv'
<1>1. RemovalTypes'
  BY DEF RemovalInv, RemovalTypes, Jobs, Successes, Copies
<1>2. HolderKeeps'
  BY DEF RemovalInv, HolderKeeps, HoldsWhole
<1>3. ForgottenSoFar'
  BY DEF RemovalInv, ForgottenSoFar
<1>. QED  BY <1>1, <1>2, <1>3 DEF RemovalInv

LEMMA AskingKeeps ==
    ASSUME RemovalInv, QueueBackup \/ QueueRemovalPreparation \/ QueueSuspensionBackup \/ RemovePre \/ Tick
    PROVE  RemovalInv'
<1>1. /\ UNCHANGED <<policy, holder, present, identity, running, history, copies, forget, overlap>>
      /\ clock' = clock \/ clock' = clock + 1
  BY DEF QueueBackup, QueueRemovalPreparation, QueueSuspensionBackup, RemovePre, Tick, PutJobs,
         account, queue, forgetting
<1>2. clock \in Nat /\ policy \in [Policies -> Schedules]
  BY DEF RemovalInv, RemovalTypes
<1>3. Policies' = Policies
  BY <1>1 DEF Policies
<1>. QED  BY <1>1, <1>2, <1>3, QuietKeeps

LEMMA EditKeeps ==
    ASSUME RemovalInv, handleSaveSchedule
    PROVE  RemovalInv'
<1>1. policy \in [Policies -> Schedules] /\ clock \in Nat
  BY DEF RemovalInv, RemovalTypes
<1>2. PICK p \in Policies : \/ policy' = [policy EXCEPT ![p].on = ~@]
                            \/ policy' = [policy EXCEPT ![p].full = ~@]
                            \/ \E r \in policy[p].repos : policy' = [policy EXCEPT ![p].repos = {r}]
  BY DEF handleSaveSchedule
<1>. DEFINE s == policy[p]
<1>3. s \in Schedules
  BY <1>1
<1>4. \E s1 \in Schedules : policy' = [policy EXCEPT ![p] = s1]
  <2>1. CASE policy' = [policy EXCEPT ![p].on = ~@]
    <3>1. policy' = [policy EXCEPT ![p] = [s EXCEPT !.on = ~s.on]]
      BY <2>1
    <3>2. [s EXCEPT !.on = ~s.on] \in Schedules
      <4>. HIDE DEF s
      <4>. QED  BY <1>3 DEF Schedules
    <3>. QED  BY <3>1, <3>2
  <2>2. CASE policy' = [policy EXCEPT ![p].full = ~@]
    <3>1. policy' = [policy EXCEPT ![p] = [s EXCEPT !.full = ~s.full]]
      BY <2>2
    <3>2. [s EXCEPT !.full = ~s.full] \in Schedules
      <4>. HIDE DEF s
      <4>. QED  BY <1>3 DEF Schedules
    <3>. QED  BY <3>1, <3>2
  <2>3. ASSUME NEW r \in s.repos, policy' = [policy EXCEPT ![p].repos = {r}]
        PROVE  \E s1 \in Schedules : policy' = [policy EXCEPT ![p] = s1]
    <3>1. policy' = [policy EXCEPT ![p] = [s EXCEPT !.repos = {r}]]
      BY <2>3
    <3>2. [s EXCEPT !.repos = {r}] \in Schedules
      <4>. HIDE DEF s
      <4>. QED  BY <1>3, <2>3 DEF Schedules
    <3>. QED  BY <3>1, <3>2
  <2>. QED  BY <1>2, <2>1, <2>2, <2>3
<1>5. policy' \in [Policies -> Schedules] /\ Policies' = Policies
  BY <1>1, <1>4 DEF Policies
<1>. QED  BY <1>1, <1>5, QuietKeeps DEF handleSaveSchedule, account, queue, forgetting

LEMMA NameChangesHands ==
    ASSUME RemovalInv, AccountRemoved \/ AccountCreated
    PROVE  RemovalInv'
<1>1. /\ UNCHANGED <<clock, policy, running, history, copies, forget, overlap>>
      /\ \/ holder' = holder /\ present' = FALSE /\ identity' = "retired"
         \/ holder' = holder + 1 /\ identity' = "live"
  BY DEF AccountRemoved, AccountCreated, PutJobs, queue, forgetting
<1>2. RemovalTypes'
  BY <1>1 DEF RemovalInv, RemovalTypes, Jobs, Successes, Copies, Policies
<1>3. HolderKeeps'
  BY <1>1 DEF RemovalInv, RemovalTypes, HolderKeeps, HoldsWhole, Successes, Jobs
<1>4. ForgottenSoFar'
  BY <1>1 DEF RemovalInv, ForgottenSoFar
<1>. QED  BY <1>2, <1>3, <1>4 DEF RemovalInv

LEMMA BackupKeeps ==
    ASSUME RemovalInv, NEW p \in Policies, runBackup(p)
    PROVE  RemovalInv'
<1>1. UNCHANGED <<clock, policy, holder, present, history, copies, forget>>
  BY DEF runBackup
<1>2. CASE present
  <2>1. /\ running' = [policy |-> p, repos |-> policy[p].repos, complete |-> policy[p].full,
                       holder |-> holder, listed |-> TRUE]
        /\ identity' = noteIdentity /\ overlap' = (overlap \/ forget.on)
    BY <1>2 DEF runBackup
  <2>2. policy[p].repos \subseteq Repos /\ policy[p].full \in BOOLEAN /\ holder \in Nat
    BY DEF RemovalInv, RemovalTypes, Schedules
  <2>3. running' \in Jobs /\ running'.holder = holder
    BY <2>1, <2>2 DEF Jobs
  <2>4. RemovalTypes'
    BY <1>1, <2>3 DEF RemovalInv, RemovalTypes, Jobs, Successes, Copies, Policies
  <2>5. HolderKeeps'
    <3>1. identity' = "retired" => identity = "retired"
      BY <2>1 DEF noteIdentity
    <3>2. running'.holder <= holder
      BY <2>2, <2>3
    <3>. QED  BY <1>1, <2>1, <3>1, <3>2 DEF RemovalInv, HolderKeeps, HoldsWhole
  <2>6. ForgottenSoFar'
    BY <1>1, <2>1 DEF ForgottenSoFar, noteIdentity
  <2>. QED  BY <2>4, <2>5, <2>6 DEF RemovalInv
<1>3. CASE ~present
  BY <1>1, <1>3, QuietKeeps DEF runBackup, Policies, RemovalInv, RemovalTypes
<1>. QED  BY <1>2, <1>3

(* A run that ends, or dies.                                                *)
LEMMA RunEnds ==
    ASSUME RemovalInv, NEW written \in SUBSET running.repos, NEW entire \in SUBSET written,
           copies' = Copied(written, entire), running' = NoJob,
           \/ history' = history
           \/ /\ entire = running.repos
              /\ history' = history \cup {[policy |-> running.policy, at |-> clock, repos |-> entire,
                                           complete |-> running.complete, holder |-> running.holder]},
           forget' \in {forget, NotForgetting},
           UNCHANGED <<clock, policy, holder, present, identity, overlap>>
    PROVE  RemovalInv'
<1>. DEFINE j == [policy |-> running.policy, at |-> clock, repos |-> entire, complete |-> running.complete,
               holder |-> running.holder]
<1>1. /\ j \in Successes /\ j.at = clock /\ j.repos = entire /\ j.holder = running.holder
      /\ j.complete <=> running.complete
  <2>1. /\ running.policy \in Policies \cup {0} /\ clock \in Nat /\ entire \in SUBSET Repos
        /\ running.complete \in BOOLEAN /\ running.holder \in Nat
    BY DEF RemovalInv, RemovalTypes, Jobs
  <2>. QED  BY <2>1 DEF Successes
<1>. HIDE DEF j
<1>2. history' \in {history, history \cup {j}} /\ (j \in history' => j \in history \/ entire = running.repos)
  BY DEF j
<1>3. RemovalTypes'
  <2>1. copies' \subseteq Copies /\ \A c \in copies' : c.at <= clock
    BY CopiedIs DEF RemovalInv
  <2>2. history' \subseteq Successes /\ \A k \in history' : k.at <= clock
    BY <1>1, <1>2 DEF RemovalInv, RemovalTypes
  <2>3. running' \in Jobs /\ forget' \in [on: BOOLEAN, todo: SUBSET Repos]
    BY NoJobIs, NotForgettingIs DEF RemovalInv, RemovalTypes
  <2>. QED  BY <2>1, <2>2, <2>3 DEF RemovalInv, RemovalTypes, Jobs, Successes, Copies, Policies
<1>4. HolderKeeps'
  <2>1. ASSUME present, ~overlap, NEW k \in history', k.complete, k.holder = holder, NEW r \in k.repos
        PROVE  \E c \in copies' : HoldsWhole(c, r) /\ c.at >= k.at
    <3>1. CASE k \in history
      <4>1. PICK c \in copies : HoldsWhole(c, r) /\ c.at >= k.at
        BY <2>1, <3>1 DEF RemovalInv, HolderKeeps
      <4>2. PICK d \in copies' : d.repo = c.repo /\ d.whole /\ d.holder = c.holder /\ d.at >= c.at
        BY <4>1, CopiedIs DEF RemovalInv, HoldsWhole
      <4>3. c.at \in Nat /\ d.at \in Nat /\ k.at \in Nat
        BY <1>3, <2>1 DEF RemovalInv, RemovalTypes, Copies, Successes
      <4>. QED  BY <4>1, <4>2, <4>3 DEF HoldsWhole
    <3>2. CASE k = j /\ entire = running.repos
      <4>1. r \in entire /\ running.complete /\ k.at = clock /\ running.holder = holder
        BY <1>1, <2>1, <3>2
      <4>2. PICK d \in copies' : d.repo = r /\ d.whole /\ d.holder = running.holder /\ d.at = clock
        BY <4>1, CopiedIs DEF RemovalInv
      <4>. QED  BY <4>1, <4>2 DEF HoldsWhole, RemovalInv, RemovalTypes
    <3>. QED  BY <1>2, <2>1, <3>1, <3>2
  <2>2. running'.holder <= holder /\ \A k \in history' : k.holder <= holder
    BY <1>1, <1>2, NoJobIs DEF RemovalInv, RemovalTypes, HolderKeeps
  <2>3. present /\ ~overlap /\ forget'.on => \A k \in history' : k.holder = holder => k.repos = {}
    <3>1. forget'.on => forget' = forget
      BY NotForgettingIs
    <3>2. forget.on /\ ~overlap => running.repos = {}
      BY DEF RemovalInv, ForgottenSoFar
    <3>. QED  BY <1>1, <1>2, <3>1, <3>2 DEF RemovalInv, HolderKeeps
  <2>4. identity = "retired" => ~present
    BY DEF RemovalInv, HolderKeeps
  <2>. QED  BY <2>1, <2>2, <2>3, <2>4 DEF HolderKeeps, HoldsWhole
<1>5. ForgottenSoFar'
  <2>1. running.repos = {} => copies' = copies
    BY CopiedIs DEF RemovalInv
  <2>2. forget'.on => forget' = forget
    BY NotForgettingIs
  <2>. QED  BY <2>1, <2>2, NoJobIs DEF RemovalInv, ForgottenSoFar
<1>. QED  BY <1>3, <1>4, <1>5 DEF RemovalInv

LEMMA WorkKeeps ==
    ASSUME RemovalInv, RunJob \/ Crash
    PROVE  RemovalInv'
<1>1. CASE RunJob
  <2>1. PICK written \in SUBSET running.repos : \E entire \in SUBSET written :
           /\ copies' = Copied(written, entire)
           /\ \/ history' = history
              \/ /\ entire = running.repos
                 /\ history' = history \cup {[policy |-> running.policy, at |-> clock, repos |-> entire,
                                              complete |-> running.complete, holder |-> running.holder]}
    BY <1>1 DEF RunJob
  <2>2. running' = NoJob /\ UNCHANGED <<clock, policy, holder, present, identity, forget, overlap>>
    BY <1>1 DEF RunJob, account, forgetting
  <2>. QED  BY <2>1, <2>2, RunEnds
<1>2. CASE Crash
  <2>1. PICK written \in SUBSET running.repos : copies' = Copied(written, written)
    BY <1>2 DEF Crash
  <2>2. /\ running' = NoJob /\ forget' = NotForgetting
        /\ UNCHANGED <<clock, policy, holder, present, identity, history, overlap>>
    BY <1>2 DEF Crash, account
  <2>. QED  BY <2>1, <2>2, RunEnds
<1>. QED  BY <1>1, <1>2

(* Forgetting.                                                              *)
LEMMA ForgettingKeeps ==
    ASSUME RemovalInv, handleForgetAccount \/ sweepDeletedAccounts \/ ForgetSnapshots \/ ForgetAccount
    PROVE  RemovalInv'
<1>0. UNCHANGED <<clock, policy, holder, present>> /\ forget \in [on: BOOLEAN, todo: SUBSET Repos]
  BY DEF handleForgetAccount, sweepDeletedAccounts, ForgetSnapshots, ForgetAccount, account,
         RemovalInv, RemovalTypes
<1>1. CASE handleForgetAccount \/ sweepDeletedAccounts
  <2>1. /\ identity = "retired" /\ identity' = identity
        /\ forget' = [on |-> TRUE, todo |-> Repos] /\ overlap' = (overlap \/ running # NoJob)
        /\ UNCHANGED <<running, history, copies>>
    BY <1>1 DEF handleForgetAccount, sweepDeletedAccounts, BeginForget, account, queue
  <2>2. RemovalTypes'
    BY <1>0, <2>1 DEF RemovalInv, RemovalTypes, Jobs, Successes, Copies, Policies
  <2>3. HolderKeeps'
    BY <1>0, <2>1 DEF RemovalInv, HolderKeeps
  <2>4. ForgottenSoFar'
    BY <2>1, NoJobIs DEF RemovalInv, RemovalTypes, ForgottenSoFar, Copies
  <2>. QED  BY <2>2, <2>3, <2>4 DEF RemovalInv
<1>2. CASE ForgetSnapshots
  <2>1. forget.on /\ UNCHANGED <<identity, running, history, overlap>>
    BY <1>2 DEF ForgetSnapshots, account, queue
  <2>2. present /\ ~overlap => \A j \in history : j.holder = holder => j.repos = {}
    BY <2>1 DEF RemovalInv, HolderKeeps
  <2>3. \/ copies' = copies /\ forget' = NotForgetting
        \/ \E r \in forget.todo : /\ copies' = {c \in copies : c.repo # r}
                                  /\ forget' = [forget EXCEPT !.todo = @ \ {r}]
    BY <1>2 DEF ForgetSnapshots, ForgetFails
  <2>4. /\ copies' \subseteq copies /\ forget' \in [on: BOOLEAN, todo: SUBSET Repos]
        /\ forget'.on /\ (\A c \in copies : c.repo \in forget.todo) => \A c \in copies' : c.repo \in forget'.todo
    BY <1>0, <2>3, NotForgettingIs
  <2>5. RemovalTypes'
    BY <1>0, <2>1, <2>4 DEF RemovalInv, RemovalTypes, Jobs, Successes, Copies, Policies
  <2>6. HolderKeeps'
    BY <1>0, <2>1, <2>2 DEF RemovalInv, HolderKeeps
  <2>7. ForgottenSoFar'
    BY <2>1, <2>4 DEF RemovalInv, ForgottenSoFar
  <2>. QED  BY <2>5, <2>6, <2>7 DEF RemovalInv
<1>3. CASE ForgetAccount
  <2>1. /\ forget.on /\ forget.todo = {} /\ forget' = NotForgetting /\ identity' = "none" /\ history' = {}
        /\ running' = [running EXCEPT !.listed = FALSE] /\ UNCHANGED <<copies, overlap>>
    BY <1>3 DEF ForgetAccount
  <2>2. running \in Jobs
    BY DEF RemovalInv, RemovalTypes
  <2>3. running' \in Jobs /\ running'.holder = running.holder /\ running'.repos = running.repos
    BY <2>1, <2>2 DEF Jobs
  <2>4. RemovalTypes'
    BY <1>0, <2>1, <2>3, NotForgettingIs DEF RemovalInv, RemovalTypes, Jobs, Successes, Copies, Policies
  <2>5. HolderKeeps'
    BY <1>0, <2>1, <2>3 DEF RemovalInv, HolderKeeps
  <2>6. ForgottenSoFar'
    BY <2>1, <2>3, NotForgettingIs DEF RemovalInv, ForgottenSoFar
  <2>. QED  BY <2>4, <2>5, <2>6 DEF RemovalInv
<1>. QED  BY <1>1, <1>2, <1>3

LEMMA RemovalStep == RemovalInv /\ [RemovalNext]_removalVars => RemovalInv'
<1>. SUFFICES ASSUME RemovalInv, [RemovalNext]_removalVars PROVE RemovalInv'
  OBVIOUS
<1>1. CASE UNCHANGED removalVars
  BY <1>1, QuietKeeps DEF removalVars, account, queue, forgetting, Policies, RemovalInv, RemovalTypes
<1>. QED
  BY <1>1, AskingKeeps, EditKeeps, NameChangesHands, BackupKeeps, WorkKeeps, ForgettingKeeps DEF RemovalNext

LEMMA RemovalInvHolds == RemovalSpec => []RemovalInv
<1>1. RemovalInit => RemovalInv
  <2>. SUFFICES ASSUME RemovalInit PROVE RemovalInv
    OBVIOUS
  <2>1. policy \in [Policies -> Schedules]
    BY TerminationAssumption DEF RemovalInit, Policies
  <2>. QED  BY <2>1, NoJobIs, NotForgettingIs
            DEF RemovalInit, RemovalInv, RemovalTypes, HolderKeeps, ForgottenSoFar
<1>. QED  BY <1>1, RemovalStep, PTL DEF RemovalSpec

(* Whoever holds a name is let go by the hook only when every promised       *)
(* destination holds a whole, recent enough copy of theirs, or when a former *)
(* holder's job has been taken for theirs (or the name was being forgotten   *)
(* beside a backup of it): of their own jobs, what the history says is so.   *)
THEOREM AllowedOnlyWithCopies == RemovalSpec => AllowedHasCopies
<1>. DEFINE Kept(r) ==
               \/ \E c \in copies :
                     c.repo = r /\ c.whole /\ c.holder = holder /\ clock <= c.at + Due(r)
               \/ \E j \in history :
                     j.complete /\ r \in j.repos /\ j.holder < holder /\ clock <= j.at + Due(r)
<1>1. ASSUME RemovalInv, [RemovalNext]_removalVars, leaving' = "allowed", leaving = "no", ~overlap,
             NEW r \in Promised
      PROVE  Kept(r)
  <2>1. present /\ Missing = {}
    <3>1. RemovePre
      BY <1>1 DEF RemovalNext, QueueBackup, QueueRemovalPreparation, QueueSuspensionBackup, runBackup, RunJob,
             Crash, AccountRemoved, AccountCreated, handleForgetAccount, sweepDeletedAccounts, ForgetSnapshots,
             ForgetAccount, handleSaveSchedule, Tick, account, removalVars
    <3>. QED  BY <1>1, <3>1 DEF RemovePre, AccountRemovalSafety
  <2>2. Due(r) \in Nat /\ clock \in Nat
    BY <1>1, DueIsOne DEF RemovalInv, RemovalTypes
  <2>3. PICK j \in history : j.complete /\ r \in j.repos /\ ~(clock > j.at + Due(r))
    BY <2>1 DEF Missing, Counts
  <2>4. j.at \in Nat /\ j.holder \in Nat /\ holder \in Nat /\ j.holder <= holder
    BY <1>1 DEF RemovalInv, RemovalTypes, Successes, HolderKeeps
  <2>5. clock <= j.at + Due(r)
    BY <2>2, <2>3, <2>4
  <2>6. CASE j.holder = holder
    <3>1. PICK c \in copies : HoldsWhole(c, r) /\ c.at >= j.at
      BY <1>1, <2>1, <2>3, <2>6 DEF RemovalInv, HolderKeeps
    <3>2. c.at \in Nat
      BY <1>1 DEF RemovalInv, RemovalTypes, Copies
    <3>3. clock <= c.at + Due(r)
      BY <2>2, <2>4, <2>5, <3>1, <3>2
    <3>. QED  BY <3>1, <3>3 DEF HoldsWhole
  <2>7. CASE j.holder < holder
    BY <2>3, <2>5, <2>7
  <2>. QED  BY <2>4, <2>6, <2>7
<1>2. RemovalInv /\ [RemovalNext]_removalVars =>
        [leaving' = "allowed" /\ leaving = "no" /\ ~overlap => \A r \in Promised : Kept(r)]_removalVars
  BY <1>1
<1>. QED  BY <1>2, RemovalInvHolds, PTL DEF RemovalSpec, AllowedHasCopies

(* What is left of an account that was forgotten is nothing, unless a backup *)
(* of it was under way beside: destinations first, and the records last.     *)
THEOREM ForgottenIsGone == RemovalSpec => []ForgottenLeavesNothing
<1>1. RemovalInv => ForgottenLeavesNothing
  BY DEF RemovalInv, ForgottenSoFar, ForgottenLeavesNothing
<1>. QED  BY <1>1, RemovalInvHolds, PTL

-----------------------------------------------------------------------------
(* Numbers, and functions that recursions define.                           *)

\* A set of numbers that is not empty has a least, and Min is it.
LEMMA LeastIs ==
    ASSUME NEW S \in SUBSET Nat, S # {}
    PROVE  Min(S) \in S /\ \A x \in S : Min(S) <= x
<1>. DEFINE less == OpToRel(<, Nat)
<1>1. \A d, e \in Nat : e < d => <<e, d>> \in less
  BY Zenon DEF OpToRel
<1>2. IsWellFoundedOn(less, Nat)
  BY NatLessThanWellFounded
<1>. HIDE DEF less
<1>3. PICK d \in S : \A e \in S : <<e, d>> \notin less
  BY <1>2, WFMin
<1>4. ASSUME NEW e \in S PROVE d <= e
  <2>1. d \in Nat /\ e \in Nat /\ <<e, d>> \notin less
    BY <1>3
  <2>2. ~(e < d)
    BY <1>1, <2>1
  <2>. QED  BY <2>1, <2>2
<1>. QED  BY <1>3, <1>4 DEF Min

\* A set of numbers up to m that is not empty has a largest.
LEMMA LargestIs ==
    ASSUME NEW m \in Nat, NEW S \in SUBSET (0..m), S # {}
    PROVE  \E x \in S : \A y \in S : y <= x
<1>. DEFINE below == {m - x : x \in S}
<1>1. below \subseteq Nat /\ below # {}
  <2>1. \A x \in S : m - x \in Nat
    OBVIOUS
  <2>. QED  BY <2>1
<1>2. PICK b \in below : \A c \in below : b <= c
  <2>. HIDE DEF below
  <2>. QED  BY <1>1, LeastIs
<1>3. PICK x \in S : b = m - x
  BY <1>2
<1>4. ASSUME NEW y \in S PROVE y <= x
  <2>1. m - x <= m - y
    BY <1>2, <1>3
  <2>2. x \in 0..m /\ y \in 0..m
    OBVIOUS
  <2>. QED  BY <2>1, <2>2
<1>. QED  BY <1>4

\* Induction over the numbers, for a set instead of a predicate.
LEMMA FromZeroUp ==
    ASSUME NEW S, 0 \in S, \A k \in Nat : k \in S => k + 1 \in S
    PROVE  \A k \in Nat : k \in S
<1>. DEFINE out == Nat \ S
<1>1. SUFFICES ASSUME out # {} PROVE FALSE
  OBVIOUS
<1>2. Min(out) \in out /\ \A x \in out : Min(out) <= x
  BY <1>1, LeastIs
<1>. DEFINE k == Min(out)
<1>. HIDE DEF k
<1>3. k \in Nat /\ k # 0 /\ k \notin S /\ \A x \in Nat : x \notin S => k <= x
  BY <1>2 DEF k
<1>4. k - 1 \in Nat /\ ~(k <= k - 1) /\ (k - 1) + 1 = k
  BY <1>3
<1>5. k - 1 \in S
  BY <1>3, <1>4
<1>. QED  BY <1>3, <1>4, <1>5

\* What F[f] makes of f, at any place, it makes of the places below.
GoesDown(D, V, F, rank, K) ==
    /\ V # {} /\ F \in [[D -> V] -> [D -> V]]
    /\ K \in Nat /\ rank \in [D -> Nat] /\ \A x \in D : rank[x] < K
    /\ \A f, g \in [D -> V] : \A x \in D :
          (\A y \in D : rank[y] < rank[x] => f[y] = g[y]) => F[f][x] = F[g][x]

\* A recursion that goes down in rank defines a function.
LEMMA RecursionHasValue ==
    ASSUME NEW D, NEW V, NEW F, NEW rank, NEW K, GoesDown(D, V, F, rank, K)
    PROVE  \E f \in [D -> V] : f = F[f]
<1>. USE DEF GoesDown
<1>. DEFINE Upto(f, k) == \A x \in D : rank[x] < k => f[x] = F[f][x]
            S == {k \in Nat : \E f \in [D -> V] : Upto(f, k)}
<1>1. 0 \in S
  <2>1. PICK v \in V : TRUE
    OBVIOUS
  <2>2. [x \in D |-> v] \in [D -> V]
    OBVIOUS
  <2>3. \A x \in D : ~(rank[x] < 0)
    OBVIOUS
  <2>. QED  BY <2>2, <2>3
<1>2. ASSUME NEW k \in Nat, k \in S PROVE k + 1 \in S
  <2>1. PICK f \in [D -> V] : Upto(f, k)
    BY <1>2
  <2>2. PICK g : g = F[f]
    OBVIOUS
  <2>3. g \in [D -> V]
    BY <2>2
  <2>4. ASSUME NEW x \in D, rank[x] < k + 1 PROVE g[x] = F[g][x]
    <3>1. \A y \in D : rank[y] < rank[x] => rank[y] < k
      BY <2>4
    <3>2. \A y \in D : rank[y] < rank[x] => f[y] = g[y]
      BY <2>1, <2>2, <3>1
    <3>3. F[f][x] = F[g][x]
      BY <2>3, <3>2
    <3>. QED  BY <2>2, <3>3
  <2>. QED  BY <2>3, <2>4
<1>3. K \in S
  <2>. HIDE DEF S
  <2>. QED  BY <1>1, <1>2, FromZeroUp
<1>4. PICK f \in [D -> V] : Upto(f, K)
  BY <1>3
<1>5. \A x \in D : f[x] = F[f][x]
  BY <1>4
<1>6. F[f] \in [D -> V]
  OBVIOUS
<1>7. f = F[f]
  BY <1>5, <1>6
<1>. QED  BY <1>7

-----------------------------------------------------------------------------
(* The search for the fewest schedules.                                     *)

\* The schedules that can make a copy are a finite set of numbers.
Numbered(C) == C \subseteq Policies /\ IsFiniteSet(C) /\ C \subseteq Nat

Covers(wanted, S) == Uncovered(wanted, S) = {}

LEMMA SizesAre ==
    ASSUME NEW C, IsFiniteSet(C), NEW S \in SUBSET C
    PROVE  /\ IsFiniteSet(S) /\ Cardinality(S) \in Nat /\ Cardinality(S) <= Cardinality(C)
           /\ Cardinality(C) \in Nat
           /\ \A T \in SUBSET S : Cardinality(T) <= Cardinality(S)
           /\ \A p \in C \ S : Cardinality(S \cup {p}) = Cardinality(S) + 1
           /\ \A p \in S : Cardinality(S \ {p}) = Cardinality(S) - 1
BY FS_Subset, FS_CardinalityType, FS_AddElement, FS_RemoveElement

\* Where something is open that some schedule helps with, the one that adds
\* most is one of them.
LEMMA MostIs ==
    ASSUME NEW C, Numbered(C), NEW open, IsFiniteSet(open), \E p \in C : Gain(p, open) # 0
    PROVE  /\ Most(C, open) \in C
           /\ Gain(Most(C, open), open) # 0
<1>. DEFINE n == Cardinality(open)
            gains == {Gain(p, open) : p \in C}
<1>1. n \in Nat /\ \A p : Gain(p, open) \in 0..n
  <2>1. n \in Nat
    BY FS_CardinalityType
  <2>2. ASSUME NEW p PROVE Gain(p, open) \in Nat /\ Gain(p, open) <= n
    <3>1. Helps(p, open) \in SUBSET open
      BY DEF Helps
    <3>. QED  BY <3>1, SizesAre DEF Gain
  <2>. HIDE DEF n
  <2>. QED  BY <2>1, <2>2
<1>. HIDE DEF n
<1>2. PICK m \in gains : \A g \in gains : g <= m
  <2>1. gains \in SUBSET (0..n) /\ gains # {}
    BY <1>1
  <2>. HIDE DEF gains
  <2>. QED  BY <1>1, <2>1, LargestIs
<1>. DEFINE tops == {p \in C : Gain(p, open) = m}
<1>3. tops \in SUBSET Nat /\ tops # {}
  BY <1>2 DEF Numbered
<1>4. PICK p \in tops : \A q \in tops : p <= q
  <2>. HIDE DEF tops
  <2>. QED  BY <1>3, LeastIs
<1>5. \A q \in C : Gain(p, open) > Gain(q, open) \/ (Gain(p, open) = Gain(q, open) /\ p <= q)
  <2>. SUFFICES ASSUME NEW q \in C
                PROVE  Gain(p, open) > Gain(q, open) \/ (Gain(p, open) = Gain(q, open) /\ p <= q)
    OBVIOUS
  <2>1. Gain(p, open) = m /\ Gain(q, open) \in gains
    BY <1>4
  <2>2. Gain(q, open) <= m /\ m \in 0..n /\ Gain(q, open) \in 0..n
    BY <1>1, <1>2, <2>1
  <2>3. CASE Gain(q, open) = m
    BY <1>4, <2>1, <2>3
  <2>4. CASE Gain(q, open) # m
    BY <1>1, <2>1, <2>2, <2>4
  <2>. QED  BY <2>3, <2>4
<1>6. p \in C
  BY <1>4
<1>7. /\ Most(C, open) \in C
      /\ \A q \in C : \/ Gain(Most(C, open), open) > Gain(q, open)
                      \/ Gain(Most(C, open), open) = Gain(q, open) /\ Most(C, open) <= q
  BY <1>5, <1>6 DEF Most
<1>8. PICK q \in C : Gain(q, open) # 0
  OBVIOUS
<1>9. Gain(q, open) \in 0..n /\ Gain(Most(C, open), open) \in 0..n
  BY <1>1
<1>10. Gain(Most(C, open), open) # 0
  <2>. DEFINE g == Gain(Most(C, open), open)
              h == Gain(q, open)
  <2>1. g > h \/ g = h
    BY <1>7
  <2>2. g \in 0..n /\ h \in 0..n /\ h # 0
    BY <1>8, <1>9
  <2>3. g # 0
    <3>. HIDE DEF g, h
    <3>. QED  BY <1>1, <2>1, <2>2
  <2>. QED  BY <2>3
<1>. QED  BY <1>7, <1>10

\* What the greedy search returns where something is wanted that can be had:
\* a cover.
LEMMA GreedyIs ==
    ASSUME NEW C, Numbered(C), NEW wanted, IsFiniteSet(wanted), Covers(wanted, C)
    PROVE  /\ greedyPolicyCover(wanted, C) \in SUBSET C
           /\ Covers(wanted, greedyPolicyCover(wanted, C))
<1>. DEFINE D == SUBSET C
            Next1(chosen) == chosen \cup {Most(C, Uncovered(wanted, chosen))}
            Body(f, chosen) == IF Uncovered(wanted, chosen) = {} THEN chosen
                               ELSE IF \A p \in C : Gain(p, Uncovered(wanted, chosen)) = 0 THEN {}
                               ELSE f[Next1(chosen)]
            F == [f \in [D -> D] |-> [chosen \in D |-> Body(f, chosen)]]
            K == Cardinality(C) + 1
            rank == [chosen \in D |-> Cardinality(C) - Cardinality(chosen)]
<1>1. /\ Cardinality(C) \in Nat /\ K \in Nat
      /\ \A c \in D : Cardinality(c) \in Nat /\ Cardinality(c) <= Cardinality(C)
  <2>1. /\ Cardinality(C) \in Nat
        /\ \A c \in D : Cardinality(c) \in Nat /\ Cardinality(c) <= Cardinality(C)
    BY SizesAre DEF Numbered
  <2>. QED  BY <2>1
<1>2. rank \in [D -> Nat] /\ \A c \in D : rank[c] < K /\ rank[c] = Cardinality(C) - Cardinality(c)
  BY <1>1
<1>3. ASSUME NEW c \in D, Uncovered(wanted, c) # {}
      PROVE  \E p \in C : Gain(p, Uncovered(wanted, c)) # 0
  <2>. DEFINE open == Uncovered(wanted, c)
  <2>1. PICK r \in open : TRUE
    BY <1>3
  <2>2. PICK p \in C : r \in policy[p].repos
    BY <2>1 DEF Covers, Uncovered
  <2>3. r \in Helps(p, open) /\ Helps(p, open) \subseteq open
    BY <2>1, <2>2 DEF Helps
  <2>4. IsFiniteSet(open)
    BY FS_Subset DEF Uncovered
  <2>. HIDE DEF open
  <2>5. Cardinality(Helps(p, open)) # 0
    BY <2>3, <2>4, FS_Subset, FS_EmptySet
  <2>. QED  BY <2>5 DEF Gain, open
<1>4. ASSUME NEW c \in D, Uncovered(wanted, c) # {}
      PROVE  Next1(c) \in D /\ rank[Next1(c)] < rank[c]
  <2>. DEFINE open == Uncovered(wanted, c)
              p == Most(C, open)
  <2>1. IsFiniteSet(open)
    BY FS_Subset DEF Uncovered
  <2>2. p \in C /\ Gain(p, open) # 0
    BY <1>3, <1>4, <2>1, MostIs
  <2>3. p \notin c
    <3>1. p \in c => Helps(p, open) = {}
      BY DEF Helps, Uncovered
    <3>. QED  BY <2>2, <3>1, FS_EmptySet DEF Gain
  <2>. HIDE DEF p
  <2>4. Cardinality(c \cup {p}) = Cardinality(c) + 1 /\ c \cup {p} \in D
    BY <2>2, <2>3, SizesAre DEF Numbered
  <2>5. rank[c \cup {p}] < rank[c]
    <3>. HIDE DEF rank, D
    <3>. QED  BY <1>1, <1>2, <2>4
  <2>. QED  BY <2>4, <2>5 DEF p
<1>5. \A f \in [D -> D], c \in D : Body(f, c) \in D /\ F[f][c] = Body(f, c)
  <2>1. ASSUME NEW f \in [D -> D], NEW c \in D PROVE Body(f, c) \in D
    <3>1. Uncovered(wanted, c) # {} => f[Next1(c)] \in D
      BY <1>4
    <3>. HIDE DEF Next1
    <3>. QED  BY <3>1
  <2>. HIDE DEF Body
  <2>. QED  BY <2>1
<1>6. F \in [[D -> D] -> [D -> D]]
  <2>. HIDE DEF Body, D
  <2>. QED  BY <1>5
<1>7. ASSUME NEW f \in [D -> D], NEW g \in [D -> D], NEW c \in D,
             \A d \in D : rank[d] < rank[c] => f[d] = g[d]
      PROVE  F[f][c] = F[g][c]
  <2>1. Uncovered(wanted, c) # {} => f[Next1(c)] = g[Next1(c)]
    BY <1>4, <1>7
  <2>2. Body(f, c) = Body(g, c)
    <3>. HIDE DEF Next1
    <3>. QED  BY <2>1
  <2>3. F[f][c] = Body(f, c) /\ F[g][c] = Body(g, c)
    <3>. HIDE DEF Body, F
    <3>. QED  BY <1>5
  <2>. HIDE DEF Body, F
  <2>. QED  BY <2>2, <2>3
<1>8. \E f \in [D -> D] : f = F[f]
  <2>1. D # {}
    OBVIOUS
  <2>. HIDE DEF F, D, rank, K
  <2>2. K \in Nat /\ rank \in [D -> Nat] /\ \A x \in D : rank[x] < K
    BY <1>1, <1>2
  <2>3. \A f, g \in [D -> D] : \A x \in D :
          (\A y \in D : rank[y] < rank[x] => f[y] = g[y]) => F[f][x] = F[g][x]
    <3>1. SUFFICES ASSUME NEW f \in [D -> D], NEW g \in [D -> D], NEW x \in D,
                          \A y \in D : rank[y] < rank[x] => f[y] = g[y]
                   PROVE  F[f][x] = F[g][x]
      OBVIOUS
    <3>. QED  BY <3>1, <1>7
  <2>4. GoesDown(D, D, F, rank, K)
    BY <1>6, <2>1, <2>2, <2>3 DEF GoesDown
  <2>. QED  BY <2>4, RecursionHasValue
<1>. DEFINE cover == CHOOSE cover : cover =
               [chosen \in SUBSET C |->
                  LET open == Uncovered(wanted, chosen)
                  IN  IF open = {} THEN chosen
                      ELSE IF \A p \in C : Gain(p, open) = 0 THEN {}
                      ELSE cover[chosen \cup {Most(C, open)}]]
<1>9. greedyPolicyCover(wanted, C) = cover[{}]
  BY DEF greedyPolicyCover
<1>10. cover = [chosen \in D |-> Body(cover, chosen)]
  <2>1. \E f : f = [chosen \in D |-> Body(f, chosen)]
    BY <1>8
  <2>. QED  BY <2>1
<1>. HIDE DEF cover
<1>11. \A c \in D : cover[c] = Body(cover, c)
  <2>. HIDE DEF Body, D
  <2>. QED  BY <1>10
<1>. DEFINE S == {k \in Nat : \A c \in D : rank[c] < k => cover[c] \in D /\ Covers(wanted, cover[c])}
<1>12. 0 \in S
  BY <1>2
<1>13. ASSUME NEW k \in Nat, k \in S PROVE k + 1 \in S
  <2>1. ASSUME NEW c \in D, rank[c] < k + 1 PROVE cover[c] \in D /\ Covers(wanted, cover[c])
    <3>1. CASE Uncovered(wanted, c) = {}
      BY <1>11, <3>1 DEF Covers
    <3>2. CASE Uncovered(wanted, c) # {}
      <4>1. cover[c] = cover[Next1(c)]
        BY <1>3, <1>11, <3>2
      <4>2. Next1(c) \in D /\ rank[Next1(c)] < rank[c]
        BY <1>4, <3>2
      <4>. HIDE DEF Next1, rank, D
      <4>3. rank[Next1(c)] < k
        BY <1>2, <2>1, <4>2
      <4>. QED  BY <1>13, <4>1, <4>2, <4>3
    <3>. QED  BY <3>1, <3>2
  <2>. HIDE DEF rank, D
  <2>. QED  BY <2>1
<1>14. K \in S
  <2>. HIDE DEF S
  <2>. QED  BY <1>1, <1>12, <1>13, FromZeroUp
<1>15. cover[{}] \in D /\ Covers(wanted, cover[{}])
  <2>1. {} \in D
    OBVIOUS
  <2>. HIDE DEF rank, K, D
  <2>. QED  BY <1>2, <1>14, <2>1
<1>. QED  BY <1>9, <1>15

\* Whatever covers what is wanted has, for anything still open, a schedule
\* that is not among the chosen.
LEMMA OpenIsCovered ==
    ASSUME NEW wanted, NEW chosen, NEW S, Covers(wanted, S),
           NEW r \in Uncovered(wanted, chosen)
    PROVE  \E q \in S \ chosen : r \in policy[q].repos
BY DEF Covers, Uncovered

Available(C, chosen, r) == {p \in C \ chosen : r \in policy[p].repos}

\* What there is to try: nothing, for one of three reasons, or every schedule
\* left for something open.
LEMMA OptionsAre ==
    ASSUME NEW C, Numbered(C), NEW wanted, NEW chosen \in SUBSET C, NEW best \in SUBSET C
    PROVE  /\ Options(wanted, C, chosen, best) \in SUBSET (C \ chosen)
           /\ \/ Uncovered(wanted, chosen) = {}
              \/ Cardinality(chosen) + 1 >= Cardinality(best)
              \/ \E r \in Uncovered(wanted, chosen) : Available(C, chosen, r) = {}
              \/ \E r \in Uncovered(wanted, chosen) :
                    Options(wanted, C, chosen, best) = Available(C, chosen, r)
<1>. DEFINE open == Uncovered(wanted, chosen)
            A(r) == Available(C, chosen, r)
            pick == CHOOSE r \in open : \A s \in open : Cardinality(A(r)) <= Cardinality(A(s))
            none == open = {} \/ Cardinality(chosen) + 1 >= Cardinality(best) \/ \E r \in open : A(r) = {}
<1>1. Options(wanted, C, chosen, best) = IF none THEN {} ELSE A(pick)
  BY DEF Options, Available
<1>2. CASE none
  BY <1>1, <1>2
<1>3. CASE ~none
  <2>1. \A r : A(r) \in SUBSET C
    BY DEF Available
  <2>2. \A r : Cardinality(A(r)) \in Nat
    <3>. HIDE DEF A
    <3>. QED  BY <2>1, SizesAre DEF Numbered
  <2>. DEFINE sizes == {Cardinality(A(r)) : r \in open}
  <2>3. sizes \in SUBSET Nat /\ sizes # {}
    <3>. HIDE DEF A
    <3>. QED  BY <1>3, <2>2
  <2>4. PICK m \in sizes : \A k \in sizes : m <= k
    <3>. HIDE DEF sizes
    <3>. QED  BY <2>3, LeastIs
  <2>5. PICK r \in open : m = Cardinality(A(r))
    BY <2>4
  <2>6. \A s \in open : Cardinality(A(r)) <= Cardinality(A(s))
    BY <2>4, <2>5
  <2>7. pick \in open
    <3>. HIDE DEF A, open
    <3>. QED  BY <2>6
  <2>8. Options(wanted, C, chosen, best) = A(pick)
    BY <1>1, <1>3
  <2>9. A(pick) \in SUBSET (C \ chosen)
    BY DEF Available
  <2>. HIDE DEF pick
  <2>. QED  BY <2>7, <2>8, <2>9
<1>. HIDE DEF none
<1>. QED  BY <1>2, <1>3

\* A call starts from a best that is no worse.
LEMMA CallIs ==
    ASSUME NEW C, Numbered(C), NEW wanted, NEW chosen \in SUBSET C, NEW best \in SUBSET C,
           NEW at, at = Call(wanted, C, chosen, best)
    PROVE  /\ at \in Searches(C)
           /\ at.chosen = chosen /\ at.todo = Options(wanted, C, chosen, best)
           /\ at.chosen \cap at.todo = {}
           /\ Cardinality(at.best) <= Cardinality(best)
           /\ Covers(wanted, best) => Covers(wanted, at.best)
           /\ Uncovered(wanted, chosen) = {} => Cardinality(at.best) <= Cardinality(chosen)
           /\ Uncovered(wanted, chosen) # {} => at.best = best
<1>. DEFINE b == IF Uncovered(wanted, chosen) = {} /\ Cardinality(chosen) < Cardinality(best)
                 THEN chosen ELSE best
<1>1. at = [chosen |-> chosen, todo |-> Options(wanted, C, chosen, best), best |-> b]
  BY DEF Call
<1>2. Options(wanted, C, chosen, best) \in SUBSET (C \ chosen)
  BY OptionsAre
<1>3. Cardinality(chosen) \in Nat /\ Cardinality(best) \in Nat
  BY SizesAre DEF Numbered
<1>4. /\ Cardinality(b) <= Cardinality(best)
      /\ Uncovered(wanted, chosen) = {} => Cardinality(b) <= Cardinality(chosen)
  BY <1>3
<1>5. /\ b \in SUBSET C
      /\ Covers(wanted, best) => Covers(wanted, b)
      /\ Uncovered(wanted, chosen) # {} => b = best
  BY DEF Covers
<1>. HIDE DEF b
<1>6. at \in Searches(C)
  BY <1>1, <1>2, <1>5 DEF Searches
<1>7. at.chosen = chosen /\ at.todo = Options(wanted, C, chosen, best) /\ at.best = b
  BY <1>1
<1>8. at.chosen \cap at.todo = {}
  BY <1>2, <1>7
<1>. QED  BY <1>4, <1>5, <1>6, <1>7, <1>8

\* A call has nothing left out: a cover that goes on from what is chosen is
\* no smaller than the best, or goes on by one of the options.
LEMMA NothingLeftOut ==
    ASSUME NEW C, Numbered(C), NEW wanted, NEW chosen \in SUBSET C, NEW best \in SUBSET C,
           NEW S \in SUBSET C, Covers(wanted, S), chosen \subseteq S
    PROVE  \/ Cardinality(Call(wanted, C, chosen, best).best) <= Cardinality(S)
           \/ \E q \in Options(wanted, C, chosen, best) : chosen \cup {q} \subseteq S
<1>. DEFINE at == Call(wanted, C, chosen, best)
<1>1. /\ at \in Searches(C)
      /\ Cardinality(at.best) <= Cardinality(best)
      /\ Uncovered(wanted, chosen) = {} => Cardinality(at.best) <= Cardinality(chosen)
  BY CallIs, Zenon
<1>. HIDE DEF at
<1>2. /\ Cardinality(at.best) \in Nat /\ Cardinality(best) \in Nat /\ Cardinality(chosen) \in Nat
      /\ Cardinality(S) \in Nat /\ IsFiniteSet(S) /\ Cardinality(chosen) <= Cardinality(S)
  <2>1. IsFiniteSet(C)
    BY DEF Numbered
  <2>2. at.best \in SUBSET C
    BY <1>1 DEF Searches
  <2>. QED  BY <2>1, <2>2, SizesAre
<1>3. CASE Uncovered(wanted, chosen) = {}
  BY <1>1, <1>2, <1>3 DEF at
<1>4. CASE Uncovered(wanted, chosen) # {} /\ Cardinality(chosen) + 1 >= Cardinality(best)
  <2>1. PICK q \in S \ chosen : TRUE
    BY <1>4, OpenIsCovered
  <2>2. Cardinality(chosen \cup {q}) = Cardinality(chosen) + 1
    BY <2>1, SizesAre DEF Numbered
  <2>3. Cardinality(chosen \cup {q}) <= Cardinality(S)
    BY <1>2, <2>1, SizesAre
  <2>. QED  BY <1>1, <1>2, <1>4, <2>2, <2>3 DEF at
<1>5. ASSUME NEW r \in Uncovered(wanted, chosen)
      PROVE  \E q \in Available(C, chosen, r) : chosen \cup {q} \subseteq S
  <2>1. PICK q \in S \ chosen : r \in policy[q].repos
    BY OpenIsCovered
  <2>. QED  BY <2>1 DEF Available
<1>6. CASE \E r \in Uncovered(wanted, chosen) : Available(C, chosen, r) = {}
  BY <1>5, <1>6
<1>7. CASE \E r \in Uncovered(wanted, chosen) :
              Options(wanted, C, chosen, best) = Available(C, chosen, r)
  BY <1>5, <1>7
<1>8. \/ Uncovered(wanted, chosen) = {}
      \/ Cardinality(chosen) + 1 >= Cardinality(best)
      \/ \E r \in Uncovered(wanted, chosen) : Available(C, chosen, r) = {}
      \/ \E r \in Uncovered(wanted, chosen) :
            Options(wanted, C, chosen, best) = Available(C, chosen, r)
  BY OptionsAre
<1>. QED  BY <1>3, <1>4, <1>6, <1>7, <1>8

\* The search goes down: by one more chosen, or by one fewer to try.
Rank(C, at) ==
    (Cardinality(C) - Cardinality(at.chosen)) * (Cardinality(C) + 1) + Cardinality(at.todo)
        + (IF at.todo \cap at.chosen = {} THEN 0 ELSE Cardinality(C) + 1)

Nested(wanted, C, at) == Call(wanted, C, at.chosen \cup {Min(at.todo)}, at.best)

Later(at, found) == [at EXCEPT !.todo = @ \ {Min(at.todo)}, !.best = found]

LEMMA OneRowUp ==
    ASSUME NEW n \in Nat, NEW a \in 0..n
    PROVE  (n - a) * (n + 1) \in Nat /\ (n - a) * (n + 1) <= n * (n + 1)
           /\ a < n => (n - (a + 1)) * (n + 1) + (n + 1) = (n - a) * (n + 1)
<1>1. PICK b \in Nat : b = n - a /\ b <= n
  OBVIOUS
<1>2. b * (n + 1) \in Nat
  OBVIOUS
<1>3. b * (n + 1) <= n * (n + 1)
  <2>1. \E d \in Nat : n = b + d
    <3>1. n - b \in Nat /\ n = b + (n - b)
      BY <1>1
    <3>. QED  BY <3>1
  <2>2. PICK d \in Nat : n = b + d
    BY <2>1
  <2>3. d * (n + 1) \in Nat /\ (b + d) * (n + 1) = b * (n + 1) + d * (n + 1)
    OBVIOUS
  <2>4. n * (n + 1) = b * (n + 1) + d * (n + 1)
    BY <2>2, <2>3
  <2>. QED  BY <1>2, <2>3, <2>4
<1>4. n - (a + 1) = b - 1
  BY <1>1
<1>5. (b - 1) * (n + 1) + (n + 1) = b * (n + 1)
  BY <1>1
<1>. QED  BY <1>1, <1>2, <1>3, <1>4, <1>5

LEMMA RankIs ==
    ASSUME NEW C, Numbered(C), NEW at \in Searches(C)
    PROVE  /\ Rank(C, at) \in Nat
           /\ Rank(C, at) < (Cardinality(C) + 2) * (Cardinality(C) + 1)
<1>1. PICK n \in Nat : n = Cardinality(C)
  BY SizesAre DEF Numbered
<1>2. PICK a \in 0..n : a = Cardinality(at.chosen)
  BY <1>1, SizesAre DEF Numbered, Searches
<1>3. PICK t \in 0..n : t = Cardinality(at.todo)
  BY <1>1, SizesAre DEF Numbered, Searches
<1>4. PICK e \in 0..(n + 1) : e = IF at.todo \cap at.chosen = {} THEN 0 ELSE n + 1
  OBVIOUS
<1>5. PICK w \in Nat : w = (n - a) * (n + 1) /\ w <= n * (n + 1)
  BY OneRowUp
<1>6. Rank(C, at) = w + t + e
  BY <1>1, <1>2, <1>3, <1>4, <1>5 DEF Rank
<1>7. PICK z \in Nat : z = n * (n + 1)
  OBVIOUS
<1>8. (n + 2) * (n + 1) = z + n + 1 + n + 1
  BY <1>7
<1>9. w + t + e \in Nat /\ w + t + e < z + n + 1 + n + 1
  BY <1>5, <1>7
<1>. QED  BY <1>1, <1>6, <1>8, <1>9

LEMMA RanksFall ==
    ASSUME NEW C, Numbered(C), NEW wanted, NEW at \in Searches(C), at.todo # {}
    PROVE  /\ Min(at.todo) \in at.todo
           /\ Nested(wanted, C, at) \in Searches(C)
           /\ Rank(C, Nested(wanted, C, at)) < Rank(C, at)
           /\ \A found \in SUBSET C : /\ Later(at, found) \in Searches(C)
                                      /\ Rank(C, Later(at, found)) < Rank(C, at)
<1>1. Min(at.todo) \in at.todo
  <2>1. at.todo \in SUBSET Nat
    BY DEF Searches, Numbered
  <2>. QED  BY <2>1, LeastIs
<1>. DEFINE p == Min(at.todo)
<1>2. p \in at.todo /\ p \in C
  BY <1>1 DEF Searches
<1>. HIDE DEF p
<1>3. PICK n \in Nat : n = Cardinality(C)
  BY SizesAre DEF Numbered
<1>4. PICK a \in 0..n : a = Cardinality(at.chosen)
  BY <1>3, SizesAre DEF Numbered, Searches
<1>5. PICK t \in 0..n : t = Cardinality(at.todo)
  BY <1>3, SizesAre DEF Numbered, Searches
<1>6. PICK w \in Nat : w = (n - a) * (n + 1) /\ (a < n => (n - (a + 1)) * (n + 1) + (n + 1) = w)
  BY OneRowUp
<1>7. PICK e \in {0, n + 1} : e = IF at.todo \cap at.chosen = {} THEN 0 ELSE n + 1
  OBVIOUS
<1>8. Rank(C, at) = w + t + e
  BY <1>3, <1>4, <1>5, <1>6, <1>7 DEF Rank
<1>0. PICK inner : inner = Nested(wanted, C, at)
  OBVIOUS
<1>9. /\ inner \in Searches(C) /\ inner.chosen = at.chosen \cup {p}
      /\ inner.todo \cap inner.chosen = {} /\ inner.todo \in SUBSET C
  <2>1. PICK chosen \in SUBSET C : chosen = at.chosen \cup {p}
    BY <1>2 DEF Searches
  <2>2. PICK best \in SUBSET C : best = at.best
    BY DEF Searches
  <2>3. inner = Call(wanted, C, chosen, best)
    BY <1>0, <2>1, <2>2 DEF Nested, p
  <2>4. inner \in Searches(C)
    BY <2>3, CallIs
  <2>5. inner.chosen = chosen /\ inner.todo = Options(wanted, C, chosen, best)
    BY <2>3 DEF Call
  <2>6. inner.chosen \cap inner.todo = {}
    <3>1. Options(wanted, C, chosen, best) \in SUBSET (C \ chosen)
      BY OptionsAre
    <3>. QED  BY <2>5, <3>1
  <2>. QED  BY <2>1, <2>4, <2>5, <2>6 DEF Searches
<1>10. PICK u \in 0..n : u = Cardinality(inner.todo)
  BY <1>3, <1>9, SizesAre DEF Numbered
<1>11. Rank(C, inner) < Rank(C, at)
  <2>1. CASE p \in at.chosen
    <3>1. inner.chosen = at.chosen
      BY <1>9, <2>1
    <3>2. Rank(C, inner) = w + u + 0
      BY <1>3, <1>4, <1>6, <1>9, <1>10, <3>1 DEF Rank
    <3>3. e = n + 1 /\ t # 0
      <4>1. p \in at.todo \cap at.chosen
        BY <1>2, <2>1
      <4>2. t # 0
        BY <1>2, <1>5, FS_EmptySet, FS_Subset DEF Searches, Numbered
      <4>. QED  BY <1>7, <4>1, <4>2
    <3>. QED  BY <1>8, <3>2, <3>3
  <2>2. CASE p \notin at.chosen
    <3>1. Cardinality(inner.chosen) = a + 1
      BY <1>2, <1>4, <1>9, <2>2, SizesAre DEF Numbered, Searches
    <3>2. a + 1 <= n
      BY <1>3, <1>9, <3>1, SizesAre DEF Numbered, Searches
    <3>3. PICK v \in Nat : v = (n - (a + 1)) * (n + 1)
      BY <3>2, OneRowUp
    <3>4. Rank(C, inner) = v + u + 0
      BY <1>3, <1>9, <1>10, <3>1, <3>3 DEF Rank
    <3>5. v + (n + 1) = w
      BY <1>6, <3>2, <3>3
    <3>. QED  BY <1>8, <3>4, <3>5
  <2>. QED  BY <2>1, <2>2
<1>12. ASSUME NEW found \in SUBSET C
       PROVE  Later(at, found) \in Searches(C) /\ Rank(C, Later(at, found)) < Rank(C, at)
  <2>. DEFINE on == Later(at, found)
  <2>1. /\ on \in Searches(C) /\ on.chosen = at.chosen /\ on.todo = at.todo \ {p}
    BY DEF Searches, Later, p
  <2>. HIDE DEF on
  <2>2. Cardinality(on.todo) = t - 1
    BY <1>2, <1>5, <2>1, SizesAre DEF Numbered, Searches
  <2>3. PICK f \in {0, n + 1} : f = IF on.todo \cap on.chosen = {} THEN 0 ELSE n + 1
    OBVIOUS
  <2>4. f <= e
    <3>1. on.todo \cap on.chosen # {} => at.todo \cap at.chosen # {}
      BY <2>1
    <3>. QED  BY <1>7, <2>3, <3>1
  <2>5. Rank(C, on) = w + (t - 1) + f
    BY <1>3, <1>4, <1>6, <2>1, <2>2, <2>3 DEF Rank
  <2>6. Rank(C, on) < Rank(C, at)
    BY <1>8, <2>4, <2>5
  <2>. QED  BY <2>1, <2>6 DEF on
<1>. QED  BY <1>0, <1>1, <1>9, <1>11, <1>12

\* The search as a function of where it is, named.
SearchOf(wanted, C) ==
    CHOOSE search : search =
        [at \in Searches(C) |->
            IF at.todo = {} THEN at.best
            ELSE search[Later(at, search[Nested(wanted, C, at)])]]

LEMMA SearchUnfolds ==
    ASSUME NEW C, Numbered(C), NEW wanted
    PROVE  /\ SearchOf(wanted, C) \in [Searches(C) -> SUBSET C]
           /\ \A at \in Searches(C) :
                 SearchOf(wanted, C)[at] =
                    IF at.todo = {} THEN at.best
                    ELSE SearchOf(wanted, C)[Later(at, SearchOf(wanted, C)[Nested(wanted, C, at)])]
<1>. DEFINE D == Searches(C)
            V == SUBSET C
            Body(f, at) == IF at.todo = {} THEN at.best
                           ELSE f[Later(at, f[Nested(wanted, C, at)])]
            F == [f \in [D -> V] |-> [at \in D |-> Body(f, at)]]
            K == (Cardinality(C) + 2) * (Cardinality(C) + 1)
            rank == [at \in D |-> Rank(C, at)]
<1>1. /\ K \in Nat
      /\ \A at \in D : rank[at] \in Nat /\ rank[at] < K /\ rank[at] = Rank(C, at)
  <2>1. Cardinality(C) \in Nat
    BY SizesAre DEF Numbered
  <2>2. K \in Nat
    BY <2>1
  <2>3. \A at \in D : Rank(C, at) \in Nat /\ Rank(C, at) < K
    BY RankIs
  <2>. HIDE DEF K, D
  <2>. QED  BY <2>2, <2>3
<1>2. \A f \in [D -> V] : \A at \in D : at.todo # {} =>
         /\ Nested(wanted, C, at) \in D /\ rank[Nested(wanted, C, at)] < rank[at]
         /\ f[Nested(wanted, C, at)] \in V
         /\ Later(at, f[Nested(wanted, C, at)]) \in D
         /\ rank[Later(at, f[Nested(wanted, C, at)])] < rank[at]
  <2>1. SUFFICES ASSUME NEW f \in [D -> V], NEW at \in D, at.todo # {}
                 PROVE  /\ Nested(wanted, C, at) \in D /\ rank[Nested(wanted, C, at)] < rank[at]
                        /\ f[Nested(wanted, C, at)] \in V
                        /\ Later(at, f[Nested(wanted, C, at)]) \in D
                        /\ rank[Later(at, f[Nested(wanted, C, at)])] < rank[at]
    OBVIOUS
  <2>2. Nested(wanted, C, at) \in D /\ Rank(C, Nested(wanted, C, at)) < Rank(C, at)
    BY <2>1, RanksFall
  <2>3. \A found \in V : Later(at, found) \in D /\ Rank(C, Later(at, found)) < Rank(C, at)
    BY <2>1, RanksFall
  <2>. HIDE DEF D, V, rank
  <2>. QED  BY <1>1, <2>2, <2>3
<1>3. \A f \in [D -> V] : \A at \in D : Body(f, at) \in V
  <2>1. SUFFICES ASSUME NEW f \in [D -> V], NEW at \in D PROVE Body(f, at) \in V
    OBVIOUS
  <2>2. at.best \in V
    BY DEF Searches
  <2>3. at.todo # {} => Later(at, f[Nested(wanted, C, at)]) \in D
    BY <1>2
  <2>. HIDE DEF D, V
  <2>. QED  BY <2>2, <2>3
<1>4. F \in [[D -> V] -> [D -> V]] /\ \A f \in [D -> V] : \A at \in D : F[f][at] = Body(f, at)
  <2>. HIDE DEF Body, D, V
  <2>. QED  BY <1>3
<1>5. \A f, g \in [D -> V] : \A at \in D :
         (\A y \in D : rank[y] < rank[at] => f[y] = g[y]) => F[f][at] = F[g][at]
  <2>1. SUFFICES ASSUME NEW f \in [D -> V], NEW g \in [D -> V], NEW at \in D,
                        \A y \in D : rank[y] < rank[at] => f[y] = g[y]
                 PROVE  F[f][at] = F[g][at]
    OBVIOUS
  <2>2. at.todo # {} => f[Nested(wanted, C, at)] = g[Nested(wanted, C, at)]
    <3>. HIDE DEF D, V, rank, F
    <3>. QED  BY <1>2, <2>1
  <2>3. at.todo # {} => f[Later(at, f[Nested(wanted, C, at)])] = g[Later(at, f[Nested(wanted, C, at)])]
    <3>. HIDE DEF D, V, rank, F
    <3>. QED  BY <1>2, <2>1
  <2>4. Body(f, at) = Body(g, at)
    BY <2>2, <2>3
  <2>. HIDE DEF D, V, F, Body
  <2>. QED  BY <1>4, <2>4
<1>6. \E f \in [D -> V] : f = F[f]
  <2>1. V # {}
    OBVIOUS
  <2>2. rank \in [D -> Nat]
    BY <1>1
  <2>. HIDE DEF D, V, F, rank, K
  <2>3. GoesDown(D, V, F, rank, K)
    BY <1>1, <1>4, <1>5, <2>1, <2>2 DEF GoesDown
  <2>. QED  BY <2>3, RecursionHasValue
<1>7. PICK f \in [D -> V] : f = F[f]
  BY <1>6
<1>8. f = [at \in D |-> Body(f, at)]
  BY <1>7
<1>. DEFINE search == SearchOf(wanted, C)
<1>9. search = [at \in D |-> Body(search, at)]
  <2>1. \E g : g = [at \in D |-> Body(g, at)]
    BY <1>8
  <2>. QED  BY <2>1 DEF SearchOf
<1>10. \A at \in D : search[at] = Body(search, at)
  <2>. HIDE DEF Body, D, search
  <2>. QED  BY <1>9
<1>. DEFINE S == {k \in Nat : \A at \in D : rank[at] < k => search[at] \in V}
<1>11. 0 \in S
  <2>1. \A at \in D : ~(rank[at] < 0)
    <3>. HIDE DEF D, rank
    <3>. QED  BY <1>1
  <2>. QED  BY <2>1
<1>12. ASSUME NEW k \in Nat, k \in S PROVE k + 1 \in S
  <2>1. ASSUME NEW at \in D, rank[at] < k + 1 PROVE search[at] \in V
    <3>1. CASE at.todo = {}
      BY <1>10, <3>1 DEF Searches
    <3>2. CASE at.todo # {}
      <4>1. Nested(wanted, C, at) \in D /\ Rank(C, Nested(wanted, C, at)) < Rank(C, at)
        BY <3>2, RanksFall
      <4>2. search[Nested(wanted, C, at)] \in V
        <5>. HIDE DEF D, V, rank, search
        <5>1. rank[Nested(wanted, C, at)] < k
          BY <1>1, <2>1, <4>1
        <5>. QED  BY <1>12, <4>1, <5>1
      <4>3. PICK found \in V : found = search[Nested(wanted, C, at)]
        BY <4>2
      <4>4. Later(at, found) \in D /\ Rank(C, Later(at, found)) < Rank(C, at)
        BY <3>2, RanksFall
      <4>5. search[Later(at, found)] \in V
        <5>. HIDE DEF D, V, rank, search
        <5>1. rank[Later(at, found)] < k
          BY <1>1, <2>1, <4>4
        <5>. QED  BY <1>12, <4>4, <5>1
      <4>6. search[at] = search[Later(at, found)]
        <5>. HIDE DEF D, V, search
        <5>. QED  BY <1>10, <3>2, <4>3
      <4>. QED  BY <4>5, <4>6
    <3>. QED  BY <3>1, <3>2
  <2>. HIDE DEF rank, D, V, search
  <2>. QED  BY <2>1
<1>13. K \in S
  <2>. HIDE DEF S
  <2>. QED  BY <1>1, <1>11, <1>12, FromZeroUp
<1>14. \A at \in D : search[at] \in V
  <2>. HIDE DEF rank, D, V, search, K
  <2>. QED  BY <1>1, <1>13
<1>15. search \in [D -> V]
  <2>. HIDE DEF D, V, Body
  <2>1. search = [at \in D |-> search[at]]
    <3>. HIDE DEF search
    <3>. QED  BY <1>9
  <2>. QED  BY <1>14, <2>1
<1>. QED  BY <1>10, <1>15

\* What the search owes wherever it is: a cover no larger than the best it
\* came with, nor than any that goes on by something it still has to try.
Right(wanted, C, at, r) ==
    /\ r \in SUBSET C /\ Covers(wanted, r) /\ Cardinality(r) <= Cardinality(at.best)
    /\ \A p \in at.todo : \A S \in SUBSET C :
          Covers(wanted, S) /\ at.chosen \cup {p} \subseteq S => Cardinality(r) <= Cardinality(S)

\* Then a call is no larger than any cover that goes on from what was chosen.
LEMMA CallIsRight ==
    ASSUME NEW C, Numbered(C), NEW wanted, NEW chosen \in SUBSET C, NEW best \in SUBSET C,
           NEW at, at = Call(wanted, C, chosen, best), NEW r, Right(wanted, C, at, r)
    PROVE  /\ Cardinality(r) <= Cardinality(best)
           /\ \A S \in SUBSET C : Covers(wanted, S) /\ chosen \subseteq S =>
                 Cardinality(r) <= Cardinality(S)
<1>1. at \in Searches(C) /\ Cardinality(at.best) <= Cardinality(best)
  BY CallIs, Zenon
<1>2. at.best \in SUBSET C /\ at.chosen = chosen /\ at.todo = Options(wanted, C, chosen, best)
  BY <1>1 DEF Searches, Call
<1>3. /\ Cardinality(r) \in Nat /\ Cardinality(best) \in Nat /\ Cardinality(at.best) \in Nat
      /\ \A S \in SUBSET C : Cardinality(S) \in Nat
  BY <1>2, SizesAre DEF Numbered, Right
<1>4. Cardinality(r) <= Cardinality(at.best)
  BY DEF Right
<1>5. ASSUME NEW S \in SUBSET C, Covers(wanted, S), chosen \subseteq S
      PROVE  Cardinality(r) <= Cardinality(S)
  <2>1. \/ Cardinality(at.best) <= Cardinality(S)
        \/ \E q \in Options(wanted, C, chosen, best) : chosen \cup {q} \subseteq S
    BY <1>5, NothingLeftOut
  <2>2. CASE Cardinality(at.best) <= Cardinality(S)
    BY <1>3, <1>4, <2>2
  <2>3. CASE \E q \in Options(wanted, C, chosen, best) : chosen \cup {q} \subseteq S
    BY <1>2, <1>5, <2>3 DEF Right
  <2>. QED  BY <2>1, <2>2, <2>3
<1>. QED  BY <1>1, <1>3, <1>4, <1>5

LEMMA SearchIsRight ==
    ASSUME NEW C, Numbered(C), NEW wanted
    PROVE  \A at \in Searches(C) :
              at.chosen \cap at.todo = {} /\ Covers(wanted, at.best) =>
                 Right(wanted, C, at, SearchOf(wanted, C)[at])
<1>. DEFINE D == Searches(C)
            K == (Cardinality(C) + 2) * (Cardinality(C) + 1)
            Good(at) == at.chosen \cap at.todo = {} /\ Covers(wanted, at.best) =>
                           Right(wanted, C, at, SearchOf(wanted, C)[at])
            S == {k \in Nat : \A at \in D : Rank(C, at) < k => Good(at)}
<1>1. K \in Nat /\ \A at \in D : Rank(C, at) \in Nat /\ Rank(C, at) < K
  <2>1. Cardinality(C) \in Nat
    BY SizesAre DEF Numbered
  <2>2. K \in Nat
    BY <2>1
  <2>. QED  BY <2>2, RankIs
<1>2. 0 \in S
  <2>1. \A at \in D : ~(Rank(C, at) < 0)
    BY <1>1
  <2>. QED  BY <2>1
<1>3. ASSUME NEW k \in Nat, k \in S PROVE k + 1 \in S
  <2>1. ASSUME NEW at \in D, Rank(C, at) < k + 1,
               at.chosen \cap at.todo = {}, Covers(wanted, at.best)
        PROVE  Right(wanted, C, at, SearchOf(wanted, C)[at])
    <3>1. at.best \in SUBSET C /\ at.chosen \in SUBSET C /\ at.todo \in SUBSET C
      BY DEF Searches
    <3>2. CASE at.todo = {}
      <4>1. SearchOf(wanted, C)[at] = at.best
        BY <3>2, SearchUnfolds
      <4>2. Cardinality(at.best) \in Nat
        BY <3>1, SizesAre DEF Numbered
      <4>. QED  BY <2>1, <3>1, <3>2, <4>1, <4>2 DEF Right
    <3>3. CASE at.todo # {}
      <4>1. PICK p : p = Min(at.todo)
        OBVIOUS
      <4>2. p \in at.todo /\ Nested(wanted, C, at) \in D
            /\ Rank(C, Nested(wanted, C, at)) < Rank(C, at)
        BY <3>3, <4>1, RanksFall
      <4>3. PICK inner \in D : inner = Nested(wanted, C, at)
        BY <4>2
      <4>4. PICK chosen \in SUBSET C : chosen = at.chosen \cup {p}
        BY <3>1, <4>2
      <4>5. PICK best \in SUBSET C : best = at.best
        BY <3>1
      <4>6. inner = Call(wanted, C, chosen, best)
        BY <4>1, <4>3, <4>4, <4>5 DEF Nested
      <4>7. inner.chosen \cap inner.todo = {} /\ Covers(wanted, inner.best)
        <5>1. inner.chosen = chosen /\ inner.todo = Options(wanted, C, chosen, best)
          BY <4>6 DEF Call
        <5>2. Options(wanted, C, chosen, best) \in SUBSET (C \ chosen)
          BY OptionsAre
        <5>3. Covers(wanted, inner.best)
          BY <2>1, <4>5, <4>6 DEF Call, Covers
        <5>. QED  BY <5>1, <5>2, <5>3
      <4>8. PICK found : found = SearchOf(wanted, C)[inner]
        OBVIOUS
      <4>9. Right(wanted, C, inner, found)
        <5>1. Rank(C, inner) < k
          BY <1>1, <2>1, <4>2, <4>3
        <5>. QED  BY <1>3, <4>7, <4>8, <5>1
      <4>10. /\ found \in SUBSET C /\ Covers(wanted, found) /\ Cardinality(found) <= Cardinality(best)
             /\ \A T \in SUBSET C : Covers(wanted, T) /\ chosen \subseteq T =>
                   Cardinality(found) <= Cardinality(T)
        <5>1. found \in SUBSET C /\ Covers(wanted, found)
          BY <4>9 DEF Right
        <5>2. /\ Cardinality(found) <= Cardinality(best)
              /\ \A T \in SUBSET C : Covers(wanted, T) /\ chosen \subseteq T =>
                    Cardinality(found) <= Cardinality(T)
          BY <4>6, <4>9, CallIsRight
        <5>. QED  BY <5>1, <5>2
      <4>11. PICK on \in D : on = Later(at, found) /\ Rank(C, on) < Rank(C, at)
        BY <3>3, <4>10, RanksFall
      <4>12. on.chosen = at.chosen /\ on.todo = at.todo \ {p} /\ on.best = found
        BY <4>1, <4>11 DEF Later, Searches
      <4>13. PICK r : r = SearchOf(wanted, C)[on]
        OBVIOUS
      <4>14. Right(wanted, C, on, r)
        <5>1. Rank(C, on) < k
          BY <1>1, <2>1, <4>11
        <5>2. on.chosen \cap on.todo = {} /\ Covers(wanted, on.best)
          BY <2>1, <4>10, <4>12
        <5>. QED  BY <1>3, <4>13, <5>1, <5>2
      <4>15. SearchOf(wanted, C)[at] = r
        BY <3>3, <4>3, <4>8, <4>11, <4>13, SearchUnfolds
      <4>16. /\ Cardinality(r) \in Nat /\ Cardinality(found) \in Nat /\ Cardinality(best) \in Nat
             /\ \A T \in SUBSET C : Cardinality(T) \in Nat
        BY <4>10, <4>14, SizesAre DEF Numbered, Right
      <4>17. r \in SUBSET C /\ Covers(wanted, r) /\ Cardinality(r) <= Cardinality(found)
        BY <4>12, <4>14 DEF Right
      <4>18. ASSUME NEW q \in at.todo, NEW T \in SUBSET C,
                    Covers(wanted, T), at.chosen \cup {q} \subseteq T
             PROVE  Cardinality(r) <= Cardinality(T)
        <5>1. CASE q = p
          <6>1. Cardinality(found) <= Cardinality(T)
            BY <4>4, <4>10, <4>18, <5>1
          <6>. QED  BY <4>16, <4>17, <6>1
        <5>2. CASE q # p
          BY <4>12, <4>14, <4>18, <5>2 DEF Right
        <5>. QED  BY <5>1, <5>2
      <4>19. Cardinality(r) <= Cardinality(best)
        BY <4>10, <4>16, <4>17
      <4>20. Right(wanted, C, at, r)
        BY <4>5, <4>17, <4>18, <4>19 DEF Right
      <4>. QED  BY <4>15, <4>20
    <3>. QED  BY <3>2, <3>3
  <2>. QED  BY <2>1
<1>4. K \in S
  <2>. HIDE DEF S
  <2>. QED  BY <1>1, <1>2, <1>3, FromZeroUp
<1>5. \A at \in D : Good(at)
  <2>. HIDE DEF Good, K, D
  <2>. QED  BY <1>1, <1>4
<1>. QED  BY <1>5

\* So the search ends with a smallest cover of what is wanted.
LEMMA SearchCoverIs ==
    ASSUME NEW C, Numbered(C), NEW wanted, NEW greedy \in SUBSET C, Covers(wanted, greedy)
    PROVE  /\ SearchCover(wanted, C, greedy) \in SUBSET C
           /\ Covers(wanted, SearchCover(wanted, C, greedy))
           /\ \A S \in SUBSET C : Covers(wanted, S) =>
                 Cardinality(SearchCover(wanted, C, greedy)) <= Cardinality(S)
<1>1. SearchCover(wanted, C, greedy) = SearchOf(wanted, C)[Call(wanted, C, {}, greedy)]
  BY DEF SearchCover, SearchOf, Later, Nested
<1>2. PICK at : at = Call(wanted, C, {}, greedy)
  OBVIOUS
<1>3. PICK none \in SUBSET C : none = {}
  OBVIOUS
<1>4. at = Call(wanted, C, none, greedy)
  BY <1>2, <1>3
<1>5. at \in Searches(C)
  BY <1>4, CallIs
<1>6. at.chosen \cap at.todo = {} /\ Covers(wanted, at.best)
  BY <1>2 DEF Call, Covers
<1>7. PICK r : r = SearchOf(wanted, C)[at]
  OBVIOUS
<1>8. Right(wanted, C, at, r)
  BY <1>5, <1>6, <1>7, SearchIsRight
<1>9. r \in SUBSET C /\ Covers(wanted, r)
  BY <1>8 DEF Right
<1>10. \A S \in SUBSET C : Covers(wanted, S) /\ none \subseteq S => Cardinality(r) <= Cardinality(S)
  BY <1>4, <1>8, CallIsRight
<1>11. SearchCover(wanted, C, greedy) = r
  BY <1>1, <1>2, <1>7
<1>. QED  BY <1>3, <1>9, <1>10, <1>11

\* What minimumPolicyCover finds, wherever there is something to find: the
\* schedules that make no wanted copy are in no smallest cover.
LEMMA MinimumCoverIs ==
    ASSUME NEW C, Numbered(C), NEW wanted, IsFiniteSet(wanted), Covers(wanted, C)
    PROVE  LET cover == minimumPolicyCover(wanted, C)
           IN  /\ cover \in SUBSET C /\ Covers(wanted, cover)
               /\ \A S \in SUBSET C : Covers(wanted, S) => Cardinality(cover) <= Cardinality(S)
<1>. DEFINE U == {p \in C : Helps(p, wanted) # {}}
<1>1. Numbered(U) /\ U \in SUBSET C
  BY FS_Subset DEF Numbered
<1>2. \A S \in SUBSET C : Covers(wanted, S) => Covers(wanted, S \cap U)
  BY DEF Covers, Uncovered, Helps
<1>3. Covers(wanted, U)
  <2>1. C \cap U = U /\ C \in SUBSET C
    OBVIOUS
  <2>. HIDE DEF U
  <2>. QED  BY <1>2, <2>1
<1>4. minimumPolicyCover(wanted, C) = SearchCover(wanted, U, greedyPolicyCover(wanted, U))
  BY DEF minimumPolicyCover
<1>. HIDE DEF U
<1>5. greedyPolicyCover(wanted, U) \in SUBSET U /\ Covers(wanted, greedyPolicyCover(wanted, U))
  BY <1>1, <1>3, GreedyIs
<1>6. PICK greedy \in SUBSET U : greedy = greedyPolicyCover(wanted, U) /\ Covers(wanted, greedy)
  BY <1>5
<1>7. PICK cover : cover = SearchCover(wanted, U, greedy)
  OBVIOUS
<1>8. /\ cover \in SUBSET U /\ Covers(wanted, cover)
      /\ \A S \in SUBSET U : Covers(wanted, S) => Cardinality(cover) <= Cardinality(S)
  BY <1>1, <1>6, <1>7, SearchCoverIs
<1>9. ASSUME NEW S \in SUBSET C, Covers(wanted, S) PROVE Cardinality(cover) <= Cardinality(S)
  <2>1. PICK T \in SUBSET U : T = S \cap U
    OBVIOUS
  <2>2. Cardinality(cover) <= Cardinality(T)
    BY <1>2, <1>8, <1>9, <2>1
  <2>3. IsFiniteSet(S) /\ T \in SUBSET S /\ cover \in SUBSET C
    BY <1>1, <1>8, <2>1, FS_Subset DEF Numbered
  <2>4. Cardinality(T) <= Cardinality(S) /\ Cardinality(T) \in Nat /\ Cardinality(S) \in Nat
        /\ Cardinality(cover) \in Nat
    BY <2>3, SizesAre DEF Numbered
  <2>. QED  BY <2>2, <2>4
<1>10. cover \in SUBSET C
  BY <1>1, <1>8
<1>. QED  BY <1>4, <1>6, <1>7, <1>8, <1>9, <1>10

-----------------------------------------------------------------------------
(* A removal that is prepared.                                              *)

Preparations == [at: Nat, missing: SUBSET Repos, cover: SUBSET Policies, left: SUBSET Policies]

(* Each schedule of the cover is still to run, or has written every         *)
(* destination it names since; what is running is what its schedule says.   *)
WrittenSince(p) ==
    \E j \in history : j.policy = p /\ j.complete /\ j.repos = policy[p].repos /\ j.at >= prepared.at

PreparedSoFar ==
    /\ prepared \in Preparations
    /\ prepared.cover # {} =>
         /\ prepared.missing # {} /\ prepared.at <= clock
         /\ \A p \in prepared.cover : p \in prepared.left \/ WrittenSince(p)
         /\ running.listed => /\ running.repos = policy[running.policy].repos
                              /\ running.complete <=> policy[running.policy].full

LEMMA NothingPreparedIs == NothingPrepared \in Preparations /\ NothingPrepared.cover = {}
BY DEF NothingPrepared, Preparations

LEMMA PreparedStays ==
    ASSUME RemovalInv, PreparedSoFar, prepared' = prepared, policy' = policy, clock' >= clock, clock' \in Nat,
           history' = history, running' = running \/ running'.listed = FALSE
    PROVE  PreparedSoFar'
<1>1. /\ Preparations' = Preparations /\ prepared.at \in Nat /\ clock \in Nat
      /\ \A p : WrittenSince(p)' <=> WrittenSince(p)
  BY DEF Preparations, Policies, PreparedSoFar, RemovalInv, RemovalTypes, WrittenSince
<1>. QED  BY <1>1 DEF PreparedSoFar

LEMMA PreparationStarts ==
    ASSUME RemovalInv, PreparedSoFar, CoverIsSmallest', QueueRemovalPreparation
    PROVE  PreparedSoFar'
<1>1. PICK cover : /\ prepared' = [at |-> clock, missing |-> Missing, cover |-> cover, left |-> cover]
                   /\ PutJobs(cover)
  BY DEF QueueRemovalPreparation
<1>2. UNCHANGED <<clock, policy, running, history>> /\ ~running.listed
  BY <1>1 DEF QueueRemovalPreparation, PutJobs, RunningJobFor
<1>3. prepared'.cover = cover /\ prepared'.left = cover /\ prepared'.at = clock /\ prepared'.missing = Missing
  BY <1>1
<1>4. Missing # {} /\ cover \subseteq Policies
  BY <1>2, <1>3 DEF CoverIsSmallest, FullPolicies, Policies, QueueRemovalPreparation
<1>5. Missing \subseteq Repos /\ clock \in Nat
  BY DEF Missing, Promised, FullPolicies, fullAccountPolicy, RemovalInv, RemovalTypes, Schedules
<1>6. prepared' \in Preparations /\ Preparations' = Preparations
  BY <1>1, <1>2, <1>4, <1>5 DEF Preparations, Policies
<1>. QED  BY <1>2, <1>3, <1>4, <1>5, <1>6 DEF PreparedSoFar

LEMMA PreparedRuns ==
    ASSUME RemovalInv, PreparedSoFar, NEW p \in Policies, runBackup(p)
    PROVE  PreparedSoFar'
<1>1. UNCHANGED <<clock, policy, history>> /\ Preparations' = Preparations
  BY DEF runBackup, Preparations, Policies
<1>2. CASE present
  <2>1. /\ running' = [policy |-> p, repos |-> policy[p].repos, complete |-> policy[p].full,
                       holder |-> holder, listed |-> TRUE]
        /\ prepared' = prepared
    BY <1>2 DEF runBackup
  <2>2. running'.repos = policy[p].repos /\ running'.policy = p /\ running'.complete = policy[p].full
    BY <2>1
  <2>3. \A q : WrittenSince(q)' <=> WrittenSince(q)
    BY <1>1, <2>1 DEF WrittenSince
  <2>. QED  BY <1>1, <2>1, <2>2, <2>3 DEF PreparedSoFar
<1>3. CASE ~present
  BY <1>1, <1>3, NothingPreparedIs DEF runBackup, PreparedSoFar
<1>. QED  BY <1>2, <1>3

LEMMA PreparedRunEnds ==
    ASSUME RemovalInv, PreparedSoFar, CoverIsSmallest, RunJob
    PROVE  PreparedSoFar'
<1>. DEFINE j == [policy |-> running.policy, at |-> clock, repos |-> running.repos, complete |-> running.complete,
               holder |-> running.holder]
<1>1. /\ running' = NoJob /\ UNCHANGED <<clock, policy>> /\ Preparations' = Preparations
      /\ \/ prepared' = NothingPrepared
         \/ /\ history' = history \cup {j}
            /\ prepared' = [prepared EXCEPT !.left = IF running.listed THEN @ \ {running.policy} ELSE @]
  BY DEF RunJob, account, Preparations, Policies
<1>2. j.policy = running.policy /\ j.at = clock /\ j.repos = running.repos /\ (j.complete <=> running.complete)
  OBVIOUS
<1>. HIDE DEF j
<1>3. CASE prepared' = NothingPrepared
  BY <1>1, <1>3, NothingPreparedIs DEF PreparedSoFar
<1>4. CASE /\ history' = history \cup {j}
           /\ prepared' = [prepared EXCEPT !.left = IF running.listed THEN @ \ {running.policy} ELSE @]
  <2>1. /\ prepared' \in Preparations /\ prepared'.at = prepared.at /\ prepared'.cover = prepared.cover
        /\ prepared'.missing = prepared.missing
        /\ prepared'.left = IF running.listed THEN prepared.left \ {running.policy} ELSE prepared.left
    <3>1. prepared \in Preparations
      BY DEF PreparedSoFar
    <3>. QED  BY <1>1, <1>4, <3>1 DEF Preparations
  <2>2. ASSUME NEW p \in prepared.cover, p \notin prepared'.left PROVE WrittenSince(p)'
    <3>1. CASE WrittenSince(p)
      BY <1>1, <1>4, <2>1, <3>1 DEF WrittenSince
    <3>2. CASE p \in prepared.left
      <4>1. running.listed /\ p = running.policy
        BY <2>1, <2>2, <3>2
      <4>2. policy[p].full /\ running.repos = policy[p].repos /\ running.complete
        BY <4>1, <2>2 DEF CoverIsSmallest, FullPolicies, fullAccountPolicy, PreparedSoFar
      <4>3. prepared.at <= clock
        BY <2>2 DEF PreparedSoFar
      <4>. QED  BY <1>1, <1>2, <1>4, <2>1, <4>1, <4>2, <4>3 DEF WrittenSince
    <3>. QED  BY <2>2, <3>1, <3>2 DEF PreparedSoFar
  <2>3. prepared.cover # {} => prepared.missing # {} /\ prepared.at <= clock
    BY DEF PreparedSoFar
  <2>. QED  BY <1>1, <2>1, <2>2, <2>3, NoJobIs DEF PreparedSoFar
<1>. QED  BY <1>1, <1>3, <1>4

LEMMA PreparedStep ==
    ASSUME RemovalInv, PreparedSoFar, CoverIsSmallest, CoverIsSmallest', [RemovalNext]_removalVars
    PROVE  PreparedSoFar'
<1>0. clock \in Nat /\ Policies = DOMAIN policy
  BY DEF RemovalInv, RemovalTypes, Policies
<1>1. CASE Crash
  <2>1. running' = NoJob /\ UNCHANGED <<clock, policy, history>>
    BY <1>1 DEF Crash
  <2>2. prepared' = prepared \/ prepared' = NothingPrepared
    BY <1>1 DEF Crash
  <2>3. CASE prepared' = prepared
    <3>1. running'.listed = FALSE /\ clock' >= clock /\ clock' \in Nat
      BY <1>0, <2>1, NoJobIs
    <3>. QED  BY <2>1, <2>3, <3>1, PreparedStays
  <2>4. CASE prepared' = NothingPrepared
    BY <2>1, <2>4, NothingPreparedIs DEF PreparedSoFar, Preparations, Policies
  <2>. QED  BY <2>2, <2>3, <2>4
<1>2. CASE handleSaveSchedule
  <2>1. prepared' = NothingPrepared /\ prepared'.cover = {}
    BY <1>2, NothingPreparedIs DEF handleSaveSchedule
  <2>2. NothingPrepared \in Preparations'
    BY DEF NothingPrepared, Preparations
  <2>. QED  BY <2>1, <2>2 DEF PreparedSoFar
<1>3. CASE ForgetAccount
  <2>1. prepared' = NothingPrepared /\ prepared'.cover = {}
    BY <1>3, NothingPreparedIs DEF ForgetAccount
  <2>2. NothingPrepared \in Preparations'
    BY DEF NothingPrepared, Preparations
  <2>. QED  BY <2>1, <2>2 DEF PreparedSoFar
<1>4. CASE \/ QueueBackup \/ QueueSuspensionBackup \/ RemovePre \/ AccountRemoved \/ AccountCreated
           \/ handleForgetAccount \/ sweepDeletedAccounts \/ ForgetSnapshots \/ Tick \/ UNCHANGED removalVars
  <2>1. UNCHANGED <<policy, prepared, history, running>> /\ (clock' = clock \/ clock' = clock + 1)
    BY <1>4 DEF QueueBackup, QueueSuspensionBackup, RemovePre, AccountRemoved, AccountCreated, PutJobs,
           handleForgetAccount, sweepDeletedAccounts, BeginForget, ForgetSnapshots, Tick, removalVars, queue
  <2>. QED  BY <1>0, <2>1, PreparedStays
<1>. QED  BY <1>1, <1>2, <1>3, <1>4, PreparationStarts, PreparedRuns, PreparedRunEnds DEF RemovalNext

\* The schedules are a finite list, edited in place.
Listed == IsFiniteSet(Policies) /\ Policies \subseteq Nat

\* A preparation begins with a smallest cover, because every missing copy is
\* one that a full schedule makes.
LEMMA SmallestIsQueued ==
    ASSUME RemovalInv, Listed, QueueRemovalPreparation
    PROVE  CoverIsSmallest'
<1>1. PICK cover : /\ cover = minimumPolicyCover(Missing, FullPolicies)
                   /\ prepared' = [at |-> clock, missing |-> Missing, cover |-> cover, left |-> cover]
  BY DEF QueueRemovalPreparation, Candidates
<1>2. PICK wanted : wanted = Missing
  OBVIOUS
<1>3. PICK full : full = FullPolicies
  OBVIOUS
<1>4. Numbered(full)
  BY <1>3, FS_Subset DEF Numbered, Listed, FullPolicies
<1>5. IsFiniteSet(wanted)
  <2>1. Missing \subseteq Repos
    BY DEF Missing, Promised, FullPolicies, fullAccountPolicy, RemovalInv, RemovalTypes, Schedules
  <2>. QED  BY <1>2, <2>1, FS_Subset, TerminationAssumption
<1>6. Covers(wanted, full)
  BY <1>2, <1>3 DEF Covers, Uncovered, Missing, Promised
<1>7. cover = minimumPolicyCover(wanted, full)
  BY <1>1, <1>2, <1>3
<1>8. /\ cover \in SUBSET full /\ Covers(wanted, cover)
      /\ \A S \in SUBSET full : Covers(wanted, S) => Cardinality(cover) <= Cardinality(S)
  BY <1>4, <1>5, <1>6, <1>7, MinimumCoverIs
<1>9. policy' = policy
  BY DEF QueueRemovalPreparation
<1>10. FullPolicies' = full /\ \A S : Uncovered(wanted, S)' = Uncovered(wanted, S)
  BY <1>3, <1>9 DEF FullPolicies, fullAccountPolicy, Policies, Uncovered
<1>11. prepared'.missing = wanted /\ prepared'.cover = cover
  BY <1>1, <1>2
<1>12. /\ Cardinality(cover) \in Nat /\ \A S \in SUBSET full : Cardinality(S) \in Nat
  BY <1>4, <1>8, SizesAre DEF Numbered
<1>. QED  BY <1>8, <1>10, <1>11, <1>12 DEF CoverIsSmallest, Covers

\* Nothing else touches what a preparation is of, or the schedules under it.
LEMMA CoverStays ==
    ASSUME RemovalInv, PreparedSoFar, CoverIsSmallest, [RemovalNext]_removalVars,
           ~QueueRemovalPreparation
    PROVE  CoverIsSmallest'
<1>1. ASSUME policy' = policy, prepared'.missing = prepared.missing, prepared'.cover = prepared.cover
      PROVE  CoverIsSmallest'
  <2>1. FullPolicies' = FullPolicies
    BY <1>1 DEF FullPolicies, fullAccountPolicy, Policies
  <2>2. \A wanted, S : Uncovered(wanted, S)' = Uncovered(wanted, S)
    BY <1>1 DEF Uncovered
  <2>. QED  BY <1>1, <2>1, <2>2 DEF CoverIsSmallest
<1>2. CASE prepared' = NothingPrepared
  BY <1>2 DEF CoverIsSmallest, NothingPrepared
<1>3. CASE RunJob
  <2>1. prepared \in Preparations /\ policy' = policy
    BY <1>3 DEF PreparedSoFar, RunJob
  <2>2. \/ prepared' = NothingPrepared
        \/ prepared'.missing = prepared.missing /\ prepared'.cover = prepared.cover
    BY <1>3, <2>1 DEF RunJob, Preparations
  <2>. QED  BY <1>1, <1>2, <2>1, <2>2
<1>4. CASE ~RunJob
  <2>1. prepared' = NothingPrepared \/ (policy' = policy /\ prepared' = prepared)
    BY <1>4 DEF RemovalNext, QueueBackup, QueueSuspensionBackup, runBackup, Crash, RemovePre, AccountRemoved,
           AccountCreated, handleForgetAccount, sweepDeletedAccounts, ForgetSnapshots, ForgetAccount,
           handleSaveSchedule, Tick, removalVars
  <2>. QED  BY <1>1, <1>2, <2>1
<1>. QED  BY <1>3, <1>4

LEMMA ListedStays == RemovalInv /\ RemovalInv' /\ Listed /\ [RemovalNext]_removalVars => Listed'
<1>. SUFFICES ASSUME RemovalInv, Listed, [RemovalNext]_removalVars PROVE Policies' = Policies
  BY DEF Listed
<1>1. CASE handleSaveSchedule
  BY <1>1 DEF handleSaveSchedule, Policies, RemovalInv, RemovalTypes
<1>2. CASE ~handleSaveSchedule
  <2>1. policy' = policy
    BY <1>2 DEF RemovalNext, QueueBackup, QueueRemovalPreparation, QueueSuspensionBackup, runBackup, RunJob, Crash,
           RemovePre, AccountRemoved, AccountCreated, handleForgetAccount, sweepDeletedAccounts, ForgetSnapshots,
           ForgetAccount, Tick, removalVars
  <2>. QED  BY <2>1 DEF Policies
<1>. QED  BY <1>1, <1>2

PreparationInv == Listed /\ PreparedSoFar /\ CoverIsSmallest

LEMMA PreparationInvHolds == RemovalSpec => []PreparationInv
<1>1. RemovalInit => PreparationInv
  <2>. SUFFICES ASSUME RemovalInit PROVE PreparationInv
    OBVIOUS
  <2>1. Listed
    BY TerminationAssumption DEF RemovalInit, Listed, Policies
  <2>2. PreparedSoFar
    BY NothingPreparedIs DEF RemovalInit, PreparedSoFar
  <2>3. CoverIsSmallest
    BY DEF RemovalInit, CoverIsSmallest, NothingPrepared
  <2>. QED  BY <2>1, <2>2, <2>3 DEF PreparationInv
<1>2. RemovalInv /\ RemovalInv' /\ PreparationInv /\ [RemovalNext]_removalVars => PreparationInv'
  <2>. SUFFICES ASSUME RemovalInv, RemovalInv', PreparationInv, [RemovalNext]_removalVars
                PROVE  PreparationInv'
    OBVIOUS
  <2>1. Listed /\ PreparedSoFar /\ CoverIsSmallest
    BY DEF PreparationInv
  <2>2. CoverIsSmallest'
    BY <2>1, SmallestIsQueued, CoverStays
  <2>3. PreparedSoFar'
    BY <2>1, <2>2, PreparedStep
  <2>4. Listed'
    BY <2>1, ListedStays
  <2>. QED  BY <2>2, <2>3, <2>4 DEF PreparationInv
<1>. QED  BY <1>1, <1>2, RemovalInvHolds, PTL DEF RemovalSpec

(* What a preparation queues is a smallest set of full schedules that makes  *)
(* every missing copy, for any schedules: minimumPolicyCover's greedy start   *)
(* is a cover, and its branch and bound passes over nothing that is smaller. *)
THEOREM CoversAreSmallest == RemovalSpec => []CoverIsSmallest
<1>1. PreparationInv => CoverIsSmallest
  BY DEF PreparationInv
<1>. QED  BY <1>1, PreparationInvHolds, PTL

(* The removal a preparation is for is safe once all that it queued has      *)
(* succeeded, until the copies are due again.                                *)
THEOREM PreparedIsEnough == RemovalSpec => []PreparationSuffices
<1>1. RemovalInv /\ PreparedSoFar /\ CoverIsSmallest => PreparationSuffices
  <2>. SUFFICES ASSUME RemovalInv, PreparedSoFar, CoverIsSmallest, prepared.cover # {}, prepared.left = {},
                       NEW r \in prepared.missing, clock <= prepared.at + Due(r), r \in Missing
                PROVE  FALSE
    BY DEF PreparationSuffices
  <2>1. PICK p \in prepared.cover : r \in policy[p].repos /\ p \in FullPolicies
    BY DEF CoverIsSmallest, Uncovered
  <2>2. PICK j \in history : j.policy = p /\ j.complete /\ r \in j.repos /\ j.at >= prepared.at
    BY <2>1 DEF PreparedSoFar, WrittenSince
  <2>3. r \in Promised /\ clock > j.at + Due(r)
    BY <2>1, <2>2 DEF Missing, Counts
  <2>4. Due(r) \in Nat /\ j.at \in Nat /\ clock \in Nat /\ prepared.at \in Nat
    BY <2>3, DueIsOne DEF RemovalInv, RemovalTypes, Successes, PreparedSoFar, Preparations
  <2>. QED  BY <2>2, <2>3, <2>4
<1>2. PreparationInv => PreparedSoFar /\ CoverIsSmallest
  BY DEF PreparationInv
<1>. QED  BY <1>1, <1>2, RemovalInvHolds, PreparationInvHolds, PTL
=============================================================================
