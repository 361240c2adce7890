---------------------------- MODULE StagingProofs ----------------------------
(* What holds of the staging volume for every set of accounts and restores, *)
(* whatever the accounts are called and wherever the process dies.          *)
EXTENDS Staging, SequenceTheorems, TLAPS

(* Only archives and items are left for somebody to collect.                *)
Kept(r) == KindOf[r] \in {"account", "items"}

(* The worker has one thing to do, and nothing once the process is gone.    *)
OneTask ==
    /\ ~ up => task = Idle
    /\ task.at = "idle" => task = Idle
    /\ task.at = "work" => task.backup \in Accounts /\ task.restore = Nothing
    /\ task.at \notin {"idle", "work"} => task.backup = Nothing /\ task.restore \in Restores
    /\ task.at \in {"apply", "keep", "kept"} => Kept(task.restore)

(* Exactly what the worker is working in is staged while the process runs.  *)
StagedIsWorkedIn ==
    up => stage = CASE task.at = "work" -> {BackupKey(task.backup)}
                    [] task.at \in {"stage", "apply", "keep"} -> {RestoreKey(task.restore)}
                    [] OTHER -> {}

(* Kept output lies under its restore's key, and so does a stored archive.  *)
KeptUnderItsKey ==
    /\ \A o \in keep : Kept(o.of) /\ o.key = RestoreKey(o.of)
    /\ \A r \in Restores : record[r].archive # <<>> =>
          Kept(r) /\ record[r].archive = RestoreKey(r)

StagingInv == TypeOK /\ OneTask /\ StagedIsWorkedIn /\ KeptUnderItsKey /\ SupersedesItsOwn

-----------------------------------------------------------------------------
(* Directory names                                                          *)

Tag(r) == IF KindOf[r] = "items" THEN "items-" ELSE "restore-"
Name(r) == NameOf[AccountOf[r]]

(* What a key is made of.                                                   *)
Parts == STRING \cup {"items-", "restore-", "@"} \cup Restores

(* No character of a name is the separator.                                 *)
LEMMA NameHasNoSeparator ==
    ASSUME NEW r \in Restores
    PROVE  /\ AccountOf[r] \in Accounts /\ Name(r) \in Seq(STRING) /\ Len(Name(r)) \in Nat
           /\ \A i \in 1..Len(Name(r)) : Name(r)[i] # "@"
<1>1. AccountOf[r] \in Accounts /\ Name(r) \in Seq(STRING)
  BY StagingAssumption DEF Name
<1>2. "@" \notin Range(Name(r))
  BY <1>1, StagingAssumption DEF Name
<1>3. DOMAIN Name(r) = 1..Len(Name(r)) /\ Len(Name(r)) \in Nat
  BY <1>1
<1>. QED  BY <1>1, <1>2, <1>3 DEF Range

(* One element put at the end of a sequence.                                *)
LEMMA EndsWith ==
    ASSUME NEW T, NEW s \in Seq(T), NEW e \in T
    PROVE  /\ s \o <<e>> \in Seq(T) /\ Len(s \o <<e>>) = Len(s) + 1 /\ Len(s) \in Nat
           /\ \A i \in 1..Len(s) : (s \o <<e>>)[i] = s[i]
           /\ (s \o <<e>>)[Len(s) + 1] = e
<1>1. <<e>> \in Seq(T) /\ Len(<<e>>) = 1 /\ <<e>>[1] = e /\ Len(s) \in Nat
  OBVIOUS
<1>2. /\ s \o <<e>> \in Seq(T)
      /\ Len(s \o <<e>>) = Len(s) + Len(<<e>>)
      /\ \A i \in 1..(Len(s) + Len(<<e>>)) :
            (s \o <<e>>)[i] = IF i <= Len(s) THEN s[i] ELSE <<e>>[i - Len(s)]
  BY <1>1, ConcatProperties
<1>. DEFINE u == s \o <<e>>  n == Len(s)  o == <<e>>
<1>3. /\ n \in Nat /\ Len(o) = 1 /\ o[1] = e /\ u \in Seq(T) /\ Len(u) = n + 1
      /\ \A i \in 1..(n + 1) : u[i] = IF i <= n THEN s[i] ELSE o[i - n]
  BY <1>1, <1>2
<1>. HIDE DEF u, n, o
<1>4. /\ u \in Seq(T) /\ Len(u) = n + 1 /\ n \in Nat
      /\ (\A i \in 1..n : u[i] = s[i]) /\ u[n + 1] = e
  BY <1>3
<1>. QED  BY <1>4 DEF u, n

(* One element put before a sequence.                                       *)
LEMMA BeginsWith ==
    ASSUME NEW T, NEW s \in Seq(T), NEW e \in T
    PROVE  /\ <<e>> \o s \in Seq(T) /\ Len(<<e>> \o s) = Len(s) + 1
           /\ \A i \in 1..Len(s) : (<<e>> \o s)[i + 1] = s[i]
           /\ (<<e>> \o s)[1] = e
<1>1. <<e>> \in Seq(T) /\ Len(<<e>>) = 1 /\ <<e>>[1] = e /\ Len(s) \in Nat
  OBVIOUS
<1>2. /\ <<e>> \o s \in Seq(T)
      /\ Len(<<e>> \o s) = Len(<<e>>) + Len(s)
      /\ \A i \in 1..(Len(<<e>>) + Len(s)) :
            (<<e>> \o s)[i] = IF i <= Len(<<e>>) THEN <<e>>[i] ELSE s[i - Len(<<e>>)]
  BY <1>1, ConcatProperties
<1>. DEFINE u == <<e>> \o s  n == Len(s)  o == <<e>>
<1>3. /\ n \in Nat /\ o[1] = e /\ u \in Seq(T) /\ Len(u) = 1 + n
      /\ \A i \in 1..(1 + n) : u[i] = IF i <= 1 THEN o[i] ELSE s[i - 1]
  BY <1>1, <1>2
<1>. HIDE DEF u, n, o
<1>4. /\ u \in Seq(T) /\ Len(u) = n + 1 /\ u[1] = e
      /\ \A i \in 1..n : u[i + 1] = s[i]
  <2>1. ASSUME NEW i \in 1..n PROVE u[i + 1] = s[i]
    <3>1. i + 1 \in 1..(1 + n) /\ ~ (i + 1 <= 1) /\ (i + 1) - 1 = i
      BY <1>3
    <3>. QED  BY <1>3, <3>1
  <2>. QED  BY <1>3, <2>1
<1>. QED  BY <1>4 DEF u, n

(* What a group's name consists of.                                         *)
LEMMA GroupIs ==
    ASSUME NEW r \in Restores
    PROVE  /\ Group(r) \in Seq(Parts) /\ Len(Group(r)) = Len(Name(r)) + 2
           /\ Group(r)[1] = Tag(r)
           /\ \A i \in 1..Len(Name(r)) : Group(r)[i + 1] = Name(r)[i]
           /\ Group(r)[Len(Name(r)) + 2] = "@"
<1>. DEFINE n == Name(r)  h == <<Tag(r)>> \o n
<1>1. n \in Seq(Parts) /\ Len(n) \in Nat
  <2>1. STRING \subseteq Parts
    BY DEF Parts
  <2>. QED  BY <2>1, NameHasNoSeparator, SeqMonotonic
<1>2. Tag(r) \in Parts /\ "@" \in Parts
  BY DEF Tag, Parts
<1>3. Group(r) = h \o <<"@">>
  BY DEF Group, Tag, Name
<1>. HIDE DEF n
<1>4. /\ h \in Seq(Parts) /\ Len(h) = Len(n) + 1 /\ h[1] = Tag(r)
      /\ \A i \in 1..Len(n) : h[i + 1] = n[i]
  BY <1>1, <1>2, BeginsWith
<1>. HIDE DEF h
<1>5. /\ h \o <<"@">> \in Seq(Parts) /\ Len(h \o <<"@">>) = Len(h) + 1
      /\ (\A i \in 1..Len(h) : (h \o <<"@">>)[i] = h[i])
      /\ (h \o <<"@">>)[Len(h) + 1] = "@"
  BY <1>2, <1>4, EndsWith
<1>6. /\ Group(r) \in Seq(Parts) /\ Len(Group(r)) = Len(h) + 1
      /\ (\A i \in 1..Len(h) : Group(r)[i] = h[i]) /\ Group(r)[Len(h) + 1] = "@"
  BY <1>3, <1>5
<1>. QED  BY <1>1, <1>4, <1>6 DEF n

(* A restore that is not a rehearsal has its own id at the end of its key.  *)
LEMMA KeyIs ==
    ASSUME NEW r \in Restores, KindOf[r] # "verify"
    PROVE  /\ RestoreKey(r) \in Seq(Parts)
           /\ Len(RestoreKey(r)) = Len(Group(r)) + 1 /\ Len(Group(r)) \in Nat
           /\ \A i \in 1..Len(Group(r)) : RestoreKey(r)[i] = Group(r)[i]
           /\ RestoreKey(r)[Len(RestoreKey(r))] = r
<1>1. Group(r) \in Seq(Parts) /\ r \in Parts
  BY GroupIs DEF Parts
<1>2. RestoreKey(r) = Group(r) \o <<r>>
  BY DEF RestoreKey
<1>. QED  BY <1>1, <1>2, EndsWith

(* Two restores never share a directory.                                    *)
LEMMA KeysAreApart ==
    ASSUME NEW r \in Restores, NEW s \in Restores, KindOf[r] # "verify", KindOf[s] # "verify",
           RestoreKey(r) = RestoreKey(s)
    PROVE  r = s
BY KeyIs

(* A name that starts like another account's is told apart by where its     *)
(* separator stands.                                                        *)
LEMMA PrefixIsOfItsOwn ==
    ASSUME NEW r \in Restores, NEW s \in Restores, KindOf[s] # "verify",
           IsPrefix(Group(r), RestoreKey(s))
    PROVE  AccountOf[r] = AccountOf[s] /\ (KindOf[r] = "items") = (KindOf[s] = "items")
<1>. DEFINE n == Len(Name(r))  m == Len(Name(s))
<1>1. n \in Nat /\ m \in Nat
  BY NameHasNoSeparator
<1>2. Group(r) \in Seq(Parts) /\ Len(Group(r)) = n + 2
      /\ RestoreKey(s) \in Seq(Parts) /\ Len(RestoreKey(s)) = m + 3
  BY <1>1, GroupIs, KeyIs
<1>3. n + 2 <= m + 3
  BY <1>2 DEF IsPrefix
<1>4. \A i \in 1..(n + 2) : Group(r)[i] = RestoreKey(s)[i]
  <2>. DEFINE g == Group(r)  k == RestoreKey(s)
  <2>1. SubSeq(g, 1, Len(g)) = SubSeq(k, 1, Len(g)) /\ Len(g) = n + 2 /\ Len(k) = m + 3
        /\ g \in Seq(Parts) /\ k \in Seq(Parts)
    BY <1>2 DEF IsPrefix
  <2>. HIDE DEF g, k, n, m
  <2>2. \A i \in 1..(n + 2) : g[i] \in Parts /\ k[i] \in Parts
    BY <1>1, <1>3, <2>1, ElementOfSeq
  <2>3. \A i \in 1..((n + 2) - 1 + 1) : SubSeq(g, 1, n + 2)[i] = g[1 + i - 1]
    BY <1>1, <2>2, SubSeqProperties
  <2>4. \A i \in 1..((n + 2) - 1 + 1) : SubSeq(k, 1, n + 2)[i] = k[1 + i - 1]
    BY <1>1, <2>2, SubSeqProperties
  <2>5. ASSUME NEW i \in 1..(n + 2) PROVE g[i] = k[i]
    <3>1. i \in 1..((n + 2) - 1 + 1) /\ 1 + i - 1 = i
      BY <1>1
    <3>. QED  BY <2>1, <2>3, <2>4, <3>1
  <2>. QED  BY <2>5 DEF g, k
<1>5. \A i \in 1..(m + 2) : RestoreKey(s)[i] = Group(s)[i]
  BY <1>1, GroupIs, KeyIs
<1>6. Group(r)[1] = Group(s)[1]
  BY <1>1, <1>4, <1>5
<1>7. Tag(r) = Tag(s)
  BY <1>6, GroupIs
<1>8. n = m
  <2>1. ASSUME n < m PROVE FALSE
    <3>1. n + 1 \in 1..m /\ n + 2 \in 1..(n + 2) /\ n + 2 \in 1..(m + 2) /\ (n + 1) + 1 = n + 2
      BY <1>1, <2>1
    <3>2. Group(s)[n + 2] = Name(s)[n + 1]
      BY <3>1, GroupIs
    <3>3. Group(r)[n + 2] = "@"
      BY GroupIs
    <3>. QED  BY <1>4, <1>5, <3>1, <3>2, <3>3, NameHasNoSeparator
  <2>2. ASSUME n = m + 1 PROVE FALSE
    <3>1. m + 1 \in 1..n /\ m + 2 \in 1..(n + 2) /\ m + 2 \in 1..(m + 2) /\ (m + 1) + 1 = m + 2
      BY <1>1, <2>2
    <3>2. Group(r)[m + 2] = Name(r)[m + 1]
      BY <3>1, GroupIs
    <3>3. Group(s)[m + 2] = "@"
      BY GroupIs
    <3>. QED  BY <1>4, <1>5, <3>1, <3>2, <3>3, NameHasNoSeparator
  <2>. QED  BY <1>1, <1>3, <2>1, <2>2
<1>9. \A i \in 1..n : Name(r)[i] = Name(s)[i]
  <2>1. ASSUME NEW i \in 1..n PROVE Name(r)[i] = Name(s)[i]
    <3>1. i + 1 \in 1..(n + 2) /\ i + 1 \in 1..(m + 2) /\ i \in 1..m
      BY <1>1, <1>8
    <3>2. Group(r)[i + 1] = Name(r)[i] /\ Group(s)[i + 1] = Name(s)[i]
      BY <3>1, GroupIs
    <3>. QED  BY <1>4, <1>5, <3>1, <3>2
  <2>. QED  BY <2>1
<1>10. Name(r) = Name(s)
  <2>1. Name(r) \in Seq(STRING) /\ Name(s) \in Seq(STRING)
    BY NameHasNoSeparator
  <2>2. Name(r) = [i \in 1..n |-> Name(r)[i]] /\ Name(s) = [i \in 1..m |-> Name(s)[i]]
    BY <2>1
  <2>. QED  BY <1>8, <1>9, <2>2
<1>11. AccountOf[r] = AccountOf[s]
  BY <1>10, NameHasNoSeparator, StagingAssumption DEF Name
<1>. QED  BY <1>7, <1>11 DEF Tag

-----------------------------------------------------------------------------
(* Every step keeps the invariant                                           *)

LEMMA KeyIsKey ==
    /\ \A a \in Accounts : BackupKey(a) \in Keys
    /\ \A r \in Restores : RestoreKey(r) \in Keys
BY DEF Keys

LEMMA InitEstablishes == Init => StagingInv
<1>. SUFFICES ASSUME Init PROVE StagingInv
  OBVIOUS
<1>. USE DEF Init
<1>1. TypeOK
  BY StagingAssumption DEF TypeOK, Tasks, Records, Idle, Fresh
<1>2. OneTask /\ StagedIsWorkedIn /\ KeptUnderItsKey /\ SupersedesItsOwn
  BY DEF OneTask, StagedIsWorkedIn, KeptUnderItsKey, SupersedesItsOwn, Idle, Fresh
<1>. QED  BY <1>1, <1>2 DEF StagingInv

(* A report ends a restore that was in the worker's hands.                  *)
LEMMA ReportKeeps ==
    ASSUME StagingInv, NEW r \in Restores, NEW st \in {"success", "failed"},
           NEW archive \in Keys \cup {<<>>}, NEW applied \in BOOLEAN,
           archive # <<>> => Kept(r) /\ archive = RestoreKey(r),
           Report(r, st, archive, applied)
    PROVE  /\ task' = Idle
           /\ record' \in [Restores -> Records]
           /\ \A s \in Restores : record'[s].archive # <<>> =>
                 Kept(s) /\ record'[s].archive = RestoreKey(s)
<1>. DEFINE q == Stored(st, archive, applied)
<1>1. task' = Idle /\ record' = [record EXCEPT ![r] = q]
  BY DEF Report
<1>2. q \in Records /\ q.archive = archive
  BY DEF Stored, Records
<1>3. record \in [Restores -> Records]
  BY DEF StagingInv, TypeOK
<1>4. \A s \in Restores : record[s].archive # <<>> => Kept(s) /\ record[s].archive = RestoreKey(s)
  BY DEF StagingInv, KeptUnderItsKey
<1>. HIDE DEF q
<1>. QED  BY <1>1, <1>2, <1>3, <1>4

(* A restore that fails is recorded, and the worker is free.                *)
LEMMA FailKeeps ==
    ASSUME StagingInv, NEW r \in Restores, Fail(r)
    PROVE  /\ task' = Idle
           /\ record' \in [Restores -> Records]
           /\ \A s \in Restores : record'[s].archive # <<>> =>
                 Kept(s) /\ record'[s].archive = RestoreKey(s)
<1>. QED  BY ReportKeeps DEF Fail

LEMMA IdleIs ==
    /\ Idle.at = "idle" /\ Idle.backup = Nothing /\ Idle.restore = Nothing
    /\ Idle \in Tasks
BY DEF Idle, Tasks

(* Where the worker is in a restore.                                        *)
LEMMA RestoringIs ==
    ASSUME NEW r \in Restores,
           NEW at \in {"resolve", "allocate", "stage", "apply", "keep", "kept"}
    PROVE  /\ Restoring(r, at).at = at /\ Restoring(r, at).backup = Nothing
           /\ Restoring(r, at).restore = r
           /\ Restoring(r, at) \in Tasks
BY DEF Restoring, Tasks

(* The steps of a backup.                                                   *)
LEMMA BackupKeeps ==
    ASSUME StagingInv, (\E a \in Accounts : StageAccount(a)) \/ FinishBackup
    PROVE  StagingInv'
<1>. USE DEF StagingInv
<1>0. UNCHANGED <<fleet, up, keep, record, touched, delivered, discarded, crashes>>
  BY DEF StageAccount, FinishBackup
<1>1. KeptUnderItsKey' /\ SupersedesItsOwn'
  BY <1>0 DEF KeptUnderItsKey, SupersedesItsOwn
<1>2. ASSUME NEW a \in Accounts, StageAccount(a)
      PROVE  TypeOK' /\ OneTask' /\ StagedIsWorkedIn'
  <2>1. /\ up /\ task.at = "idle" /\ stage' = stage \cup {BackupKey(a)} /\ task' = Backing(a)
    BY <1>2 DEF StageAccount, Free
  <2>2. task'.at = "work" /\ task'.backup = a /\ task'.restore = Nothing
        /\ task' \in Tasks
    BY <2>1 DEF Backing, Tasks
  <2>3. TypeOK'
    BY <1>0, <2>1, <2>2, KeyIsKey DEF TypeOK
  <2>4. OneTask'
    BY <1>0, <2>1, <2>2 DEF OneTask
  <2>5. stage = {}
    BY <2>1 DEF StagedIsWorkedIn
  <2>6. StagedIsWorkedIn'
    BY <1>0, <2>1, <2>2, <2>5 DEF StagedIsWorkedIn
  <2>. QED  BY <2>3, <2>4, <2>6
<1>3. CASE FinishBackup
  <2>1. up /\ task.backup # Nothing /\ stage' = stage \ {BackupKey(task.backup)} /\ task' = Idle
    BY <1>3 DEF FinishBackup
  <2>2. task.at = "work"
    BY <2>1, IdleIs DEF OneTask
  <2>3. stage = {BackupKey(task.backup)}
    BY <2>1, <2>2 DEF StagedIsWorkedIn
  <2>4. TypeOK' /\ OneTask' /\ StagedIsWorkedIn'
    <3>1. TypeOK'
      BY <1>0, <2>1, IdleIs DEF TypeOK
    <3>2. OneTask'
      BY <2>1, IdleIs DEF OneTask
    <3>3. StagedIsWorkedIn'
      BY <2>1, <2>3, IdleIs DEF StagedIsWorkedIn
    <3>. QED  BY <3>1, <3>2, <3>3
  <2>. QED  BY <1>1, <2>4
<1>. QED  BY <1>1, <1>2, <1>3

(* A restore that is asked for, taken up, or moved on before anything of it *)
(* is staged.                                                               *)
LEMMA BeginningKeeps ==
    ASSUME StagingInv,
           (\E r \in Restores : Ask(r) \/ Start(r)) \/ FailEarly \/ SupersedeOutputs \/ Allocate
    PROVE  StagingInv'
<1>. USE DEF StagingInv
<1>0. UNCHANGED <<fleet, up, touched, delivered, crashes>>
  BY DEF Ask, Start, FailEarly, SupersedeOutputs, Allocate
<1>1. ASSUME NEW r \in Restores, Ask(r) \/ Start(r) PROVE StagingInv'
  <2>1. /\ UNCHANGED <<stage, keep, discarded>>
        /\ \E st \in {"pending", "running"} : record' = [record EXCEPT ![r] = Stored(st, <<>>, FALSE)]
    BY <1>1 DEF Ask, Start
  <2>2. KeptUnderItsKey' /\ SupersedesItsOwn'
    BY <2>1 DEF KeptUnderItsKey, SupersedesItsOwn, Stored, TypeOK
  <2>3. record' \in [Restores -> Records]
    BY <2>1 DEF Stored, TypeOK, Records
  <2>4. CASE UNCHANGED task
    BY <1>0, <2>1, <2>2, <2>3, <2>4 DEF TypeOK, OneTask, StagedIsWorkedIn
  <2>5. CASE Start(r)
    <3>1. PICK at \in {"allocate", "resolve"} : task' = Restoring(r, at)
      BY <2>5 DEF Start
    <3>2. up /\ task.at = "idle"
      BY <2>5 DEF Start, Free
    <3>3. /\ task'.at = at /\ task'.backup = Nothing /\ task'.restore = r
          /\ task' \in Tasks
      BY <3>1, RestoringIs
    <3>4. TypeOK'
      BY <1>0, <2>1, <2>3, <3>3 DEF TypeOK
    <3>5. OneTask'
      BY <1>0, <3>2, <3>3 DEF OneTask
    <3>6. StagedIsWorkedIn'
      BY <1>0, <2>1, <3>2, <3>3 DEF StagedIsWorkedIn
    <3>. QED  BY <2>2, <3>4, <3>5, <3>6
  <2>. QED  BY <1>1, <2>4, <2>5 DEF Ask
<1>2. CASE FailEarly
  <2>1. /\ up /\ task.at \in {"resolve", "allocate"} /\ Fail(task.restore)
        /\ UNCHANGED <<stage, keep, discarded>>
    BY <1>2 DEF FailEarly
  <2>2. task.restore \in Restores
    BY <2>1 DEF OneTask
  <2>3. /\ task' = Idle
        /\ record' \in [Restores -> Records]
        /\ \A s \in Restores : record'[s].archive # <<>> =>
              Kept(s) /\ record'[s].archive = RestoreKey(s)
    BY <2>1, <2>2, FailKeeps
  <2>4. TypeOK'
    BY <1>0, <2>1, <2>3, IdleIs DEF TypeOK
  <2>5. OneTask' /\ StagedIsWorkedIn'
    BY <1>0, <2>1, <2>3, IdleIs DEF OneTask, StagedIsWorkedIn
  <2>6. KeptUnderItsKey' /\ SupersedesItsOwn'
    BY <2>1, <2>3 DEF KeptUnderItsKey, SupersedesItsOwn
  <2>. QED  BY <2>4, <2>5, <2>6
<1>3. CASE SupersedeOutputs
  <2>. DEFINE r == task.restore
  <2>1. /\ up /\ task.at = "resolve" /\ task' = Restoring(r, "allocate")
        /\ keep' = keep \ SupersededBy(r)
        /\ discarded' = discarded \cup {<<o.of, r>> : o \in SupersededBy(r)}
        /\ UNCHANGED <<stage, record>>
    BY <1>3 DEF SupersedeOutputs
  <2>2. r \in Restores
    BY <2>1 DEF OneTask
  <2>3. /\ task'.at = "allocate" /\ task'.backup = Nothing /\ task'.restore = r
        /\ task' \in Tasks
    BY <2>1, <2>2, RestoringIs
  <2>. HIDE DEF r
  <2>4. \A o \in SupersededBy(r) :
           /\ o \in keep /\ o.of \in Restores
           /\ AccountOf[o.of] = AccountOf[r]
           /\ (KindOf[o.of] = "items") = (KindOf[r] = "items")
    <3>1. ASSUME NEW o \in SupersededBy(r)
          PROVE  /\ o \in keep /\ o.of \in Restores
                 /\ AccountOf[o.of] = AccountOf[r]
                 /\ (KindOf[o.of] = "items") = (KindOf[r] = "items")
      <4>1. o \in keep /\ o.of \in Restores
        BY DEF SupersededBy, TypeOK, Outputs
      <4>2. KindOf[o.of] # "verify" /\ IsPrefix(Group(r), RestoreKey(o.of))
        BY <4>1 DEF SupersededBy, KeptUnderItsKey, Kept
      <4>. QED  BY <2>2, <4>1, <4>2, PrefixIsOfItsOwn
    <3>. QED  BY <3>1
  <2>5. TypeOK'
    BY <1>0, <2>1, <2>2, <2>3, <2>4 DEF TypeOK
  <2>6. OneTask' /\ StagedIsWorkedIn'
    BY <1>0, <2>1, <2>2, <2>3 DEF OneTask, StagedIsWorkedIn
  <2>7. KeptUnderItsKey'
    BY <2>1 DEF KeptUnderItsKey
  <2>8. SupersedesItsOwn'
    BY <2>1, <2>4 DEF SupersedesItsOwn
  <2>. QED  BY <2>5, <2>6, <2>7, <2>8
<1>4. CASE Allocate
  <2>1. /\ up /\ task.at = "allocate" /\ task' = Restoring(task.restore, "stage")
        /\ stage' = stage \cup {RestoreKey(task.restore)}
        /\ UNCHANGED <<keep, record, discarded>>
    BY <1>4 DEF Allocate
  <2>2. task.restore \in Restores
    BY <2>1 DEF OneTask
  <2>3. /\ task'.at = "stage" /\ task'.backup = Nothing /\ task'.restore = task.restore
        /\ task' \in Tasks
    BY <2>1, <2>2, RestoringIs
  <2>4. stage = {}
    BY <2>1 DEF StagedIsWorkedIn
  <2>5. TypeOK'
    BY <1>0, <2>1, <2>2, <2>3, KeyIsKey DEF TypeOK
  <2>6. OneTask' /\ StagedIsWorkedIn'
    BY <1>0, <2>1, <2>2, <2>3, <2>4 DEF OneTask, StagedIsWorkedIn
  <2>7. KeptUnderItsKey' /\ SupersedesItsOwn'
    BY <2>1 DEF KeptUnderItsKey, SupersedesItsOwn
  <2>. QED  BY <2>5, <2>6, <2>7
<1>. QED  BY <1>1, <1>2, <1>3, <1>4

(* Whatever ends a restore that has been staged releases its directory.     *)
LEMMA ReleaseEmpties ==
    ASSUME StagingInv, up, task.at \in {"stage", "apply", "keep"}
    PROVE  task.restore \in Restores /\ Released(task.restore) = {}
BY DEF StagingInv, OneTask, StagedIsWorkedIn, Released

LEMMA EndingKeeps ==
    ASSUME StagingInv,
           \/ FailStaged \/ FinishDrill \/ RestoreFiles
           \/ \E succeeds \in BOOLEAN : WriteLive(succeeds)
    PROVE  StagingInv'
<1>. USE DEF StagingInv
<1>1. /\ UNCHANGED <<fleet, up, keep, discarded, crashes>>
      /\ up /\ task.at \in {"stage", "apply", "keep"}
      /\ stage' = Released(task.restore)
  BY DEF FailStaged, FinishDrill, RestoreFiles, WriteLive
<1>2. task.restore \in Restores /\ stage' = {}
  BY <1>1, ReleaseEmpties
<1>3. touched' \subseteq Restores /\ delivered' \subseteq Restores
  <2>1. touched' \subseteq touched \cup {task.restore}
        /\ delivered' \subseteq delivered \cup {task.restore}
    BY DEF FailStaged, FinishDrill, RestoreFiles, WriteLive
  <2>. QED  BY <1>2, <2>1 DEF TypeOK
<1>4. PICK st \in {"success", "failed"}, applied \in BOOLEAN :
         Report(task.restore, st, <<>>, applied)
  <2>1. CASE FailStaged
    BY <2>1 DEF FailStaged, Fail
  <2>2. CASE FinishDrill \/ RestoreFiles
    BY <2>2 DEF FinishDrill, RestoreFiles
  <2>3. ASSUME NEW succeeds \in BOOLEAN, WriteLive(succeeds)
        PROVE  \E st \in {"success", "failed"}, applied \in BOOLEAN :
                 Report(task.restore, st, <<>>, applied)
    BY <2>3 DEF WriteLive
  <2>. QED  BY <2>1, <2>2, <2>3
<1>5. /\ task' = Idle
      /\ record' \in [Restores -> Records]
      /\ \A s \in Restores : record'[s].archive # <<>> =>
            Kept(s) /\ record'[s].archive = RestoreKey(s)
  BY <1>2, <1>4, ReportKeeps
<1>6. TypeOK'
  BY <1>1, <1>2, <1>3, <1>5, IdleIs DEF TypeOK
<1>7. OneTask' /\ StagedIsWorkedIn'
  BY <1>1, <1>2, <1>5, IdleIs DEF OneTask, StagedIsWorkedIn
<1>8. KeptUnderItsKey' /\ SupersedesItsOwn'
  BY <1>1, <1>5 DEF KeptUnderItsKey, SupersedesItsOwn
<1>. QED  BY <1>6, <1>7, <1>8

(* What is built is left behind under its own key, and recorded with it.    *)
LEMMA KeepingKeeps ==
    ASSUME StagingInv, Rebuild \/ Retain \/ FinishKept
    PROVE  StagingInv'
<1>. USE DEF StagingInv
<1>1. CASE Rebuild
  <2>1. PICK at \in {"apply", "keep"} : task' = Restoring(task.restore, at)
    BY <1>1 DEF Rebuild
  <2>2. /\ up /\ task.at = "stage" /\ Kept(task.restore)
        /\ UNCHANGED <<fleet, up, stage, keep, record, touched, delivered, discarded, crashes>>
    BY <1>1 DEF Rebuild, Kept
  <2>3. task.restore \in Restores
    BY <2>2 DEF OneTask
  <2>4. /\ task'.at = at /\ task'.backup = Nothing /\ task'.restore = task.restore
        /\ task' \in Tasks
    BY <2>1, <2>3, RestoringIs
  <2>5. TypeOK' /\ OneTask'
    BY <2>2, <2>3, <2>4 DEF TypeOK, OneTask
  <2>6. StagedIsWorkedIn'
    BY <2>2, <2>4 DEF StagedIsWorkedIn
  <2>. QED  BY <2>2, <2>5, <2>6 DEF KeptUnderItsKey, SupersedesItsOwn
<1>2. CASE Retain
  <2>. DEFINE r == task.restore
  <2>1. /\ up /\ task.at = "keep" /\ stage' = Released(r)
        /\ keep' = Replacing(RestoreKey(r), r) /\ task' = Restoring(r, "kept")
        /\ UNCHANGED <<fleet, up, record, touched, delivered, discarded, crashes>>
    BY <1>2 DEF Retain
  <2>2. r \in Restores /\ Kept(r) /\ stage' = {}
    BY <2>1, ReleaseEmpties DEF OneTask
  <2>3. /\ task'.at = "kept" /\ task'.backup = Nothing /\ task'.restore = r /\ task' \in Tasks
    BY <2>1, <2>2, RestoringIs
  <2>. HIDE DEF r
  <2>4. [key |-> RestoreKey(r), of |-> r] \in Outputs
    BY <2>2, KeyIsKey DEF Outputs
  <2>5. keep' \subseteq keep \cup {[key |-> RestoreKey(r), of |-> r]}
    BY <2>1 DEF Replacing
  <2>6. TypeOK'
    BY <2>1, <2>2, <2>3, <2>4, <2>5 DEF TypeOK
  <2>7. OneTask' /\ StagedIsWorkedIn'
    BY <2>1, <2>2, <2>3 DEF OneTask, StagedIsWorkedIn
  <2>8. KeptUnderItsKey'
    BY <2>1, <2>2, <2>5 DEF KeptUnderItsKey
  <2>. QED  BY <2>1, <2>6, <2>7, <2>8 DEF SupersedesItsOwn
<1>3. CASE FinishKept
  <2>. DEFINE r == task.restore
  <2>1. /\ up /\ task.at = "kept"
        /\ UNCHANGED <<fleet, up, stage, keep, touched, delivered, discarded, crashes>>
    BY <1>3 DEF FinishKept
  <2>2. r \in Restores /\ Kept(r) /\ stage = {}
    BY <2>1 DEF OneTask, StagedIsWorkedIn
  <2>3. Report(r, "success", RestoreKey(r), FALSE) \/ Fail(r)
    BY <1>3 DEF FinishKept
  <2>4. /\ task' = Idle
        /\ record' \in [Restores -> Records]
        /\ \A s \in Restores : record'[s].archive # <<>> =>
              Kept(s) /\ record'[s].archive = RestoreKey(s)
    BY <2>2, <2>3, ReportKeeps, FailKeeps, KeyIsKey
  <2>5. TypeOK'
    BY <2>1, <2>4, IdleIs DEF TypeOK
  <2>6. OneTask' /\ StagedIsWorkedIn'
    BY <2>1, <2>2, <2>4, IdleIs DEF OneTask, StagedIsWorkedIn
  <2>7. KeptUnderItsKey' /\ SupersedesItsOwn'
    BY <2>1, <2>4 DEF KeptUnderItsKey, SupersedesItsOwn
  <2>. QED  BY <2>5, <2>6, <2>7
<1>. QED  BY <1>1, <1>2, <1>3

(* The process dies, and comes back in either of the two programs.          *)
LEMMA RestartKeeps ==
    ASSUME StagingInv, Crash \/ CleanStaleStaging \/ RecoverFromRestart
    PROVE  StagingInv'
<1>. USE DEF StagingInv
<1>0. UNCHANGED <<fleet, touched, delivered, discarded>>
  BY DEF Crash, CleanStaleStaging, RecoverFromRestart
<1>1. CASE Crash
  <2>1. up' = FALSE /\ task' = Idle /\ crashes < MaxCrashes /\ crashes' = crashes + 1
        /\ UNCHANGED <<stage, keep, record>>
    BY <1>1 DEF Crash
  <2>2. crashes' \in 0..MaxCrashes
    BY <2>1, StagingAssumption DEF TypeOK
  <2>3. TypeOK'
    BY <1>0, <2>1, <2>2, IdleIs DEF TypeOK
  <2>4. OneTask' /\ StagedIsWorkedIn'
    BY <2>1, IdleIs DEF OneTask, StagedIsWorkedIn
  <2>. QED  BY <1>0, <2>1, <2>3, <2>4 DEF KeptUnderItsKey, SupersedesItsOwn
<1>2. CASE CleanStaleStaging \/ RecoverFromRestart
  <2>1. ~ up /\ up' = TRUE /\ stage' = {} /\ keep' \subseteq keep /\ UNCHANGED <<task, crashes>>
    BY <1>2 DEF CleanStaleStaging, RecoverFromRestart
  <2>2. \A r \in Restores, st \in {"pending", "failed"} :
           /\ Interrupted(r, st) \in Records
           /\ Interrupted(r, st).archive \in {<<>>, record[r].archive}
    BY DEF Interrupted, Stored, TypeOK, Records
  <2>3. /\ record' \in [Restores -> Records]
        /\ \A r \in Restores : record'[r].archive \in {<<>>, record[r].archive}
    <3>1. CASE CleanStaleStaging
      BY <2>2, <3>1 DEF CleanStaleStaging
    <3>2. CASE RecoverFromRestart
      BY <2>2, <3>2 DEF RecoverFromRestart
    <3>. QED  BY <1>2, <3>1, <3>2
  <2>4. TypeOK'
    BY <1>0, <2>1, <2>3 DEF TypeOK
  <2>5. OneTask' /\ StagedIsWorkedIn'
    BY <2>1, IdleIs DEF OneTask, StagedIsWorkedIn
  <2>6. KeptUnderItsKey' /\ SupersedesItsOwn'
    BY <1>0, <2>1, <2>3 DEF KeptUnderItsKey, SupersedesItsOwn
  <2>. QED  BY <2>4, <2>5, <2>6
<1>. QED  BY <1>1, <1>2

LEMMA StepPreserves == StagingInv /\ [Next]_vars => StagingInv'
<1>. SUFFICES ASSUME StagingInv, [Next]_vars PROVE StagingInv'
  OBVIOUS
<1>1. ASSUME NEW o \in keep, SweepWorkdir(o) PROVE StagingInv'
  <2>1. /\ keep' = keep \ {o} /\ discarded' = discarded \cup {<<o.of, Nothing>>}
        /\ UNCHANGED <<fleet, up, stage, task, record, touched, delivered, crashes>>
    BY <1>1 DEF SweepWorkdir
  <2>2. o.of \in Restores
    BY <1>1 DEF StagingInv, TypeOK, Outputs
  <2>3. TypeOK'
    BY <2>1, <2>2 DEF StagingInv, TypeOK
  <2>4. SupersedesItsOwn'
    BY <2>1 DEF StagingInv, SupersedesItsOwn
  <2>. QED  BY <2>1, <2>3, <2>4 DEF StagingInv, OneTask, StagedIsWorkedIn, KeptUnderItsKey
<1>2. CASE UNCHANGED vars
  BY <1>2 DEF vars, StagingInv, TypeOK, OneTask, StagedIsWorkedIn, KeptUnderItsKey, SupersedesItsOwn
<1>. QED  BY <1>1, <1>2, BackupKeeps, BeginningKeeps, EndingKeeps, KeepingKeeps, RestartKeeps DEF Next

LEMMA InvariantHolds == Spec => []StagingInv
BY InitEstablishes, StepPreserves, PTL DEF Spec

-----------------------------------------------------------------------------
(* A download hands over the backup its record names, never one that took   *)
(* its directory since: Retain and the archive path of RunRestore.          *)
THEOREM ArchiveStaysOwn == Spec => []ArchiveIsOwn
<1>1. StagingInv => ArchiveIsOwn
  <2>. SUFFICES ASSUME StagingInv, NEW r \in Restores, NEW o \in keep, o.key = record[r].archive
                PROVE  o.of = r
    BY DEF ArchiveIsOwn
  <2>1. o.of \in Restores /\ Kept(o.of) /\ o.key = RestoreKey(o.of)
    BY DEF StagingInv, TypeOK, Outputs, KeptUnderItsKey
  <2>2. record[r].archive # <<>>
    <3>1. Len(RestoreKey(o.of)) \in Nat /\ Len(RestoreKey(o.of)) > 0
      BY <2>1, KeyIs DEF Kept
    <3>. QED  BY <2>1, <3>1
  <2>. QED  BY <2>1, <2>2, KeysAreApart DEF StagingInv, KeptUnderItsKey, Kept
<1>. QED  BY <1>1, InvariantHolds, PTL

(* SupersedeOutputs removes what an earlier restore of the same account and *)
(* of the same kind left, whatever the other accounts are called: all that  *)
(* is asked of their names is that none holds the separator.                *)
THEOREM SupersedesOnlyItsOwn == Spec => []SupersedesItsOwn
<1>1. StagingInv => SupersedesItsOwn
  BY DEF StagingInv
<1>. QED  BY <1>1, InvariantHolds, PTL

(* Every way out of a backup, a rehearsal and a restore releases what it    *)
(* had staged, so that the account can be staged again.                     *)
THEOREM IdleHasNothingStaged == Spec => []NothingLeftStaged
<1>1. StagingInv => NothingLeftStaged
  BY DEF StagingInv, OneTask, StagedIsWorkedIn, NothingLeftStaged, Free
<1>. QED  BY <1>1, InvariantHolds, PTL
=============================================================================
