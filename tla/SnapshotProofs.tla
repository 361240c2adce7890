--------------------------- MODULE SnapshotProofs ---------------------------
(* Which snapshots go and whose they are: what retention removes, for any    *)
(* schedules, keep counts, backups and edits; and what the holder of a name  *)
(* is shown of it, for any names, uids, restores and faults.                 *)
EXTENDS Retention, Identity, FiniteSetTheorems, WellFoundedInduction, TLAPS

-----------------------------------------------------------------------------
\* Retention

\* A set of numbers up to m has a largest, and Max is it.
LEMMA LargestIs ==
    ASSUME NEW m \in Nat, NEW S \in SUBSET (0..m), S # {}
    PROVE  Max(S) \in S /\ \A x \in S : x <= Max(S)
<1> DEFINE Below == {m - x : x \in S}
<1>1. IsWellFoundedOn(OpToRel(<, Nat), Nat)
  BY NatLessThanWellFounded
<1>2. Below \subseteq Nat /\ Below # {}
  <2>1. ASSUME NEW x \in S PROVE m - x \in Nat
    OBVIOUS
  <2> QED
    BY <2>1
<1>3. PICK b \in Below : \A c \in Below : ~(<<c, b>> \in OpToRel(<, Nat))
  <2> HIDE DEF Below
  <2> QED
    BY <1>1, <1>2, WFMin
<1>4. \A c \in Below : ~(c < b)
  BY <1>2, <1>3 DEF OpToRel
<1>5. PICK s \in S : b = m - s
  BY <1>3
<1>6. \A x \in S : s >= x
  <2>1. ASSUME NEW x \in S PROVE s >= x
    <3>1. ~(m - x < m - s)
      BY <1>4, <1>5
    <3>2. x \in 0..m /\ s \in 0..m
      OBVIOUS
    <3> QED
      BY <3>1, <3>2
  <2> QED
    BY <2>1
<1>7. Max(S) \in S /\ \A x \in S : Max(S) >= x
  BY <1>6 DEF Max
<1> QED
  BY <1>7

-----------------------------------------------------------------------------
\* A run that has something to say of itself knows what
Writing == \A c \in Callers : run[c].at \in {"previewed", "done", "recording"} => run[c].write # "none"

\* Whatever is on record as approved, or on its way back to the record, was
ApprovedWasAgreed ==
    /\ repo.approved \in agreed \cup {0}
    /\ \A c \in Callers : run[c].copy.approved \in agreed \cup {0}

\* What a run has set out to remove is older than a backup known to be whole
Spared ==
    \A c \in Callers : \A s \in run[c].remove : \E t \in snaps \cap complete : t > s

\* A run that is to look has named nothing yet, and unless a schedule has been
\* edited since it began, it keeps what every enabled schedule keeps
LooksWithTheMostGenerous ==
    \A c \in Callers :
        /\ run[c].since <= edits
        /\ run[c].at = "begun" =>
              /\ run[c].remove = {}
              /\ run[c].apply /\ run[c].since = edits => \A p \in Policies : keep[p] <= run[c].keeps

IInv ==
    TypeOK /\ Writing /\ ApprovedWasAgreed /\ AppliesWhatWasApproved /\ Spared /\ LooksWithTheMostGenerous

\* MergedRetention is a keep policy, and no enabled schedule keeps more.
LEMMA MergedIs ==
    ASSUME TypeOK
    PROVE  MergedRetention \in Keeps /\ \A p \in Policies : keep[p] <= MergedRetention
<1> DEFINE S == {0} \cup {keep[p] : p \in {q \in Policies : keep[q] >= 0}}
<1>1. MaxKeep \in Nat
  BY RetentionAssumption
<1>2. S \in SUBSET (0..MaxKeep) /\ S # {}
  BY <1>1 DEF TypeOK
<1>3. Max(S) \in S /\ \A x \in S : x <= Max(S)
  <2> HIDE DEF S
  <2> QED
    BY <1>1, <1>2, LargestIs
<1>4. MergedRetention = Max(S)
  BY DEF MergedRetention
<1>5. ASSUME NEW p \in Policies PROVE keep[p] <= Max(S)
  <2>1. keep[p] \in -1..MaxKeep /\ Max(S) \in 0..MaxKeep
    BY <1>2, <1>3 DEF TypeOK
  <2>2. keep[p] >= 0 => keep[p] \in S
    OBVIOUS
  <2>3. keep[p] >= 0 => keep[p] <= Max(S)
    BY <1>3, <2>2
  <2> HIDE DEF S
  <2> QED
    BY <1>1, <2>1, <2>3
<1> HIDE DEF S
<1> QED
  BY <1>2, <1>3, <1>4, <1>5 DEF Keeps

\* The newest backup known to be whole is on nobody's list.
LEMMA NewestIsSpared ==
    ASSUME IInv, snaps \cap complete # {}
    PROVE  \E top \in snaps \cap complete :
              /\ \A t \in snaps \cap complete : t <= top
              /\ \A c \in Callers : top \notin run[c].remove
<1>1. MaxSnapshots \in Nat /\ snaps \cap complete \in SUBSET (0..MaxSnapshots)
  BY RetentionAssumption DEF IInv, TypeOK
<1>2. PICK top \in snaps \cap complete : \A t \in snaps \cap complete : t <= top
  BY <1>1, LargestIs
<1>3. ASSUME NEW c \in Callers, top \in run[c].remove PROVE FALSE
  <2>1. PICK t \in snaps \cap complete : t > top
    BY <1>3 DEF IInv, Spared
  <2>2. t <= top /\ t \in Nat /\ top \in Nat
    BY <1>1, <1>2
  <2> QED
    BY <2>1, <2>2
<1> QED
  BY <1>2, <1>3

\* Removing what a run has named leaves what spares the rest.
LEMMA RemovalSpares ==
    ASSUME IInv, NEW c \in Callers, NEW gone \in SUBSET run[c].remove, snaps' = snaps \ gone,
           UNCHANGED complete, \A d \in Callers : run'[d].remove \subseteq run[d].remove
    PROVE  Spared'
<1> SUFFICES ASSUME NEW d \in Callers, NEW s \in run[d].remove
             PROVE  \E t \in snaps' \cap complete : t > s
  BY DEF Spared
<1>1. PICK t \in snaps \cap complete : t > s
  BY DEF IInv, Spared
<1>2. PICK top \in snaps \cap complete : t <= top /\ top \notin run[c].remove
  BY <1>1, NewestIsSpared
<1>3. top > s
  <2>1. s \in Nat /\ t \in Nat /\ top \in Nat
    <3>1. snaps \subseteq Nat
      BY RetentionAssumption DEF IInv, TypeOK
    <3>2. run[d].remove \subseteq 1..MaxSnapshots
      BY DEF IInv, TypeOK, Runs
    <3>3. t \in Nat /\ top \in Nat
      BY <1>1, <1>2, <3>1
    <3>4. s \in 1..MaxSnapshots
      BY <3>2
    <3>5. s \in Nat
      BY <3>4, RetentionAssumption
    <3> QED
      BY <3>3, <3>5
  <2> QED
    BY <1>1, <1>2, <2>1
<1> QED
  BY <1>2, <1>3

-----------------------------------------------------------------------------
LEMMA NoRunIs ==
    /\ NoRecord \in Repository /\ NoRecord.approved = 0
    /\ NoRun \in Runs /\ NoRun.at = "idle" /\ ~NoRun.apply /\ NoRun.remove = {}
    /\ NoRun.since = 0 /\ NoRun.copy = NoRecord
<1>1. NoRecord \in Repository /\ NoRecord.approved = 0
  BY RetentionAssumption DEF NoRecord, Repository, Keeps
<1>2. NoRun \in Runs
  BY <1>1, RetentionAssumption DEF NoRun, Runs, Keeps
<1> QED
  BY <1>1, <1>2 DEF NoRun

LEMMA Initially == Init => IInv
<1> SUFFICES ASSUME Init PROVE IInv
  OBVIOUS
<1>1. run = [c \in Callers |-> NoRun] /\ repo = NoRecord /\ operator = Idle
  BY DEF Init
<1>2. TypeOK
  <2>1. operator \in [at : {"idle", "writing"}, copy : Repository]
    BY <1>1, NoRunIs DEF Idle
  <2>2. run \in [Callers -> Runs] /\ \A c \in Callers : run[c].at = "idle"
    BY <1>1, NoRunIs
  <2>3. keep \in [Policies -> -1..MaxKeep] /\ repo \in Repository
    BY <1>1, NoRunIs, RetentionAssumption DEF Init
  <2>4. /\ taken \in 0..MaxSnapshots /\ snaps \subseteq 1..taken /\ complete \subseteq 1..taken
        /\ agreed \subseteq 1..MaxKeep /\ edits \in 0..MaxEdits
    BY RetentionAssumption DEF Init
  <2> QED
    BY <2>1, <2>2, <2>3, <2>4 DEF TypeOK
<1>3. edits = 0
  BY DEF Init
<1>4. Writing /\ ApprovedWasAgreed /\ AppliesWhatWasApproved /\ Spared /\ LooksWithTheMostGenerous
  BY <1>1, <1>3, NoRunIs DEF Writing, ApprovedWasAgreed, AppliesWhatWasApproved, Spared,
     LooksWithTheMostGenerous
<1> QED
  BY <1>2, <1>4 DEF IInv

\* What a step of one run has to see to.
LEMMA RunChanges ==
    ASSUME IInv, NEW c \in Callers, NEW r \in Runs,
           run' = [run EXCEPT ![c] = r],
           UNCHANGED <<keep, complete, taken, operator, agreed, edits>>,
           r.at \in {"begun", "previewed"} => r.keeps # 0,
           r.at \in {"previewed", "done", "recording"} => r.write # "none",
           r.apply => r.keeps \in agreed,
           r.copy.approved \in agreed \cup {0},
           r.since <= edits,
           r.at = "begun" => r.remove = {},
           r.at = "begun" /\ r.apply => \A p \in Policies : keep[p] <= r.keeps,
           repo' \in Repository, repo'.approved \in agreed \cup {0},
           snaps' \subseteq snaps, Spared'
    PROVE  IInv'
<1>1. run' \in [Callers -> Runs] /\ run'[c] = r /\ \A d \in Callers : d # c => run'[d] = run[d]
  BY DEF IInv, TypeOK
<1>2. TypeOK'
  BY <1>1 DEF IInv, TypeOK
<1>3. Writing' /\ ApprovedWasAgreed' /\ AppliesWhatWasApproved'
  BY <1>1 DEF IInv, Writing, ApprovedWasAgreed, AppliesWhatWasApproved
<1>4. LooksWithTheMostGenerous'
  BY <1>1 DEF IInv, LooksWithTheMostGenerous
<1> QED
  BY <1>2, <1>3, <1>4 DEF IInv

-----------------------------------------------------------------------------
(* Planning, applying and recording.                                        *)

\* A call begins with the policy in force, and applies it only if that is what
\* the record says was approved.
LEMMA BeginKeeps ==
    ASSUME IInv, NEW c \in Callers, PlanRetention(c) \/ ApplyRetention(c),
           UNCHANGED <<keep, snaps, complete, taken, repo, operator, agreed, edits>>
    PROVE  IInv'
<1>1. PICK apply \in BOOLEAN :
        /\ run' = [run EXCEPT ![c] = Begun(apply)]
        /\ apply => repo.approved = MergedRetention
        /\ MergedRetention # 0
  BY DEF PlanRetention, ApplyRetention, retentionFor
<1>2. MergedRetention \in Keeps /\ \A p \in Policies : keep[p] <= MergedRetention
  BY MergedIs DEF IInv
<1>3. edits \in 0..MaxEdits /\ edits \in Nat /\ 0 \in 0..MaxEdits
  BY RetentionAssumption DEF IInv, TypeOK
<1> DEFINE r == Begun(apply)
<1>4. /\ r.at = "begun" /\ r.apply = apply /\ r.keeps = MergedRetention /\ r.remove = {}
      /\ r.copy = NoRecord /\ r.since = IF apply THEN edits ELSE 0
  BY NoRunIs DEF Begun, NoRun
<1>5. r \in Runs
  BY <1>2, <1>3, NoRunIs DEF Begun, Runs
<1>6. r.apply => r.keeps \in agreed
  BY <1>1, <1>4 DEF IInv, ApprovedWasAgreed
<1>7. r.since <= edits
  BY <1>3, <1>4
<1>8. Spared'
  <2>1. ASSUME NEW d \in Callers PROVE run'[d].remove \subseteq run[d].remove
    BY <1>1, <1>4 DEF IInv, TypeOK
  <2>2. {} \in SUBSET run[c].remove /\ snaps' = snaps \ {} /\ complete' = complete
    OBVIOUS
  <2> HIDE DEF r
  <2> QED
    BY <2>1, <2>2, RemovalSpares
<1>9. repo' \in Repository /\ repo'.approved \in agreed \cup {0}
  BY DEF IInv, TypeOK, ApprovedWasAgreed
<1>10. r.copy.approved \in agreed \cup {0}
  BY <1>4, NoRunIs
<1>11. run' = [run EXCEPT ![c] = r]
  BY <1>1
<1> HIDE DEF r
<1> QED
  BY <1>1, <1>2, <1>4, <1>5, <1>6, <1>7, <1>8, <1>9, <1>10, <1>11, RunChanges

\* What is found safe to remove is older than the newest backup, and then every
\* backup is known to be whole.
LEMMA SafeIs ==
    ASSUME IInv, NEW k \in Keeps, k # 0
    PROVE  /\ SafeToRemove(k) \in SUBSET (1..MaxSnapshots)
           /\ \A s \in SafeToRemove(k) : Cardinality({t \in snaps : t >= s}) > k
           /\ \A s \in SafeToRemove(k) : \E t \in snaps \cap complete : t > s
<1>1. SafeToRemove(k) \subseteq snaps /\ snaps \subseteq 1..MaxSnapshots /\ snaps \subseteq Nat
  BY RetentionAssumption DEF SafeToRemove, Expired, IInv, TypeOK
<1>2. \A s \in SafeToRemove(k) : Cardinality({t \in snaps : t >= s}) > k
  BY DEF SafeToRemove, Expired
<1>3. ASSUME NEW s \in SafeToRemove(k), \A t \in snaps \cap complete : ~(t > s)
      PROVE  FALSE
  <2>1. snaps \subseteq complete
    BY <1>3 DEF SafeToRemove
  <2>2. {t \in snaps : t >= s} = {s}
    <3>1. s \in snaps /\ s \in Nat
      BY <1>1
    <3>2. ASSUME NEW t \in snaps, t >= s PROVE t = s
      <4>1. t \in Nat /\ ~(t > s)
        BY <1>1, <1>3, <2>1
      <4> QED
        BY <3>1, <3>2, <4>1
    <3>3. s >= s
      BY <3>1
    <3>4. \A t : t \in {u \in snaps : u >= s} <=> t \in {s}
      BY <3>1, <3>2, <3>3, Zenon
    <3> QED
      BY <3>4, Zenon
  <2>3. Cardinality({s}) = 1
    BY FS_Singleton
  <2>4. k >= 1
    BY RetentionAssumption DEF Keeps
  <2> QED
    BY <1>2, <2>2, <2>3, <2>4 DEF Keeps
<1> QED
  BY <1>1, <1>2, <1>3

LEMMA PreviewKeeps ==
    ASSUME IInv, NEW c \in Callers, Preview(c)
    PROVE  IInv'
<1>1. /\ run[c].at = "begun" /\ run[c] \in Runs /\ run[c].keeps \in Keeps /\ run[c].keeps # 0
      /\ UNCHANGED <<keep, snaps, complete, taken, repo, operator, agreed, edits>>
  BY DEF Preview, IInv, TypeOK, Runs
<1>2. run[c].remove = {} /\ run[c].since <= edits
  BY <1>1 DEF IInv, LooksWithTheMostGenerous
<1>3. repo' \in Repository /\ repo'.approved \in agreed \cup {0}
  BY <1>1 DEF IInv, TypeOK, ApprovedWasAgreed
<1>4. run[c].copy.approved \in agreed \cup {0} /\ (run[c].apply => run[c].keeps \in agreed)
  BY DEF IInv, ApprovedWasAgreed, AppliesWhatWasApproved
<1>5. CASE run[c].apply
  <2>1. PICK r \in Runs :
          /\ r = [run[c] EXCEPT !.at = "previewed", !.remove = SafeToRemove(run[c].keeps), !.write = "applied"]
          /\ r.at = "previewed" /\ r.remove = SafeToRemove(run[c].keeps) /\ r.write = "applied"
          /\ r.keeps = run[c].keeps /\ r.apply = run[c].apply /\ r.since = run[c].since /\ r.copy = run[c].copy
    <3>1. SafeToRemove(run[c].keeps) \in SUBSET (1..MaxSnapshots)
      BY <1>1, SafeIs
    <3> DEFINE q == [run[c] EXCEPT !.at = "previewed", !.remove = SafeToRemove(run[c].keeps), !.write = "applied"]
    <3>11. q \in Runs
      BY <1>1, <3>1 DEF Runs
    <3>12. /\ q.at = "previewed" /\ q.remove = SafeToRemove(run[c].keeps) /\ q.write = "applied"
           /\ q.keeps = run[c].keeps /\ q.apply = run[c].apply /\ q.since = run[c].since /\ q.copy = run[c].copy
      BY <1>1, <3>1 DEF Runs
    <3>13. q = [run[c] EXCEPT !.at = "previewed", !.remove = SafeToRemove(run[c].keeps), !.write = "applied"]
      OBVIOUS
    <3> HIDE DEF q
    <3> QED
      BY <3>11, <3>12, <3>13
  <2>2. run' = [run EXCEPT ![c] = r]
    BY <1>5, <2>1 DEF Preview
  <2>3. Spared'
    <3>1. \A s \in r.remove : \E t \in snaps \cap complete : t > s
      BY <1>1, <2>1, SafeIs
    <3>2. run'[c] = r /\ \A d \in Callers : d # c => run'[d] = run[d]
      BY <2>2 DEF IInv, TypeOK
    <3> QED
      BY <1>1, <3>1, <3>2 DEF IInv, Spared
  <2> QED
    BY <1>1, <1>2, <1>3, <1>4, <2>1, <2>2, <2>3, RunChanges
<1>6. CASE ~run[c].apply
  <2>1. PICK r \in Runs :
          /\ r = [run[c] EXCEPT !.at = "done", !.write = "planned"]
          /\ r.at = "done" /\ r.remove = {} /\ r.write = "planned"
          /\ r.keeps = run[c].keeps /\ r.apply = run[c].apply /\ r.since = run[c].since /\ r.copy = run[c].copy
    <3> DEFINE q == [run[c] EXCEPT !.at = "done", !.write = "planned"]
    <3>11. q \in Runs
      BY <1>1, <1>2 DEF Runs
    <3>12. /\ q.at = "done" /\ q.remove = {} /\ q.write = "planned"
           /\ q.keeps = run[c].keeps /\ q.apply = run[c].apply /\ q.since = run[c].since /\ q.copy = run[c].copy
      BY <1>1, <1>2 DEF Runs
    <3>13. q = [run[c] EXCEPT !.at = "done", !.write = "planned"]
      OBVIOUS
    <3> HIDE DEF q
    <3> QED
      BY <3>11, <3>12, <3>13
  <2>2. run' = [run EXCEPT ![c] = r]
    BY <1>6, <2>1 DEF Preview
  <2>3. Spared'
    <3>1. run'[c] = r /\ \A d \in Callers : d # c => run'[d] = run[d]
      BY <2>2 DEF IInv, TypeOK
    <3> QED
      BY <1>1, <2>1, <3>1 DEF IInv, Spared
  <2> QED
    BY <1>1, <1>2, <1>3, <1>4, <2>1, <2>2, <2>3, RunChanges
<1> QED
  BY <1>5, <1>6

\* The record a removal leaves, whole or in part.
LEMMA ForgetKeeps ==
    ASSUME IInv, NEW c \in Callers, ForgetPreviewed(c) \/ RunFails(c)
    PROVE  IInv'
<1>1. /\ UNCHANGED <<keep, complete, taken, repo, operator, agreed, edits>>
      /\ \E gone \in SUBSET run[c].remove : snaps' = snaps \ gone
      /\ run[c] \in Runs
  BY DEF ForgetPreviewed, RunFails, IInv, TypeOK
<1>2. repo' \in Repository /\ repo'.approved \in agreed \cup {0}
  BY <1>1 DEF IInv, TypeOK, ApprovedWasAgreed
<1>3. edits \in Nat
  BY RetentionAssumption DEF IInv, TypeOK
<1>4. PICK r \in Runs :
        /\ run' = [run EXCEPT ![c] = r]
        /\ r.at = "done" /\ r.write # "none" /\ r.since = 0
        /\ r.remove \subseteq run[c].remove
        /\ r.apply => r.keeps \in agreed
        /\ r.copy.approved \in agreed \cup {0}
  <2>1. CASE ForgetPreviewed(c)
    <3>1. run[c].at = "previewed" /\ run' = [run EXCEPT ![c].at = "done", ![c].since = 0]
      BY <2>1 DEF ForgetPreviewed
    <3>2. run[c].write # "none" /\ (run[c].apply => run[c].keeps \in agreed)
          /\ run[c].copy.approved \in agreed \cup {0}
      BY <3>1 DEF IInv, Writing, AppliesWhatWasApproved, ApprovedWasAgreed
    <3>3. PICK r \in Runs : /\ r = [run[c] EXCEPT !.at = "done", !.since = 0]
                            /\ r.at = "done" /\ r.since = 0 /\ r.write = run[c].write
                            /\ r.apply = run[c].apply /\ r.keeps = run[c].keeps
                            /\ r.remove = run[c].remove /\ r.copy = run[c].copy
      <4>1. 0 \in 0..MaxEdits
        BY RetentionAssumption
      <4> DEFINE q == [run[c] EXCEPT !.at = "done", !.since = 0]
      <4>11. q \in Runs
        BY <1>1, <4>1 DEF Runs
      <4>12. /\ q.at = "done" /\ q.since = 0 /\ q.write = run[c].write
             /\ q.apply = run[c].apply /\ q.keeps = run[c].keeps
             /\ q.remove = run[c].remove /\ q.copy = run[c].copy
        BY <1>1, <4>1 DEF Runs
      <4>13. q = [run[c] EXCEPT !.at = "done", !.since = 0]
        OBVIOUS
      <4> HIDE DEF q
      <4> QED
        BY <4>11, <4>12, <4>13
    <3>4. run' = [run EXCEPT ![c] = r]
      BY <3>1, <3>3
    <3> QED
      BY <3>2, <3>3, <3>4
  <2>2. CASE RunFails(c)
    <3>1. run' = [run EXCEPT ![c] = [NoRun EXCEPT !.at = "done", !.write = "attempted"]]
      BY <2>2 DEF RunFails
    <3>2. PICK r \in Runs : /\ r = [NoRun EXCEPT !.at = "done", !.write = "attempted"]
                            /\ r.at = "done" /\ r.since = 0 /\ r.write = "attempted"
                            /\ ~r.apply /\ r.remove = {} /\ r.copy = NoRecord
      <4> DEFINE q == [NoRun EXCEPT !.at = "done", !.write = "attempted"]
      <4>11. q \in Runs
        BY NoRunIs DEF Runs
      <4>12. /\ q.at = "done" /\ q.since = 0 /\ q.write = "attempted"
             /\ ~q.apply /\ q.remove = {} /\ q.copy = NoRecord
        BY NoRunIs DEF Runs
      <4>13. q = [NoRun EXCEPT !.at = "done", !.write = "attempted"]
        OBVIOUS
      <4> HIDE DEF q
      <4> QED
        BY <4>11, <4>12, <4>13
    <3> QED
      BY <3>1, <3>2, NoRunIs
  <2> QED
    BY <2>1, <2>2
<1>5. Spared'
  <2>1. ASSUME NEW d \in Callers PROVE run'[d].remove \subseteq run[d].remove
    BY <1>4 DEF IInv, TypeOK
  <2>2. PICK gone \in SUBSET run[c].remove : snaps' = snaps \ gone
    BY <1>1
  <2> QED
    BY <1>1, <2>1, <2>2, RemovalSpares
<1>6. snaps' \subseteq snaps
  BY <1>1
<1>7. r.since <= edits
  BY <1>3, <1>4
<1> QED
  BY <1>1, <1>2, <1>4, <1>5, <1>6, <1>7, RunChanges

LEMMA RecordKeeps ==
    ASSUME IInv, NEW c \in Callers, RecordReads(c) \/ RecordWrites(c)
    PROVE  IInv'
<1>1. UNCHANGED <<keep, snaps, complete, taken, operator, agreed, edits>> /\ run[c] \in Runs
      /\ repo \in Repository /\ repo.approved \in agreed \cup {0}
  BY DEF RecordReads, RecordWrites, IInv, TypeOK, ApprovedWasAgreed
<1>2. edits \in Nat
  BY RetentionAssumption DEF IInv, TypeOK
<1>3. repo' \in Repository /\ repo'.approved \in agreed \cup {0}
  <2>1. CASE RecordReads(c)
    BY <1>1, <2>1 DEF RecordReads
  <2>2. CASE RecordWrites(c)
    <3>1. run[c].write \in {"planned", "applied", "attempted"}
      BY <1>1, <2>2 DEF RecordWrites, IInv, Writing, Runs
    <3>2. /\ run[c].copy \in [approved : Keeps, planned : Keeps, planOf : Keeps]
          /\ run[c].keeps \in Keeps /\ run[c].copy.approved \in agreed \cup {0}
      BY <1>1 DEF Runs, Repository, IInv, ApprovedWasAgreed
    <3>3. CASE run[c].write = "planned"
      <4>1. repo' = [run[c].copy EXCEPT !.planned = run[c].keeps, !.planOf = run[c].keeps]
        BY <2>2, <3>3 DEF RecordWrites
      <4> QED
        BY <3>2, <4>1 DEF Repository
    <3>4. CASE run[c].write = "applied"
      <4>1. repo' = [run[c].copy EXCEPT !.planOf = run[c].keeps]
        BY <2>2, <3>4 DEF RecordWrites
      <4> QED
        BY <3>2, <4>1 DEF Repository
    <3>5. CASE run[c].write = "attempted"
      BY <2>2, <3>2, <3>5 DEF RecordWrites, Repository
    <3> QED
      BY <3>1, <3>3, <3>4, <3>5
  <2> QED
    BY <2>1, <2>2
<1>4. PICK r \in Runs :
        /\ run' = [run EXCEPT ![c] = r]
        /\ r.at \in {"idle", "recording"} /\ (r.at = "recording" => r.write # "none")
        /\ r.since = 0 /\ r.remove = {}
        /\ r.apply => r.keeps \in agreed
        /\ r.copy.approved \in agreed \cup {0}
  <2>1. CASE RecordReads(c)
    <3>1. /\ run[c].at = "done"
          /\ run' = [run EXCEPT ![c].at = "recording", ![c].copy = repo, ![c].remove = {}, ![c].since = 0]
      BY <2>1 DEF RecordReads
    <3>2. run[c].write # "none" /\ (run[c].apply => run[c].keeps \in agreed)
      BY <3>1 DEF IInv, Writing, AppliesWhatWasApproved
    <3>3. PICK r \in Runs :
            /\ r = [run[c] EXCEPT !.at = "recording", !.copy = repo, !.remove = {}, !.since = 0]
            /\ r.at = "recording" /\ r.since = 0 /\ r.write = run[c].write
            /\ r.apply = run[c].apply /\ r.keeps = run[c].keeps /\ r.remove = {} /\ r.copy = repo
      <4>1. 0 \in 0..MaxEdits
        BY RetentionAssumption
      <4> DEFINE q == [run[c] EXCEPT !.at = "recording", !.copy = repo, !.remove = {}, !.since = 0]
      <4>11. q \in Runs
        BY <1>1, <4>1 DEF Runs
      <4>12. /\ q.at = "recording" /\ q.since = 0 /\ q.write = run[c].write
             /\ q.apply = run[c].apply /\ q.keeps = run[c].keeps /\ q.remove = {} /\ q.copy = repo
        BY <1>1, <4>1 DEF Runs
      <4>13. q = [run[c] EXCEPT !.at = "recording", !.copy = repo, !.remove = {}, !.since = 0]
        OBVIOUS
      <4> HIDE DEF q
      <4> QED
        BY <4>11, <4>12, <4>13
    <3>4. run' = [run EXCEPT ![c] = r]
      BY <3>1, <3>3
    <3> QED
      BY <1>1, <3>2, <3>3, <3>4
  <2>2. CASE RecordWrites(c)
    BY <2>2, NoRunIs DEF RecordWrites
  <2> QED
    BY <2>1, <2>2
<1>5. Spared'
  <2>1. ASSUME NEW d \in Callers PROVE run'[d].remove \subseteq run[d].remove
    BY <1>4 DEF IInv, TypeOK
  <2>2. {} \in SUBSET run[c].remove /\ snaps' = snaps \ {} /\ complete' = complete
    BY <1>1
  <2> QED
    BY <2>1, <2>2, RemovalSpares
<1>6. r.since <= edits /\ snaps' \subseteq snaps
  BY <1>1, <1>2, <1>4
<1> QED
  BY <1>1, <1>3, <1>4, <1>5, <1>6, RunChanges

-----------------------------------------------------------------------------
(* The operator, the schedules and the backups.                             *)

LEMMA OperatorKeeps ==
    ASSUME IInv, ApproveReads \/ WithdrawReads \/ OperatorWrites
    PROVE  IInv'
<1>1. UNCHANGED <<keep, snaps, complete, taken, run, edits>>
  BY DEF ApproveReads, WithdrawReads, OperatorWrites
<1>2. repo \in [approved : Keeps, planned : Keeps, planOf : Keeps] /\ 0 \in Keeps
      /\ operator \in [at : {"idle", "writing"}, copy : Repository]
  BY RetentionAssumption DEF IInv, TypeOK, Repository, Keeps
<1>3. operator' \in [at : {"idle", "writing"}, copy : Repository]
  <2>1. CASE ApproveReads
    <3>1. [repo EXCEPT !.approved = repo.planned] \in Repository
      BY <1>2 DEF Repository
    <3> QED
      BY <2>1, <3>1 DEF ApproveReads
  <2>2. CASE WithdrawReads
    <3>1. [repo EXCEPT !.approved = 0] \in Repository
      BY <1>2 DEF Repository
    <3> QED
      BY <2>2, <3>1 DEF WithdrawReads
  <2>3. CASE OperatorWrites
    BY <2>3, NoRunIs DEF OperatorWrites, Idle
  <2> QED
    BY <2>1, <2>2, <2>3
<1>4. repo' \in Repository /\ repo'.approved \in agreed' \cup {0}
      /\ agreed \subseteq agreed' /\ agreed' \subseteq 1..MaxKeep
  <2>1. CASE ApproveReads \/ WithdrawReads
    BY <2>1 DEF ApproveReads, WithdrawReads, IInv, TypeOK, ApprovedWasAgreed
  <2>2. CASE OperatorWrites
    <3>1. operator.copy \in Repository /\ operator.copy.approved \in 0..MaxKeep
      BY <1>2 DEF Repository, Keeps
    <3>2. repo' = operator.copy /\ agreed' = agreed \cup ({operator.copy.approved} \ {0})
      BY <2>2 DEF OperatorWrites
    <3>3. agreed \subseteq 1..MaxKeep
      BY DEF IInv, TypeOK
    <3>4. operator.copy.approved = 0 \/ operator.copy.approved \in 1..MaxKeep
      BY <3>1, RetentionAssumption
    <3> QED
      BY <3>1, <3>2, <3>3, <3>4
  <2> QED
    BY <2>1, <2>2
<1>5. TypeOK'
  BY <1>1, <1>3, <1>4 DEF IInv, TypeOK
<1>6. Writing' /\ ApprovedWasAgreed' /\ AppliesWhatWasApproved'
  BY <1>1, <1>4 DEF IInv, Writing, ApprovedWasAgreed, AppliesWhatWasApproved
<1>7. Spared' /\ LooksWithTheMostGenerous'
  BY <1>1 DEF IInv, Spared, LooksWithTheMostGenerous
<1> QED
  BY <1>5, <1>6, <1>7 DEF IInv

\* A run that began before an edit is one that no longer knows every schedule.
LEMMA EditKeeps ==
    ASSUME IInv, NEW p \in Policies, EditPolicy(p)
    PROVE  IInv'
<1>1. /\ edits' = edits + 1 /\ edits' \in 0..MaxEdits /\ edits \in Nat
      /\ UNCHANGED <<snaps, complete, taken, repo, run, operator, agreed>>
  BY RetentionAssumption DEF EditPolicy, IInv, TypeOK
<1>2. keep' \in [Policies -> -1..MaxKeep]
  BY DEF EditPolicy, IInv, TypeOK
<1>3. TypeOK'
  BY <1>1, <1>2 DEF IInv, TypeOK
<1>4. Writing' /\ ApprovedWasAgreed' /\ AppliesWhatWasApproved' /\ Spared'
  BY <1>1 DEF IInv, Writing, ApprovedWasAgreed, AppliesWhatWasApproved, Spared
<1>5. LooksWithTheMostGenerous'
  <2>1. ASSUME NEW c \in Callers
        PROVE  run[c].since <= edits' /\ run[c].since # edits'
               /\ (run[c].at = "begun" => run[c].remove = {})
    <3>1. run[c].since \in Nat
      BY RetentionAssumption DEF IInv, TypeOK, Runs
    <3> QED
      BY <1>1, <3>1 DEF IInv, LooksWithTheMostGenerous
  <2> QED
    BY <1>1, <2>1 DEF LooksWithTheMostGenerous
<1> QED
  BY <1>3, <1>4, <1>5 DEF IInv

LEMMA BackupsKeep ==
    ASSUME IInv, BackupLands \/ RecordCompletion
    PROVE  IInv'
<1>1. UNCHANGED <<keep, repo, run, operator, agreed, edits>>
  BY DEF BackupLands, RecordCompletion
<1>2. /\ taken' \in 0..MaxSnapshots /\ snaps' \subseteq 1..taken' /\ complete' \subseteq 1..taken'
      /\ snaps \subseteq snaps' /\ complete \subseteq complete'
  <2>1. taken \in 0..MaxSnapshots /\ snaps \subseteq 1..taken /\ complete \subseteq 1..taken
    BY DEF IInv, TypeOK
  <2>2. CASE BackupLands
    <3>1. taken' = taken + 1 /\ taken < MaxSnapshots /\ snaps' = snaps \cup {taken + 1} /\ complete' = complete
      BY <2>2 DEF BackupLands
    <3>2. taken + 1 \in 0..MaxSnapshots /\ taken + 1 \in 1..(taken + 1) /\ 1..taken \subseteq 1..(taken + 1)
      BY <2>1, <3>1, RetentionAssumption
    <3> QED
      BY <2>1, <3>1, <3>2
  <2>3. CASE RecordCompletion
    BY <2>1, <2>3 DEF RecordCompletion
  <2> QED
    BY <2>2, <2>3
<1>3. TypeOK'
  BY <1>1, <1>2 DEF IInv, TypeOK
<1>4. Spared'
  BY <1>1, <1>2 DEF IInv, Spared
<1>5. Writing' /\ ApprovedWasAgreed' /\ AppliesWhatWasApproved' /\ LooksWithTheMostGenerous'
  BY <1>1 DEF IInv, Writing, ApprovedWasAgreed, AppliesWhatWasApproved, LooksWithTheMostGenerous
<1> QED
  BY <1>3, <1>4, <1>5 DEF IInv

LEMMA NextKeeps ==
    ASSUME IInv, [Next]_vars
    PROVE  IInv'
<1>1. CASE Sweep \/ PressPlanOrRun
  <2>1. "sweep" \in Callers /\ "page" \in Callers
    BY DEF Callers
  <2> QED
    BY <1>1, <2>1, BeginKeeps DEF Sweep, PressPlanOrRun
<1>2. ASSUME NEW c \in Callers,
             Preview(c) \/ ForgetPreviewed(c) \/ RunFails(c) \/ RecordReads(c) \/ RecordWrites(c)
      PROVE  IInv'
  BY <1>2, PreviewKeeps, ForgetKeeps, RecordKeeps
<1>3. CASE ApproveReads \/ WithdrawReads \/ OperatorWrites
  BY <1>3, OperatorKeeps
<1>4. ASSUME NEW p \in Policies, EditPolicy(p) PROVE IInv'
  BY <1>4, EditKeeps
<1>5. CASE BackupLands \/ RecordCompletion
  BY <1>5, BackupsKeep
<1>6. CASE UNCHANGED vars
  <2>1. UNCHANGED <<keep, snaps, complete, taken, repo, run, operator, agreed, edits>>
    BY <1>6 DEF vars
  <2>2. TypeOK' /\ Writing' /\ ApprovedWasAgreed'
    BY <2>1 DEF IInv, TypeOK, Writing, ApprovedWasAgreed
  <2>3. AppliesWhatWasApproved' /\ Spared' /\ LooksWithTheMostGenerous'
    BY <2>1 DEF IInv, AppliesWhatWasApproved, Spared, LooksWithTheMostGenerous
  <2> QED
    BY <2>2, <2>3 DEF IInv
<1> QED
  BY <1>1, <1>2, <1>3, <1>4, <1>5, <1>6 DEF Next

\* The invariant the others rest on holds in every state.
THEOREM Invariance == Spec => []IInv
<1>1. Init => IInv
  BY Initially
<1>2. IInv /\ [Next]_vars => IInv'
  BY NextKeeps
<1> QED
  BY <1>1, <1>2, PTL DEF Spec

\* What is being applied is a policy an operator approved, for any schedules,
\* edits, failures and records written back late (ApplyRetention).
THEOREM AppliesTheApproved == Spec => []AppliesWhatWasApproved
<1>1. IInv => AppliesWhatWasApproved
  BY DEF IInv
<1> QED
  BY <1>1, Invariance, PTL

\* The newest backup known to be whole is never removed, whatever lands or is
\* edited while any run is under way (ForgetPlanned).
THEOREM NewestStays == Spec => KnownGoodStays
<1> DEFINE Stays == \A s \in snaps \cap complete : s = Max(snaps \cap complete) => s \in snaps'
<1>1. ASSUME IInv, [Next]_vars PROVE [Stays]_vars
  <2>1. CASE snaps \subseteq snaps'
    BY <2>1
  <2>2. ASSUME NEW c \in Callers, NEW gone \in SUBSET run[c].remove, snaps' = snaps \ gone
        PROVE  Stays
    <3> SUFFICES ASSUME NEW s \in snaps \cap complete, s = Max(snaps \cap complete)
                 PROVE  s \in snaps'
      OBVIOUS
    <3>1. PICK top \in snaps \cap complete : (\A t \in snaps \cap complete : t <= top) /\ top \notin gone
      BY <1>1, NewestIsSpared
    <3>2. MaxSnapshots \in Nat /\ snaps \cap complete \in SUBSET (0..MaxSnapshots)
      BY <1>1, RetentionAssumption DEF IInv, TypeOK
    <3>3. top <= s
      BY <3>1, <3>2, LargestIs
    <3>4. s <= top /\ s \in Nat /\ top \in Nat
      BY <3>1, <3>2
    <3>5. s = top
      BY <3>3, <3>4
    <3> QED
      BY <2>2, <3>1, <3>5
  <2>3. CASE UNCHANGED vars
    BY <2>3, <2>1 DEF vars
  <2>4. CASE \E c \in Callers : ForgetPreviewed(c) \/ RunFails(c)
    <3>1. \E c \in Callers : \E gone \in SUBSET run[c].remove : snaps' = snaps \ gone
      BY <2>4 DEF ForgetPreviewed, RunFails
    <3> HIDE DEF Stays
    <3> QED
      BY <3>1, <2>2
  <2>5. CASE Next /\ ~(\E c \in Callers : ForgetPreviewed(c) \/ RunFails(c))
    <3>1. snaps \subseteq snaps'
      BY <2>5 DEF Next, Sweep, PressPlanOrRun, Preview, RecordReads, RecordWrites, ApproveReads,
         WithdrawReads, OperatorWrites, EditPolicy, BackupLands, RecordCompletion
    <3> QED
      BY <3>1, <2>1
  <2> HIDE DEF Stays
  <2> QED
    BY <1>1, <2>3, <2>4, <2>5
<1>2. IInv /\ [Next]_vars => [Stays]_vars
  BY <1>1
<1> QED
  BY <1>2, Invariance, PTL DEF Spec, KnownGoodStays

\* No backup is named for removal that some enabled schedule keeps, unless the
\* schedules were edited since the call began (MergedRetention).
THEOREM NoScheduleLoses == Spec => MostGenerousIsKept
<1> DEFINE Kept == \A c \in Callers :
       run[c].at = "begun" /\ run[c].since = edits
         => \A s \in run'[c].remove, p \in Policies :
              Cardinality({t \in snaps : t >= s}) > keep[p]
<1>1. ASSUME IInv, [Next]_vars PROVE [Kept]_vars
  <2> SUFFICES ASSUME ~UNCHANGED vars, NEW c \in Callers, run[c].at = "begun", run[c].since = edits,
                      NEW s \in run'[c].remove, NEW p \in Policies
               PROVE  Cardinality({t \in snaps : t >= s}) > keep[p]
    OBVIOUS
  <2>1. run[c] \in Runs /\ run \in [Callers -> Runs] /\ run[c].remove = {}
    BY <1>1 DEF IInv, TypeOK, LooksWithTheMostGenerous
  <2>2. run' # run
    BY <2>1
  <2>3. Preview(c) /\ run[c].apply
    <3>1. CASE Sweep \/ PressPlanOrRun
      <4>1. PICK d \in Callers : /\ run[d].at = "idle"
                                 /\ \E apply \in BOOLEAN : run' = [run EXCEPT ![d] = Begun(apply)]
        BY <3>1 DEF Sweep, PressPlanOrRun, PlanRetention, ApplyRetention, Callers
      <4>2. d # c
        BY <4>1
      <4>3. run'[c] = run[c]
        BY <2>1, <4>1, <4>2
      <4> QED
        BY <2>1, <4>3
    <3>2. ASSUME NEW d \in Callers, d # c,
                 Preview(d) \/ ForgetPreviewed(d) \/ RunFails(d) \/ RecordReads(d) \/ RecordWrites(d)
          PROVE  FALSE
      <4>1. run'[c] = run[c]
        BY <2>1, <3>2 DEF Preview, ForgetPreviewed, RunFails, RecordReads, RecordWrites
      <4> QED
        BY <2>1, <4>1
    <3>3. ASSUME RunFails(c) PROVE FALSE
      <4>1. run'[c] = [NoRun EXCEPT !.at = "done", !.write = "attempted"]
        BY <2>1, <3>3 DEF RunFails
      <4> QED
        BY <4>1 DEF NoRun
    <3>4. ASSUME ForgetPreviewed(c) \/ RecordReads(c) \/ RecordWrites(c) PROVE FALSE
      BY <3>4 DEF ForgetPreviewed, RecordReads, RecordWrites
    <3>5. ASSUME Preview(c), ~run[c].apply PROVE FALSE
      <4>1. run'[c] = [run[c] EXCEPT !.at = "done", !.write = "planned"]
        BY <2>1, <3>5 DEF Preview
      <4>2. run'[c].remove = run[c].remove
        BY <2>1, <4>1 DEF Runs
      <4> QED
        BY <2>1, <4>2
    <3>6. ASSUME \/ ApproveReads \/ WithdrawReads \/ OperatorWrites
                 \/ \E q \in Policies : EditPolicy(q)
                 \/ BackupLands \/ RecordCompletion
          PROVE  FALSE
      BY <2>2, <3>6 DEF ApproveReads, WithdrawReads, OperatorWrites, EditPolicy, BackupLands, RecordCompletion
    <3> QED
      BY <1>1, <3>1, <3>2, <3>3, <3>4, <3>5, <3>6 DEF Next
  <2>4. run'[c] = [run[c] EXCEPT !.at = "previewed", !.remove = SafeToRemove(run[c].keeps), !.write = "applied"]
    BY <2>1, <2>3 DEF Preview
  <2>5. s \in SafeToRemove(run[c].keeps)
    BY <2>1, <2>4 DEF Runs
  <2>6. run[c].keeps \in Keeps /\ run[c].keeps # 0 /\ keep[p] <= run[c].keeps
    BY <1>1, <2>1, <2>3 DEF IInv, TypeOK, LooksWithTheMostGenerous, Runs
  <2>7. Cardinality({t \in snaps : t >= s}) > run[c].keeps
    BY <1>1, <2>5, <2>6, SafeIs
  <2>8. Cardinality({t \in snaps : t >= s}) \in Nat /\ keep[p] \in Int /\ run[c].keeps \in Int
    <3>1. snaps \in SUBSET (1..MaxSnapshots)
      BY <1>1, RetentionAssumption DEF IInv, TypeOK
    <3>2. IsFiniteSet(1..MaxSnapshots)
      BY FS_Interval, RetentionAssumption
    <3>3. IsFiniteSet({t \in snaps : t >= s})
      BY <3>1, <3>2, FS_Subset
    <3>4. keep[p] \in Int /\ run[c].keeps \in Int
      BY <1>1, <2>6 DEF IInv, TypeOK, Keeps
    <3> QED
      BY <3>3, <3>4, FS_CardinalityType
  <2> QED
    BY <2>6, <2>7, <2>8
<1>2. IInv /\ [Next]_vars => [Kept]_vars
  BY <1>1
<1> QED
  BY <1>2, Invariance, PTL DEF Spec, MostGenerousIsKept

-----------------------------------------------------------------------------
\* Whose the backups under a name are

\* Induction over the naturals, for a set instead of a predicate.
LEMMA FromZeroUp ==
    ASSUME NEW S, 0 \in S, \A t \in Nat : t \in S => t + 1 \in S
    PROVE  \A t \in Nat : t \in S
<1> DEFINE out == Nat \ S
           less == OpToRel(<, Nat)
<1>1. IsWellFoundedOn(less, Nat)
  BY NatLessThanWellFounded
<1>2. \A d, e \in Nat : e < d => <<e, d>> \in less
  BY Zenon DEF OpToRel
<1> HIDE DEF less
<1>3. SUFFICES ASSUME out # {} PROVE FALSE
  OBVIOUS
<1>4. PICK d \in out : \A e \in out : <<e, d>> \notin less
  BY <1>1, <1>3, WFMin
<1>5. d \in Nat /\ d # 0
  BY <1>4
<1>6. d - 1 \in Nat /\ d - 1 < d /\ d = (d - 1) + 1
  BY <1>5
<1>7. d - 1 \in S
  BY <1>2, <1>4, <1>5, <1>6
<1> QED
  BY <1>4, <1>6, <1>7

\* What ReplayHookSpool computes, one time after another: the function its
\* definition chooses exists.
LEMMA ReplayIsStepwise ==
    ASSUME now \in Nat, NEW st, NEW refused
    PROVE  \E done : /\ done[0] = st
                     /\ \A t \in Nat : t < now => done[t + 1] = ReplayedAt(done[t], refused, t)
                     /\ ReplayHookSpool(st, refused) = done[now]
<1> DEFINE Step(f, t) == IF t = 0 THEN st ELSE ReplayedAt(f[t - 1], refused, t - 1)
           Is(f, m) == f = [t \in 0..m |-> Step(f, t)]
           S == {m \in Nat : \E f : Is(f, m)}
<1>1. 0 \in S
  <2>1. Is([t \in 0..0 |-> st], 0)
    <3>1. \A t \in 0..0 : t = 0
      OBVIOUS
    <3> QED
      BY <3>1
  <2> QED
    BY <2>1
<1>2. ASSUME NEW m \in Nat, m \in S PROVE m + 1 \in S
  <2>1. PICK f : Is(f, m)
    BY <1>2
  <2> DEFINE g == [t \in 0..(m + 1) |-> IF t = m + 1 THEN ReplayedAt(f[m], refused, m) ELSE f[t]]
  <2>2. \A t \in 0..m : f[t] = Step(f, t)
    <3> HIDE DEF Step
    <3> QED  BY <2>1
  <2>3. ASSUME NEW t \in 0..(m + 1) PROVE g[t] = Step(g, t)
    <3>1. CASE t = m + 1
      <4>1. t # 0 /\ t - 1 = m /\ m \in 0..(m + 1) /\ m # m + 1
        BY <3>1
      <4>2. g[t] = ReplayedAt(f[m], refused, m) /\ g[m] = f[m]
        BY <3>1, <4>1
      <4> QED
        BY <4>1, <4>2
    <3>2. CASE t # m + 1
      <4>1. t \in 0..m
        BY <3>2
      <4>2. g[t] = f[t] /\ f[t] = Step(f, t)
        BY <2>2, <3>2, <4>1
      <4>3. CASE t = 0
        BY <4>2, <4>3
      <4>4. CASE t # 0
        <5>1. t - 1 \in 0..(m + 1) /\ t - 1 # m + 1
          BY <4>1, <4>4
        <5>2. g[t - 1] = f[t - 1]
          BY <5>1
        <5> QED
          BY <4>2, <4>4, <5>2
      <4> QED
        BY <4>3, <4>4
    <3> QED
      BY <3>1, <3>2
  <2>4. Is(g, m + 1)
    <3>1. g = [t \in 0..(m + 1) |-> g[t]]
      OBVIOUS
    <3> HIDE DEF g, Step
    <3> QED
      BY <2>3, <3>1
  <2> HIDE DEF g
  <2>5. \E e : Is(e, m + 1)
    BY <2>4
  <2> QED
    BY <2>5
<1>3. now \in S
  <2> HIDE DEF S
  <2> QED  BY <1>1, <1>2, FromZeroUp
<1> DEFINE done == CHOOSE f : f = [t \in 0..now |-> IF t = 0 THEN st ELSE ReplayedAt(f[t - 1], refused, t - 1)]
<1>4. Is(done, now)
  <2>1. \E f : f = [t \in 0..now |-> IF t = 0 THEN st ELSE ReplayedAt(f[t - 1], refused, t - 1)]
    BY <1>3
  <2> QED
    BY <2>1
<1>5. ReplayHookSpool(st, refused) = done[now]
  BY DEF ReplayHookSpool
<1> HIDE DEF done
<1>6. \A t \in 0..now : done[t] = Step(done, t)
  <2> HIDE DEF Step
  <2> QED  BY <1>4
<1>7. done[0] = st
  BY <1>6
<1>8. ASSUME NEW t \in Nat, t < now PROVE done[t + 1] = ReplayedAt(done[t], refused, t)
  <2>1. t + 1 \in 0..now /\ t + 1 # 0 /\ (t + 1) - 1 = t
    BY <1>8
  <2> QED
    BY <1>6, <2>1
<1> QED
  BY <1>5, <1>7, <1>8

-----------------------------------------------------------------------------
\* Whose the things filed under a name are, and those that are about to be.

Items == snapshots \cup restores \cup underway

\* What is filed under a name and is not its present holder's
Foreign(n) == {x \in Items : x.name = n /\ ~(Exists(n) /\ x.owner = Holder(n))}

\* An event that will put the boundary after all of that once it is replayed
Fixes(k, n) ==
  /\ k.name = n
  /\ k.event = "remove" \/ (Exists(n) /\ \A x \in Foreign(n) : x.at < k.at)

\* The record keeps the present holder, if there is one, from all of that
Bounded(st, n) ==
  /\ Known(st, n)
  /\ \/ st.ids[n].retired
     \/ /\ Exists(n)
        /\ \/ st.ids[n].uid # passwd[n].uid
           \/ st.ids[n].recycled /\ \A x \in Foreign(n) : x.at < st.ids[n].since

\* A boundary at or after the event is on record
Recorded(st, h) ==
  Known(st, h.name) /\ st.ids[h.name].recycled /\ st.ids[h.name].since >= h.at

\* With these entries to come the name's holders are kept apart, and no entry
\* undoes what a later one will not do again
Apart(st, entries, n) ==
  /\ Foreign(n) = {} \/ Bounded(st, n) \/ \E k \in entries : Fixes(k, n)
  /\ \A h \in entries :
       h.name = n /\ h.event = "create" =>
         Fixes(h, n) \/ Recorded(st, h) \/ \E k \in entries : Fixes(k, n) /\ k.at > h.at

\* Everything that is filed was filed in the past, and no two events coincide.
Clock ==
  /\ \A x \in Items : x.at < now
  /\ \A r \in restores : r.since <= r.at
  /\ \A h \in hooks \cup spool : h.at < now
  /\ \A h, k \in hooks \cup spool : h.at = k.at => h = k

LEMMA IdentityIs ==
    ASSUME IdentityTypeOK, NEW u \in Uids, NEW t \in Nat, NEW b \in BOOLEAN
    PROVE  /\ Identity(u, t, b) \in Identities
           /\ Identity(u, t, b) # NoOne
           /\ Identity(u, t, b).uid = u /\ Identity(u, t, b).since = t
           /\ Identity(u, t, b).recycled = b /\ ~Identity(u, t, b).retired
<1>1. Identity(u, t, b) \in Identities
  BY DEF Identity, Identities
<1>2. Identity(u, t, b).uid = u /\ Identity(u, t, b).since = t /\ Identity(u, t, b).recycled = b
  BY DEF Identity
<1>3. ~Identity(u, t, b).retired
  BY DEF Identity
<1> QED
  BY <1>1, <1>2, <1>3, IdentityAssumption

LEMMA CreatedIs ==
    ASSUME IdentityTypeOK, NEW st \in Stores, NEW n \in Names, NEW at \in Nat
    PROVE  /\ AccountCreated(st, n, at) \in Stores
           /\ AccountCreated(st, n, at).policy = st.policy
           /\ AccountCreated(st, n, at).backfilled = st.backfilled
           /\ \A m \in Names : m # n => AccountCreated(st, n, at).ids[m] = st.ids[m]
           /\ ~Exists(n) => AccountCreated(st, n, at) = st
           /\ Known(st, n) /\ st.ids[n].recycled /\ st.ids[n].since >= at
                => AccountCreated(st, n, at) = st
           /\ Exists(n) /\ ~(Known(st, n) /\ st.ids[n].recycled /\ st.ids[n].since >= at)
                => AccountCreated(st, n, at).ids[n] = Identity(passwd[n].uid, at, TRUE)
<1>1. CASE ~Exists(n) \/ (Known(st, n) /\ st.ids[n].recycled /\ st.ids[n].since >= at)
  <2>1. AccountCreated(st, n, at) = st
    BY <1>1 DEF AccountCreated
  <2> QED
    BY <1>1, <2>1
<1>2. CASE ~(~Exists(n) \/ (Known(st, n) /\ st.ids[n].recycled /\ st.ids[n].since >= at))
  <2> DEFINE id == Identity(passwd[n].uid, at, TRUE)
  <2>1. AccountCreated(st, n, at) = [st EXCEPT !.ids[n] = id]
    BY <1>2 DEF AccountCreated
  <2>2. id \in Identities
    <3>1. passwd[n].uid \in Uids
      BY <1>2 DEF IdentityTypeOK, Exists, Holders
    <3> QED
      BY <3>1, IdentityIs
  <2> HIDE DEF id
  <2>3. [st EXCEPT !.ids[n] = id] \in Stores
    BY <2>2 DEF Stores
  <2>4. /\ [st EXCEPT !.ids[n] = id].policy = st.policy
        /\ [st EXCEPT !.ids[n] = id].backfilled = st.backfilled
        /\ [st EXCEPT !.ids[n] = id].ids = [st.ids EXCEPT ![n] = id]
    BY DEF Stores
  <2>5. /\ \A m \in Names : m # n => [st.ids EXCEPT ![n] = id][m] = st.ids[m]
        /\ [st.ids EXCEPT ![n] = id][n] = id
    BY DEF Stores
  <2> QED
    BY <1>2, <2>1, <2>3, <2>4, <2>5 DEF id
<1> QED
  BY <1>1, <1>2

LEMMA RemovedIs ==
    ASSUME NEW st \in Stores, NEW n \in Names
    PROVE  /\ AccountRemoved(st, n) \in Stores
           /\ AccountRemoved(st, n).backfilled = st.backfilled
           /\ \A m \in Names : m # n => AccountRemoved(st, n).ids[m] = st.ids[m]
           /\ ~Known(st, n) => AccountRemoved(st, n).ids[n] = st.ids[n]
           /\ Known(st, n) => /\ AccountRemoved(st, n).ids[n] \in Identities
                              /\ AccountRemoved(st, n).ids[n].retired
                              /\ AccountRemoved(st, n).ids[n].uid = st.ids[n].uid
                              /\ AccountRemoved(st, n).ids[n].since = st.ids[n].since
                              /\ AccountRemoved(st, n).ids[n].recycled = st.ids[n].recycled
           /\ (st.policy.enabled => st.policy.accounts # {}) =>
                (AccountRemoved(st, n).policy.enabled => AccountRemoved(st, n).policy.accounts # {})
<1> DEFINE kept == st.policy.accounts \ {n}
           id == IF Known(st, n) THEN [st.ids[n] EXCEPT !.retired = TRUE] ELSE st.ids[n]
           policy == IF kept = st.policy.accounts THEN st.policy
                     ELSE [accounts |-> kept, enabled |-> st.policy.enabled /\ kept # {}]
           new == [st EXCEPT !.ids[n] = id, !.policy = policy]
<1>1. AccountRemoved(st, n) = new
  BY DEF AccountRemoved
<1>2. st.ids[n] \in Identities \cup {NoOne}
  BY DEF Stores
<1>3. Known(st, n) => /\ id \in Identities /\ id.retired /\ id.uid = st.ids[n].uid
                      /\ id.since = st.ids[n].since /\ id.recycled = st.ids[n].recycled
  <2>1. SUFFICES ASSUME Known(st, n)
                 PROVE  /\ id \in Identities /\ id.retired /\ id.uid = st.ids[n].uid
                        /\ id.since = st.ids[n].since /\ id.recycled = st.ids[n].recycled
    OBVIOUS
  <2>2. st.ids[n] \in Identities /\ id = [st.ids[n] EXCEPT !.retired = TRUE]
    BY <1>2, <2>1 DEF Known
  <2>3. id \in Identities
    BY <2>2 DEF Identities
  <2>4. id.uid = st.ids[n].uid /\ id.since = st.ids[n].since /\ id.recycled = st.ids[n].recycled
    BY <2>2 DEF Identities
  <2>5. id.retired
    BY <2>2 DEF Identities
  <2> QED
    BY <2>3, <2>4, <2>5
<1>4. ~Known(st, n) => id = st.ids[n]
  OBVIOUS
<1>5. id \in Identities \cup {NoOne}
  BY <1>2, <1>3, <1>4
<1>6. st.policy \in [accounts : SUBSET Names, enabled : BOOLEAN]
  BY DEF Stores
<1>7. policy \in [accounts : SUBSET Names, enabled : BOOLEAN]
  BY <1>6
<1>8. (st.policy.enabled => st.policy.accounts # {}) => (policy.enabled => policy.accounts # {})
  BY <1>6
<1> HIDE DEF id, policy
<1>9. new \in Stores
  BY <1>5, <1>7 DEF Stores
<1>10. /\ new.policy = policy /\ new.backfilled = st.backfilled
       /\ new.ids = [st.ids EXCEPT ![n] = id]
  BY DEF Stores
<1>11. /\ \A m \in Names : m # n => [st.ids EXCEPT ![n] = id][m] = st.ids[m]
       /\ [st.ids EXCEPT ![n] = id][n] = id
  BY DEF Stores
<1> HIDE DEF new
<1> QED
  BY <1>1, <1>3, <1>4, <1>8, <1>9, <1>10, <1>11

LEMMA NotedIs ==
    ASSUME IdentityTypeOK, NEW st \in Stores, NEW n \in Names, Exists(n), NEW t \in Nat
    PROVE  /\ noteIdentity(st, n, t) \in Stores
           /\ noteIdentity(st, n, t).policy = st.policy
           /\ noteIdentity(st, n, t).backfilled = st.backfilled
           /\ \A m \in Names : m # n => noteIdentity(st, n, t).ids[m] = st.ids[m]
           /\ noteIdentity(st, n, t).ids[n] =
                IF ~Known(st, n) THEN Identity(passwd[n].uid, t, st.backfilled)
                ELSE IF st.ids[n].retired \/ st.ids[n].uid # passwd[n].uid
                     THEN Identity(passwd[n].uid, t, TRUE)
                ELSE st.ids[n]
           /\ noteIdentity(st, n, t).ids[n] \in Identities
           /\ Known(noteIdentity(st, n, t), n)
<1> DEFINE id == IF ~Known(st, n) THEN Identity(passwd[n].uid, t, st.backfilled)
                 ELSE IF st.ids[n].retired \/ st.ids[n].uid # passwd[n].uid
                      THEN Identity(passwd[n].uid, t, TRUE)
                 ELSE st.ids[n]
<1>1. noteIdentity(st, n, t) = [st EXCEPT !.ids[n] = id]
  BY DEF noteIdentity
<1>2. id \in Identities
  <2>1. passwd[n].uid \in Uids
    BY DEF IdentityTypeOK, Exists, Holders
  <2>2. st.backfilled \in BOOLEAN /\ (Known(st, n) => st.ids[n] \in Identities)
    BY DEF Stores, Known
  <2>3. Identity(passwd[n].uid, t, st.backfilled) \in Identities
    BY <2>1, <2>2, IdentityIs
  <2>4. Identity(passwd[n].uid, t, TRUE) \in Identities
    BY <2>1, IdentityIs
  <2> QED
    BY <2>2, <2>3, <2>4
<1> HIDE DEF id
<1>3. [st EXCEPT !.ids[n] = id] \in Stores
  BY <1>2 DEF Stores
<1>4. /\ [st EXCEPT !.ids[n] = id].policy = st.policy
      /\ [st EXCEPT !.ids[n] = id].backfilled = st.backfilled
      /\ [st EXCEPT !.ids[n] = id].ids = [st.ids EXCEPT ![n] = id]
  BY DEF Stores
<1>5. /\ \A m \in Names : m # n => [st.ids EXCEPT ![n] = id][m] = st.ids[m]
      /\ [st.ids EXCEPT ![n] = id][n] = id
  BY DEF Stores
<1>6. noteIdentity(st, n, t).ids[n] = id
  BY <1>1, <1>4, <1>5
<1>7. Known(noteIdentity(st, n, t), n)
  BY <1>2, <1>6, IdentityAssumption DEF Known
<1> QED
  BY <1>1, <1>2, <1>3, <1>4, <1>5, <1>6, <1>7 DEF id

-----------------------------------------------------------------------------
\* What a replay keeps.

\* Every boundary on record is in the past.
Dated(st) == \A n \in Names : Known(st, n) => st.ids[n].since < now

\* The record of a name says what the server says of it
Agrees(ids, n) == ids[n] # NoOne /\ ids[n].uid = passwd[n].uid /\ ~ids[n].retired

\* A snapshot of the name's that the record, as it stands, shows
Seen(st, n, s) ==
  Exists(n) /\ Agrees(st.ids, n) /\ (st.ids[n].recycled => s.at >= st.ids[n].since)

LEMMA ReplayedIs ==
    ASSUME IdentityTypeOK, Clock, NEW st \in Stores, NEW h \in spool
    PROVE  /\ Replayed(st, h) \in Stores
           /\ Replayed(st, h).backfilled = st.backfilled
           /\ \A n \in Names : n # h.name => Replayed(st, h).ids[n] = st.ids[n]
           /\ \A n \in Names : Known(st, n) => Known(Replayed(st, h), n)
           /\ Dated(st) => Dated(Replayed(st, h))
           /\ (st.policy.enabled => st.policy.accounts # {}) =>
                (Replayed(st, h).policy.enabled => Replayed(st, h).policy.accounts # {})
           /\ \A n \in Names :
                ~Exists(n) /\ (Known(st, n) => st.ids[n].retired) =>
                  (Known(Replayed(st, h), n) => Replayed(st, h).ids[n].retired)
<1>1. h.name \in Names /\ h.at \in Nat /\ h.at < now /\ h.event \in {"create", "remove"}
  BY DEF IdentityTypeOK, Events, Spooled, Clock
<1> DEFINE n == h.name
<1>2. CASE h.event = "create"
  <2> DEFINE nx == AccountCreated(st, n, h.at)
  <2>1. Replayed(st, h) = nx
    BY <1>2 DEF Replayed
  <2>2. /\ nx \in Stores /\ nx.policy = st.policy /\ nx.backfilled = st.backfilled
        /\ \A m \in Names : m # n => nx.ids[m] = st.ids[m]
        /\ ~Exists(n) => nx = st
        /\ nx = st \/ nx.ids[n] = Identity(passwd[n].uid, h.at, TRUE)
    BY <1>1, CreatedIs
  <2> HIDE DEF nx
  <2>3. CASE nx = st
    BY <2>1, <2>2, <2>3
  <2>4. CASE nx # st
    <3>1. Exists(n) /\ passwd[n].uid \in Uids
      BY <1>1, <2>2, <2>4 DEF IdentityTypeOK, Exists, Holders
    <3>2. nx.ids[n] # NoOne /\ nx.ids[n].since = h.at
      <4>1. nx.ids[n] = Identity(passwd[n].uid, h.at, TRUE)
        BY <2>2, <2>4
      <4>2. /\ Identity(passwd[n].uid, h.at, TRUE) # NoOne
            /\ Identity(passwd[n].uid, h.at, TRUE).since = h.at
        BY <1>1, <3>1, IdentityIs
      <4> QED
        BY <4>1, <4>2
    <3>3. \A m \in Names : Known(st, m) => Known(nx, m)
      BY <2>2, <3>2 DEF Known
    <3>4. Dated(st) => Dated(nx)
      BY <1>1, <2>2, <3>2 DEF Dated, Known
    <3>5. \A m \in Names : ~Exists(m) /\ (Known(st, m) => st.ids[m].retired) =>
                             (Known(nx, m) => nx.ids[m].retired)
      BY <2>2, <3>1 DEF Known
    <3> QED
      BY <2>1, <2>2, <3>3, <3>4, <3>5
  <2> QED
    BY <2>3, <2>4
<1>3. CASE h.event # "create"
  <2> DEFINE nx == AccountRemoved(st, n)
  <2>1. Replayed(st, h) = nx
    BY <1>3 DEF Replayed
  <2>2. /\ nx \in Stores /\ nx.backfilled = st.backfilled
        /\ \A m \in Names : m # n => nx.ids[m] = st.ids[m]
        /\ ~Known(st, n) => nx.ids[n] = st.ids[n]
        /\ Known(st, n) => nx.ids[n] \in Identities /\ nx.ids[n].retired /\ nx.ids[n].since = st.ids[n].since
        /\ (st.policy.enabled => st.policy.accounts # {}) =>
             (nx.policy.enabled => nx.policy.accounts # {})
    BY <1>1, RemovedIs
  <2> HIDE DEF nx
  <2>3. \A m \in Names : Known(st, m) <=> Known(nx, m)
    BY <2>2, IdentityAssumption DEF Known
  <2>4. Dated(st) => Dated(nx)
    <3> SUFFICES ASSUME Dated(st), NEW m \in Names, Known(nx, m) PROVE nx.ids[m].since < now
      BY DEF Dated
    <3>1. Known(st, m) /\ st.ids[m].since < now
      BY <2>3 DEF Dated
    <3>2. nx.ids[m].since = st.ids[m].since
      BY <2>2, <3>1
    <3> QED
      BY <3>1, <3>2
  <2>5. \A m \in Names : ~Exists(m) /\ (Known(st, m) => st.ids[m].retired) =>
                           (Known(nx, m) => nx.ids[m].retired)
    BY <2>2, <2>3
  <2> QED
    BY <2>1, <2>2, <2>3, <2>4, <2>5
<1> QED
  BY <1>2, <1>3

\* Replaying one entry, which stays to be replayed again or does not, keeps
\* the holders of a name apart: a create moves the boundary back only if a
\* later entry moves it on, and a remove is not taken away from under an
\* earlier create that stays.
LEMMA ApartStep ==
    ASSUME IdentityTypeOK, Clock, NEW st \in Stores, NEW n \in Names,
           NEW S \in SUBSET spool, NEW h \in S, NEW T \in SUBSET S, S \subseteq T \cup {h},
           Apart(st, S, n), Foreign(n) # {} => Known(st, n),
           h \notin T /\ h.name = n /\ h.event = "remove" =>
             \A g \in T : g.name = n /\ g.event = "create" => ~(g.at < h.at)
    PROVE  Apart(Replayed(st, h), T, n)
<1> DEFINE nx == Replayed(st, h)
<1> SUFFICES Apart(nx, T, n)
  OBVIOUS
<1>1. h.name \in Names /\ h.at \in Nat /\ h.at < now /\ h.event \in {"create", "remove"}
  BY DEF IdentityTypeOK, Events, Spooled, Clock
<1>t. \A k \in S : k.at \in Nat /\ k.event \in {"create", "remove"}
  BY DEF IdentityTypeOK, Events, Spooled
<1>x. \A x \in Items : x.at \in Nat
  BY DEF IdentityTypeOK, Items
<1>y. Known(st, n) => st.ids[n].since \in Nat
  BY DEF Stores, Known, Identities
<1>2. CASE h.name # n
  <2>1. nx.ids[n] = st.ids[n]
    BY <1>2, ReplayedIs
  <2>2. \A k \in S : k.name = n => k \in T
    BY <1>2
  <2>3. \A k \in S : Fixes(k, n) => k \in T
    BY <2>2 DEF Fixes
  <2>4. Bounded(nx, n) <=> Bounded(st, n)
    BY <2>1 DEF Bounded, Known
  <2>5. \A g \in S : g.name = n => (Recorded(nx, g) <=> Recorded(st, g))
    BY <2>1 DEF Recorded, Known
  <2> HIDE DEF nx
  <2> QED
    BY <2>3, <2>4, <2>5 DEF Apart
<1>3. CASE h.name = n /\ h.event = "remove"
  <2>1. nx = AccountRemoved(st, n)
    BY <1>3 DEF Replayed
  <2>2. /\ ~Known(st, n) => nx.ids[n] = st.ids[n]
        /\ Known(st, n) => /\ nx.ids[n] \in Identities /\ nx.ids[n].retired
                           /\ nx.ids[n].since = st.ids[n].since
                           /\ nx.ids[n].recycled = st.ids[n].recycled
    BY <2>1, RemovedIs
  <2>3. Known(st, n) <=> Known(nx, n)
    BY <2>2, IdentityAssumption DEF Known
  <2> HIDE DEF nx
  <2>4. \A g \in S : g.name = n => (Recorded(st, g) => Recorded(nx, g))
    BY <2>2, <2>3 DEF Recorded
  <2>5. Foreign(n) = {} \/ Bounded(nx, n)
    BY <2>2, <2>3 DEF Bounded
  <2>6. ASSUME NEW g \in T, g.name = n, g.event = "create"
        PROVE  Fixes(g, n) \/ Recorded(nx, g) \/ \E k \in T : Fixes(k, n) /\ k.at > g.at
    <3>1. Fixes(g, n) \/ Recorded(st, g) \/ \E k \in S : Fixes(k, n) /\ k.at > g.at
      BY <2>6 DEF Apart
    <3>2. ASSUME NEW k \in S, Fixes(k, n), k.at > g.at
          PROVE  \E j \in T : Fixes(j, n) /\ j.at > g.at
      <4>1. CASE k = h
        <5>1. h \in T
          BY <1>3, <1>t, <2>6, <3>2, <4>1
        <5> QED
          BY <3>2, <4>1, <5>1
      <4>2. CASE k # h
        BY <3>2, <4>2
      <4> QED
        BY <4>1, <4>2
    <3> QED
      BY <2>4, <2>6, <3>1, <3>2
  <2> QED
    BY <2>5, <2>6 DEF Apart
<1>4. CASE h.name = n /\ h.event = "create"
  <2>1. nx = AccountCreated(st, n, h.at)
    BY <1>4 DEF Replayed
  <2> DEFINE done == Known(st, n) /\ st.ids[n].recycled /\ st.ids[n].since >= h.at
  <2>2. /\ ~Exists(n) => nx = st
        /\ done => nx = st
        /\ Exists(n) /\ ~done => nx.ids[n] = Identity(passwd[n].uid, h.at, TRUE)
    <3>1. /\ ~Exists(n) => AccountCreated(st, n, h.at) = st
          /\ Known(st, n) /\ st.ids[n].recycled /\ st.ids[n].since >= h.at
                => AccountCreated(st, n, h.at) = st
          /\ Exists(n) /\ ~(Known(st, n) /\ st.ids[n].recycled /\ st.ids[n].since >= h.at)
                => AccountCreated(st, n, h.at).ids[n] = Identity(passwd[n].uid, h.at, TRUE)
      BY <1>1, CreatedIs
    <3> HIDE DEF nx
    <3> QED  BY <2>1, <3>1
  <2>3. done <=> Recorded(st, h)
    BY <1>4 DEF Recorded
  <2> HIDE DEF nx, done
  <2>4. CASE ~Exists(n)
    <3>1. nx = st /\ ~Fixes(h, n)
      BY <1>4, <2>2, <2>4 DEF Fixes
    <3>2. \A k \in S : Fixes(k, n) => k \in T
      BY <3>1
    <3> QED
      BY <3>1, <3>2 DEF Apart
  <2>5. CASE Exists(n) /\ done
    <3>1. nx = st
      BY <2>2, <2>5
    <3>2. Fixes(h, n) => Bounded(st, n)
      BY <1>1, <1>4, <1>x, <1>y, <2>5 DEF Fixes, Bounded, Foreign, done
    <3>3. Foreign(n) = {} \/ Bounded(st, n) \/ \E k \in T : Fixes(k, n)
      BY <3>2 DEF Apart
    <3>4. ASSUME NEW g \in T, g.name = n, g.event = "create"
          PROVE  Fixes(g, n) \/ Recorded(st, g) \/ \E k \in T : Fixes(k, n) /\ k.at > g.at
      <4>1. Fixes(g, n) \/ Recorded(st, g) \/ \E k \in S : Fixes(k, n) /\ k.at > g.at
        BY <3>4 DEF Apart
      <4>2. h.at > g.at => Recorded(st, g)
        BY <1>1, <1>y, <1>t, <2>5, <3>4 DEF Recorded, done
      <4> QED
        BY <4>1, <4>2
    <3> QED
      BY <3>1, <3>3, <3>4 DEF Apart
  <2>6. CASE Exists(n) /\ ~done
    <3>1. nx.ids[n] = Identity(passwd[n].uid, h.at, TRUE) /\ passwd[n].uid \in Uids
      BY <2>2, <2>6 DEF IdentityTypeOK, Exists, Holders
    <3>2. /\ nx.ids[n] # NoOne /\ nx.ids[n].since = h.at /\ nx.ids[n].recycled
          /\ ~nx.ids[n].retired /\ nx.ids[n].uid = passwd[n].uid
      <4>1. /\ Identity(passwd[n].uid, h.at, TRUE) # NoOne
            /\ Identity(passwd[n].uid, h.at, TRUE).since = h.at
            /\ Identity(passwd[n].uid, h.at, TRUE).recycled
            /\ ~Identity(passwd[n].uid, h.at, TRUE).retired
            /\ Identity(passwd[n].uid, h.at, TRUE).uid = passwd[n].uid
        BY <1>1, <3>1, IdentityIs
      <4> QED
        BY <3>1, <4>1
    <3>3. Fixes(h, n) => Bounded(nx, n)
      BY <1>4, <2>6, <3>2 DEF Fixes, Bounded, Known
    <3>4. ~Fixes(h, n) => \E k \in T : Fixes(k, n) /\ k.at > h.at
      <4>1. SUFFICES ASSUME ~Fixes(h, n) PROVE \E k \in T : Fixes(k, n) /\ k.at > h.at
        OBVIOUS
      <4>2. \E k \in S : Fixes(k, n) /\ k.at > h.at
        BY <1>4, <2>3, <2>6, <4>1 DEF Apart
      <4> QED
        BY <4>1, <4>2
    <3>5. \A g \in T : h.at >= g.at /\ g.name = n => Recorded(nx, g)
      BY <3>2 DEF Recorded, Known
    <3>6. \A g \in T : g.name = n /\ Recorded(st, g) => Recorded(nx, g)
      <4> SUFFICES ASSUME NEW g \in T, g.name = n, Recorded(st, g) PROVE Recorded(nx, g)
        OBVIOUS
      <4>1. st.ids[n].since >= g.at /\ ~(st.ids[n].since >= h.at) /\ Known(st, n)
        BY <2>6 DEF Recorded, done
      <4>2. h.at >= g.at
        BY <1>1, <1>t, <1>y, <4>1
      <4> QED
        BY <3>5, <4>2
    <3>7. ASSUME NEW g \in T, g.name = n, g.event = "create"
          PROVE  Fixes(g, n) \/ Recorded(nx, g) \/ \E k \in T : Fixes(k, n) /\ k.at > g.at
      <4>1. Fixes(g, n) \/ Recorded(st, g) \/ \E k \in S : Fixes(k, n) /\ k.at > g.at
        BY <3>7 DEF Apart
      <4>2. h.at > g.at => Recorded(nx, g)
        BY <1>1, <1>t, <3>5, <3>7
      <4> QED
        BY <3>6, <3>7, <4>1, <4>2
    <3>8. Bounded(nx, n) \/ \E k \in T : Fixes(k, n)
      BY <3>3, <3>4
    <3> QED
      BY <3>7, <3>8 DEF Apart
  <2> QED
    BY <2>4, <2>5, <2>6
<1> QED
  BY <1>1, <1>2, <1>3, <1>4

\* A replayed entry that is not after a snapshot, and retires nothing, hides
\* no snapshot from whoever was shown it.
LEMMA SeenStep ==
    ASSUME IdentityTypeOK, Clock, NEW st \in Stores, NEW n \in Names, NEW s \in snapshots,
           NEW h \in spool, Seen(st, n, s), h.name = n => h.event = "create" /\ s.at >= h.at
    PROVE  Seen(Replayed(st, h), n, s)
<1>1. h.name \in Names /\ h.at \in Nat /\ h.at < now /\ h.event \in {"create", "remove"}
  BY DEF IdentityTypeOK, Events, Spooled, Clock
<1>2. CASE h.name # n
  <2>1. Replayed(st, h).ids[n] = st.ids[n]
    BY <1>2, ReplayedIs
  <2> QED
    BY <2>1 DEF Seen, Agrees
<1>3. CASE h.name = n
  <2> DEFINE nx == AccountCreated(st, n, h.at)
  <2>1. Replayed(st, h) = nx
    BY <1>3 DEF Replayed
  <2>2. nx = st \/ nx.ids[n] = Identity(passwd[n].uid, h.at, TRUE)
    BY <1>1, CreatedIs
  <2>3. Exists(n) /\ passwd[n].uid \in Uids
    BY DEF Seen, IdentityTypeOK, Exists, Holders
  <2>4. /\ Identity(passwd[n].uid, h.at, TRUE) # NoOne
        /\ Identity(passwd[n].uid, h.at, TRUE).since = h.at
        /\ ~Identity(passwd[n].uid, h.at, TRUE).retired
        /\ Identity(passwd[n].uid, h.at, TRUE).uid = passwd[n].uid
    BY <1>1, <2>3, IdentityIs
  <2> HIDE DEF nx
  <2>5. Seen(nx, n, s)
    BY <1>3, <2>2, <2>3, <2>4 DEF Seen, Agrees
  <2> QED
    BY <2>1, <2>5
<1> QED
  BY <1>2, <1>3

\* The entries still to come, or to come again, at a time of the replay
Rest(kept, t) == {h \in spool : h \in kept \/ h.at >= t}

\* What holds of a store that a replay which began with `st` has got to
ReplayedTo(st, nx, entries, kept) ==
  /\ nx \in Stores /\ nx.backfilled = st.backfilled /\ Dated(nx)
  /\ (st.policy.enabled => st.policy.accounts # {}) => (nx.policy.enabled => nx.policy.accounts # {})
  /\ \A n \in Names : Known(st, n) => Known(nx, n)
  /\ \A n \in Names :
       ~Exists(n) /\ (Known(st, n) => st.ids[n].retired) => (Known(nx, n) => nx.ids[n].retired)
  /\ \A n \in Names \ OutOfTurn(kept) : Apart(st, spool, n) => Apart(nx, entries, n)
  /\ \A n \in Names, s \in snapshots :
       Seen(st, n, s) /\ (\A k \in spool : k.name = n => k.event = "create" /\ s.at >= k.at)
         => Seen(nx, n, s)

LEMMA ReplayStep ==
    ASSUME IdentityTypeOK, Clock, NEW st \in Stores, NEW nx, NEW t \in Nat,
           NEW kept \in SUBSET spool, NEW refused \in SUBSET kept,
           \A x \in Items : Known(st, x.name), ReplayedTo(st, nx, Rest(kept, t), kept)
    PROVE  ReplayedTo(st, ReplayedAt(nx, refused, t), Rest(kept, t + 1), kept)
<1>t. \A k \in spool : k.at \in Nat /\ k.name \in Names
  BY DEF IdentityTypeOK, Events, Spooled
<1>1. CASE Due(refused, t) = {}
  <2>1. ReplayedAt(nx, refused, t) = nx
    BY <1>1 DEF ReplayedAt
  <2>2. \A k \in spool : k.at = t => k \in kept
    BY <1>1 DEF Due
  <2>3. Rest(kept, t + 1) = Rest(kept, t)
    <3>1. \A k \in spool : k.at >= t <=> k.at >= t + 1 \/ k.at = t
      BY <1>t
    <3> QED
      BY <2>2, <3>1 DEF Rest
  <2> QED
    BY <2>1, <2>3
<1>2. CASE Due(refused, t) # {}
  <2> DEFINE h == CHOOSE k \in Due(refused, t) : TRUE
             S == Rest(kept, t)
             T == Rest(kept, t + 1)
             to == Replayed(nx, h)
  <2>1. ReplayedAt(nx, refused, t) = to
    BY <1>2 DEF ReplayedAt
  <2>2. h \in spool /\ h.at = t
    BY <1>2 DEF Due
  <2> HIDE DEF h
  <2>3. nx \in Stores
    BY DEF ReplayedTo
  <2>4. \A k \in spool : k.at = t => k = h
    BY <2>2 DEF Clock
  <2>5. h \in S /\ S \in SUBSET spool /\ T \in SUBSET S /\ S \subseteq T \cup {h}
    <3>1. \A k \in spool : k.at >= t <=> k.at >= t + 1 \/ k.at = t
      BY <1>t
    <3> QED
      BY <2>2, <2>4, <3>1 DEF Rest
  <2>6. ASSUME NEW n \in Names \ OutOfTurn(kept), h \notin T, h.name = n, h.event = "remove",
               NEW g \in T, g.name = n, g.event = "create"
        PROVE  ~(g.at < h.at)
    <3>1. SUFFICES ASSUME g.at < t PROVE FALSE
      BY <2>2
    <3>2. g \in kept /\ h \in spool \ kept
      BY <1>t, <2>2, <2>6, <3>1 DEF Rest
    <3>3. n \in OutOfTurn(kept)
      BY <2>2, <2>6, <3>1, <3>2, <1>t DEF OutOfTurn
    <3> QED
      BY <3>3
  <2>7. ASSUME NEW n \in Names \ OutOfTurn(kept), Apart(st, spool, n)
        PROVE  Apart(to, T, n)
    <3>1. Apart(nx, S, n)
      BY <2>7 DEF ReplayedTo
    <3>2. Foreign(n) # {} => Known(nx, n)
      BY DEF Foreign, ReplayedTo
    <3>3. h \notin T /\ h.name = n /\ h.event = "remove" =>
            \A g \in T : g.name = n /\ g.event = "create" => ~(g.at < h.at)
      BY <2>6
    <3> HIDE DEF S, T
    <3> QED
      BY <2>3, <2>5, <3>1, <3>2, <3>3, ApartStep
  <2>8. ASSUME NEW n \in Names, NEW s \in snapshots, Seen(st, n, s),
               \A k \in spool : k.name = n => k.event = "create" /\ s.at >= k.at
        PROVE  Seen(to, n, s)
    <3>1. Seen(nx, n, s)
      BY <2>8 DEF ReplayedTo
    <3> QED
      BY <2>2, <2>3, <2>8, <3>1, SeenStep
  <2>9. /\ to \in Stores /\ to.backfilled = nx.backfilled /\ Dated(to)
        /\ (nx.policy.enabled => nx.policy.accounts # {}) => (to.policy.enabled => to.policy.accounts # {})
        /\ \A n \in Names : Known(nx, n) => Known(to, n)
        /\ \A n \in Names :
             ~Exists(n) /\ (Known(nx, n) => nx.ids[n].retired) => (Known(to, n) => to.ids[n].retired)
    <3>1. Dated(nx)
      BY DEF ReplayedTo
    <3> QED
      BY <2>2, <2>3, <3>1, ReplayedIs
  <2> HIDE DEF to, T
  <2>10. ReplayedTo(st, to, T, kept)
    BY <2>7, <2>8, <2>9 DEF ReplayedTo
  <2> QED
    BY <2>1, <2>10 DEF T
<1> QED
  BY <1>1, <1>2

LEMMA ReplayKeeps ==
    ASSUME IdentityTypeOK, Clock, NEW st \in Stores, Dated(st), \A x \in Items : Known(st, x.name),
           NEW kept \in SUBSET spool, NEW refused \in SUBSET kept
    PROVE  ReplayedTo(st, ReplayHookSpool(st, refused), kept, kept)
<1>1. now \in Nat
  BY DEF IdentityTypeOK
<1>2. PICK done : /\ done[0] = st
                  /\ \A t \in Nat : t < now => done[t + 1] = ReplayedAt(done[t], refused, t)
                  /\ ReplayHookSpool(st, refused) = done[now]
  BY <1>1, ReplayIsStepwise
<1> DEFINE S == {t \in Nat : t <= now => ReplayedTo(st, done[t], Rest(kept, t), kept)}
<1>3. 0 \in S
  <2>1. Rest(kept, 0) = spool
    BY DEF Rest, IdentityTypeOK, Events, Spooled
  <2>2. ReplayedTo(st, st, spool, kept)
    BY DEF ReplayedTo
  <2> QED
    BY <1>2, <2>1, <2>2
<1>4. ASSUME NEW t \in Nat, t \in S PROVE t + 1 \in S
  <2>1. SUFFICES ASSUME t + 1 <= now PROVE ReplayedTo(st, done[t + 1], Rest(kept, t + 1), kept)
    OBVIOUS
  <2>2. t < now /\ t <= now
    BY <1>1, <2>1
  <2>3. ReplayedTo(st, done[t], Rest(kept, t), kept)
    BY <1>4, <2>2
  <2>4. ReplayedTo(st, ReplayedAt(done[t], refused, t), Rest(kept, t + 1), kept)
    BY <2>3, ReplayStep
  <2> QED
    BY <1>2, <2>2, <2>4
<1>5. now \in S
  <2> HIDE DEF S
  <2> QED  BY <1>1, <1>3, <1>4, FromZeroUp
<1>6. Rest(kept, now) = kept
  <2>1. \A k \in spool : ~(k.at >= now)
    BY <1>1 DEF Clock, IdentityTypeOK, Events, Spooled
  <2> QED
    BY <2>1 DEF Rest
<1> QED
  BY <1>1, <1>2, <1>5, <1>6

-----------------------------------------------------------------------------
\* A look at a name that is an account.
LEMMA NotedKeeps ==
    ASSUME IdentityTypeOK, Clock, NEW st \in Stores, Dated(st), NEW n \in Names, Exists(n),
           NEW nx, nx.ids[n] = noteIdentity(st, n, now).ids[n]
    PROVE  /\ Known(nx, n) /\ nx.ids[n].since <= now
           /\ \A entries \in SUBSET (hooks \cup spool) :
                Apart(st, entries, n) /\ (Foreign(n) # {} => Known(st, n)) => Apart(nx, entries, n)
           /\ \A s \in snapshots : Seen(st, n, s) => Seen(nx, n, s)
<1>1. now \in Nat
  BY DEF IdentityTypeOK
<1>2. st.ids[n] \in Identities \cup {NoOne} /\ (Known(st, n) => st.ids[n].since < now)
  BY DEF Stores, Dated
<1>4. \A k \in hooks \cup spool : k.at \in Nat /\ k.at < now
  BY DEF Clock, IdentityTypeOK, Events
<1>5. \A x \in Foreign(n) : x.at < now
  BY DEF Clock, Foreign
\* a record that is written anew, at this moment
<1>new. ASSUME NEW b \in BOOLEAN, nx.ids[n] = Identity(passwd[n].uid, now, b),
               Known(st, n) => b /\ ~Agrees(st.ids, n)
        PROVE  /\ Known(nx, n) /\ nx.ids[n].since <= now
               /\ \A entries \in SUBSET (hooks \cup spool) :
                    Apart(st, entries, n) /\ (Foreign(n) # {} => Known(st, n)) => Apart(nx, entries, n)
               /\ \A s \in snapshots : Seen(st, n, s) => Seen(nx, n, s)
  <2>1. passwd[n].uid \in Uids
    BY <1>new DEF IdentityTypeOK, Exists, Holders
  <2>2. /\ nx.ids[n] # NoOne /\ nx.ids[n].since = now /\ (nx.ids[n].recycled <=> b)
    <3>1. /\ Identity(passwd[n].uid, now, b) # NoOne
          /\ Identity(passwd[n].uid, now, b).since = now
          /\ Identity(passwd[n].uid, now, b).recycled <=> b
      BY <1>1, <2>1, <1>new, IdentityIs
    <3> QED
      BY <1>new, <3>1
  <2>3. Known(nx, n) /\ nx.ids[n].since <= now
    BY <1>1, <2>2 DEF Known
  <2>4. Known(st, n) => Bounded(nx, n)
    BY <1>new, <1>5, <2>2, <2>3 DEF Bounded
  <2>5. \A k \in hooks \cup spool : k.name = n /\ Recorded(st, k) => Recorded(nx, k)
    <3> SUFFICES ASSUME NEW k \in hooks \cup spool, k.name = n, Recorded(st, k) PROVE Recorded(nx, k)
      OBVIOUS
    <3>1. Known(st, n) /\ k.at \in Nat /\ k.at < now
      BY <1>4 DEF Recorded
    <3>2. nx.ids[n].recycled
      BY <1>new, <2>2, <3>1
    <3>3. nx.ids[n].since >= k.at
      BY <1>1, <2>2, <3>1
    <3> QED
      BY <2>3, <3>2, <3>3 DEF Recorded
  <2>6. ASSUME NEW entries \in SUBSET (hooks \cup spool), Apart(st, entries, n),
               Foreign(n) # {} => Known(st, n)
        PROVE  Apart(nx, entries, n)
    <3>1. Foreign(n) = {} \/ Bounded(nx, n)
      BY <2>4, <2>6
    <3>2. \A h \in entries : h.name = n /\ h.event = "create" =>
            Fixes(h, n) \/ Recorded(nx, h) \/ \E k \in entries : Fixes(k, n) /\ k.at > h.at
      BY <2>5, <2>6 DEF Apart
    <3> QED
      BY <3>1, <3>2 DEF Apart
  <2>7. ~\E s \in snapshots : Seen(st, n, s)
    BY <1>new DEF Seen, Agrees, Known
  <2> QED
    BY <2>3, <2>6, <2>7
<1>6. nx.ids[n] = IF ~Known(st, n) THEN Identity(passwd[n].uid, now, st.backfilled)
                  ELSE IF st.ids[n].retired \/ st.ids[n].uid # passwd[n].uid
                       THEN Identity(passwd[n].uid, now, TRUE)
                  ELSE st.ids[n]
  BY <1>1, NotedIs
<1>7. CASE ~Known(st, n)
  <2>1. st.backfilled \in BOOLEAN /\ nx.ids[n] = Identity(passwd[n].uid, now, st.backfilled)
    BY <1>6, <1>7 DEF Stores
  <2> QED
    BY <1>7, <1>new, <2>1
<1>8. CASE Known(st, n) /\ nx.ids[n] # st.ids[n]
  <2>1. nx.ids[n] = Identity(passwd[n].uid, now, TRUE) /\ ~Agrees(st.ids, n)
    BY <1>6, <1>8 DEF Agrees
  <2> QED
    BY <1>8, <1>new, <2>1
<1>9. CASE Known(st, n) /\ nx.ids[n] = st.ids[n]
  <2>1. Known(nx, n)
    BY <1>9 DEF Known
  <2>2. \A entries \in SUBSET (hooks \cup spool) : Apart(st, entries, n) => Apart(nx, entries, n)
    BY <1>9 DEF Apart, Bounded, Recorded, Known
  <2>3. \A s \in snapshots : Seen(st, n, s) => Seen(nx, n, s)
    BY <1>9 DEF Seen, Agrees
  <2>4. nx.ids[n].since <= now
    <3>1. st.ids[n].since \in Nat /\ st.ids[n].since < now
      BY <1>2, <1>9 DEF Known, Identities
    <3> QED
      BY <1>1, <1>9, <3>1
  <2> QED
    BY <2>1, <2>2, <2>3, <2>4
<1> QED
  BY <1>7, <1>8, <1>9

-----------------------------------------------------------------------------
\* The inductive invariant.

PassRecords ==
  [by : Events \cup {NoOne}, known : [Names -> Identities \cup {NoOne}], todo : SUBSET Names,
   uids : [Names -> Uids \cup {NoOne}]]

\* A pass is made for the schedule, a remove or a modify that came before t,
\* and read boundaries from before t
GoodPass(p, t) ==
  /\ p \in PassRecords
  /\ p.by # NoOne => p.by.at < t /\ p.by.event # "create"
  /\ \A n \in Names : p.known[n] # NoOne => p.known[n].since < t

PassDated == \A p \in passes : GoodPass(p, now)

\* Hooks in flight are of different names, come after what is in the spool of
\* their name, and say what is so: nothing else happens to the name meanwhile
Flight ==
  /\ \A h \in hooks : h.event \in {"create", "remove"} => h.old = h.name
  /\ \A h, k \in hooks : h # k => {h.name, h.old} \cap {k.name, k.old} = {}
  /\ \A h \in hooks, k \in spool : k.name = h.name => k.at < h.at
  /\ \A h \in hooks : h.event = "create" =>
        Exists(h.name) /\ (h.name \in unheard \/ \A x \in Foreign(h.name) : x.at < h.at)
  /\ \A h \in hooks : h.event = "remove" => ~Exists(h.name)

\* What is filed is filed under a name on record
ItemsKnown == \A x \in Items : Known(store, x.name)

\* No hook is in flight that says the name was left behind or changed hands,
\* except a remove that is on record and waits for its pass
Unhooked(n) ==
  \A h \in hooks : h.old = n => h.event = "remove" /\ \E p \in passes : p.by = h

\* The names whose every event was heard in its turn keep their holders apart
Boundary == \A n \in Names : n \notin unheard /\ Unhooked(n) => Apart(store, spool, n)

IdentityInv ==
  /\ IdentityTypeOK /\ Clock /\ Flight /\ ItemsKnown /\ Dated(store) /\ PassDated
  /\ Boundary /\ PolicyNeverWidens

Narrow(st) == st.policy.enabled => st.policy.accounts # {}

\* An entry of another name, or a remove, does not come between.
LEMMA ApartMore ==
    ASSUME NEW st, NEW entries, NEW n \in Names, NEW h, Apart(st, entries, n),
           h.name = n => h.event # "create"
    PROVE  Apart(st, entries \cup {h}, n)
BY DEF Apart

\* The record of the name is all that counts, and less that is another's is
\* still kept away.
LEMMA ApartSame ==
    ASSUME NEW st, NEW nx, NEW entries, NEW n, nx.ids[n] = st.ids[n], Apart(st, entries, n)
    PROVE  Apart(nx, entries, n)
BY DEF Apart, Bounded, Recorded, Known

\* A name whose record is retired, or that has nothing of another's, and with
\* no entry of its own, is kept apart.
LEMMA ApartRetired ==
    ASSUME NEW st, NEW entries, NEW n, Foreign(n) # {} => Known(st, n) /\ st.ids[n].retired,
           \A k \in entries : k.name # n
    PROVE  Apart(st, entries, n)
BY DEF Apart, Bounded

-----------------------------------------------------------------------------
\* Steps that move events and records, and leave accounts and backups alone.

LEMMA StoreStep ==
    ASSUME IdentityInv, UNCHANGED <<passwd, snapshots, restores>>, underway' \subseteq underway,
           now' = now \/ now' = now + 1, faults' \in Nat, up' \in BOOLEAN,
           store' \in Stores, \A n \in Names : Known(store', n) => store'.ids[n].since < now',
           \A n \in Names : Known(store, n) => Known(store', n), Narrow(store'),
           hooks' \subseteq hooks, spool' \subseteq spool \cup (hooks \ hooks'),
           \A k \in spool' : k.event \in {"create", "remove"},
           \A p \in passes' : GoodPass(p, now'),
           unheard' \subseteq Names, unheard \subseteq unheard',
           \A n \in Names : n \notin unheard' /\ Unhooked(n)' => Apart(store', spool', n)
    PROVE  IdentityInv'
<1>1. Items' \subseteq Items /\ \A n : (Exists(n)' <=> Exists(n)) /\ Foreign(n)' \subseteq Foreign(n)
  BY DEF Items, Exists, Holder, Foreign
<1>2. IdentityTypeOK /\ Clock /\ Flight /\ now \in Nat
  BY DEF IdentityInv, IdentityTypeOK
<1>3. IdentityTypeOK'
  <2>1. now' \in Nat
    BY <1>2
  <2>2. hooks' \subseteq Events /\ spool' \subseteq Events
    BY <1>2 DEF IdentityTypeOK
  <2>3. spool' \subseteq {h \in Events : Spooled(h)}
    BY <2>2 DEF Spooled
  <2>4. passes' \subseteq PassRecords
    BY DEF GoodPass
  <2>5. underway' \subseteq [kind : {"backup", "restore"}, name : Names, at : Nat, owner : Names \X Nat]
    BY <1>2 DEF IdentityTypeOK
  <2> QED
    BY <1>2, <2>1, <2>2, <2>3, <2>4, <2>5 DEF IdentityTypeOK, PassRecords
<1>4. Clock'
  <2>1. \A t \in Nat : t < now => t < now'
    BY <1>2
  <2>2. \A x \in Items : x.at \in Nat /\ x.at < now
    BY <1>2 DEF Clock, Items, IdentityTypeOK
  <2>3. \A k \in hooks' \cup spool' : k \in hooks \cup spool /\ k.at \in Nat /\ k.at < now
    BY <1>2 DEF Clock, IdentityTypeOK, Events
  <2>4. \A x \in Items' : x.at < now'
    BY <1>1, <2>1, <2>2
  <2>5. \A k \in hooks' \cup spool' : k.at < now'
    BY <2>1, <2>3
  <2>6. \A h, k \in hooks' \cup spool' : h.at = k.at => h = k
    BY <1>2, <2>3 DEF Clock
  <2>7. \A r \in restores' : r.since <= r.at
    BY <1>2 DEF Clock
  <2> QED
    BY <2>4, <2>5, <2>6, <2>7 DEF Clock
<1>5. Flight'
  <2>1. \A h \in hooks', k \in spool' : k.name = h.name => k.at < h.at
    <3> SUFFICES ASSUME NEW h \in hooks', NEW k \in spool', k.name = h.name PROVE k.at < h.at
      OBVIOUS
    <3>1. CASE k \in spool
      BY <1>2, <3>1 DEF Flight
    <3>2. CASE k \in hooks \ hooks'
      <4>1. h \in hooks /\ h # k
        BY <3>2
      <4>2. {h.name, h.old} \cap {k.name, k.old} = {}
        BY <1>2, <3>2, <4>1 DEF Flight
      <4> QED
        BY <4>2
    <3> QED
      BY <3>1, <3>2
  <2>2. \A h \in hooks' : h.event = "create" =>
          Exists(h.name)' /\ (h.name \in unheard' \/ \A x \in Foreign(h.name)' : x.at < h.at)
    BY <1>1, <1>2 DEF Flight
  <2> QED
    BY <1>1, <1>2, <2>1, <2>2 DEF Flight
<1>6. ItemsKnown'
  <2>1. \A x \in Items : x.name \in Names /\ Known(store, x.name)
    BY <1>2 DEF IdentityInv, ItemsKnown, Items, IdentityTypeOK
  <2> QED
    BY <1>1, <2>1 DEF ItemsKnown, Known
<1>7. Dated(store)'
  BY DEF Dated, Known
<1>8. PassDated'
  BY DEF PassDated, GoodPass
<1>9. Boundary'
  <2> SUFFICES ASSUME NEW n \in Names, n \notin unheard', Unhooked(n)' PROVE Apart(store, spool, n)'
    BY DEF Boundary
  <2>1. Apart(store', spool', n)
    OBVIOUS
  <2>2. \A k : Fixes(k, n) => Fixes(k, n)'
    BY <1>1 DEF Fixes
  <2>3. Bounded(store', n) => Bounded(store, n)'
    BY <1>1 DEF Bounded, Known
  <2>4. \A k : Recorded(store, k)' <=> Recorded(store', k)
    BY DEF Recorded, Known
  <2>5. Foreign(n) = {} => Foreign(n)' = {}
    BY <1>1
  <2> QED
    BY <2>1, <2>2, <2>3, <2>4, <2>5 DEF Apart
<1>10. PolicyNeverWidens'
  BY DEF PolicyNeverWidens, Narrow
<1> QED
  BY <1>3, <1>4, <1>5, <1>6, <1>7, <1>8, <1>9, <1>10 DEF IdentityInv

\* What holds of the store and the passes when neither is touched.
LEMMA PassKept ==
    ASSUME IdentityInv, now' = now \/ now' = now + 1
    PROVE  /\ store \in Stores /\ Narrow(store) /\ now \in Nat
           /\ \A n \in Names : Known(store, n) => store.ids[n].since < now'
           /\ \A p \in passes : GoodPass(p, now')
           /\ \A k \in spool : k.event \in {"create", "remove"}
           /\ up \in BOOLEAN /\ faults \in Nat /\ unheard \subseteq Names
<1>1. IdentityTypeOK /\ now \in Nat
  BY DEF IdentityInv, IdentityTypeOK
<1>2. \A n \in Names : Known(store, n) => store.ids[n].since < now'
  <2> SUFFICES ASSUME NEW n \in Names, Known(store, n) PROVE store.ids[n].since < now'
    OBVIOUS
  <2>1. store.ids[n].since \in Nat /\ store.ids[n].since < now
    BY DEF IdentityInv, IdentityTypeOK, Dated, Known, Stores, Identities
  <2> QED
    BY <1>1, <2>1
<1>3. ASSUME NEW p \in passes PROVE GoodPass(p, now')
  <2>1. GoodPass(p, now) /\ p \in PassRecords
    BY DEF IdentityInv, PassDated, GoodPass
  <2>2. p.by # NoOne => p.by.at < now'
    <3>1. p.by # NoOne => p.by.at \in Nat /\ p.by.at < now
      BY <2>1 DEF GoodPass, PassRecords, Events
    <3> QED
      BY <1>1, <3>1
  <2>3. ASSUME NEW n \in Names, p.known[n] # NoOne PROVE p.known[n].since < now'
    <3>1. p.known[n].since \in Nat /\ p.known[n].since < now
      BY <2>1, <2>3 DEF GoodPass, PassRecords, Identities
    <3> QED
      BY <1>1, <3>1
  <2> QED
    BY <2>1, <2>2, <2>3 DEF GoodPass
<1>4. Narrow(store)
  BY DEF IdentityInv, PolicyNeverWidens, Narrow
<1>5. \A k \in spool : k.event \in {"create", "remove"}
  BY <1>1 DEF IdentityTypeOK, Spooled
<1> QED
  BY <1>1, <1>2, <1>3, <1>4, <1>5 DEF IdentityTypeOK

\* A create, answered or not.
LEMMA ServeCreateStep ==
    ASSUME IdentityInv, NEW h \in hooks, ServeCreate(h) \/ ServeUnanswered(h)
    PROVE  IdentityInv'
<1> DEFINE o == h.name
           nx == AccountCreated(store, o, now)
<1>1. /\ h.event = "create" /\ Tick /\ store' = nx /\ hooks' = hooks \ {h}
      /\ spool' = spool \/ spool' = spool \cup {h}
      /\ faults' = faults \/ faults' = faults + 1
      /\ UNCHANGED <<passwd, snapshots, restores, underway, up, passes, unheard>>
  BY DEF ServeCreate, ServeUnanswered
<1>2. /\ IdentityTypeOK /\ Clock /\ Flight /\ Boundary /\ now' = now + 1 /\ o \in Names
      /\ h.at \in Nat /\ h.at < now /\ h.old = o /\ Exists(o)
  BY <1>1 DEF IdentityInv, IdentityTypeOK, Events, Clock, Flight, Tick
<1>3. /\ store \in Stores /\ Narrow(store) /\ up \in BOOLEAN /\ faults \in Nat /\ now \in Nat
      /\ \A n \in Names : Known(store, n) => store.ids[n].since < now'
      /\ \A p \in passes : GoodPass(p, now')
      /\ \A k \in spool : k.event \in {"create", "remove"}
      /\ unheard \subseteq Names
  BY <1>2, PassKept
<1>4. ~(Known(store, o) /\ store.ids[o].recycled /\ store.ids[o].since >= now)
  <2>1. Known(store, o) => store.ids[o].since \in Nat /\ store.ids[o].since < now
    BY <1>2, <1>3 DEF IdentityInv, Dated, Known, Stores, Identities
  <2> QED
    BY <1>3, <2>1
<1>5. /\ nx \in Stores /\ nx.policy = store.policy
      /\ \A m \in Names : m # o => nx.ids[m] = store.ids[m]
      /\ nx.ids[o] = Identity(passwd[o].uid, now, TRUE)
  BY <1>2, <1>3, <1>4, CreatedIs
<1> HIDE DEF nx, o
<1>6. nx.ids[o] # NoOne /\ nx.ids[o].since = now /\ nx.ids[o].recycled
  <2>1. passwd[o].uid \in Uids
    BY <1>2 DEF IdentityTypeOK, Exists, Holders
  <2>2. /\ Identity(passwd[o].uid, now, TRUE) # NoOne
        /\ Identity(passwd[o].uid, now, TRUE).since = now
        /\ Identity(passwd[o].uid, now, TRUE).recycled
    BY <1>2, <1>3, <2>1, IdentityIs
  <2> QED
    BY <1>5, <2>2
<1>7. \A n \in Names : Known(store', n) => store'.ids[n].since < now'
  <2> SUFFICES ASSUME NEW n \in Names, Known(nx, n) PROVE nx.ids[n].since < now'
    BY <1>1
  <2>1. CASE n = o
    BY <1>2, <1>3, <1>6, <2>1
  <2>2. CASE n # o
    <3>1. Known(store, n) /\ nx.ids[n] = store.ids[n]
      BY <1>5, <2>2 DEF Known
    <3> QED
      BY <1>3, <3>1
  <2> QED
    BY <2>1, <2>2
<1>8. \A n \in Names : Known(store, n) => Known(store', n)
  BY <1>1, <1>5, <1>6 DEF Known
<1>9. ASSUME NEW n \in Names, n \notin unheard', Unhooked(n)'
      PROVE  Apart(store', spool', n)
  <2>1. CASE n = o
    <3>1. \A x \in Foreign(n) : x.at < now
      BY <1>2 DEF Clock, Foreign
    <3>2. Bounded(nx, n)
      BY <1>2, <1>6, <2>1, <3>1 DEF Bounded, Known
    <3>3. \A k \in spool \cup {h} : k.name = n => Recorded(nx, k)
      <4>1. \A k \in spool \cup {h} : k.at \in Nat /\ k.at < now
        BY <1>2 DEF Clock, IdentityTypeOK, Events
      <4>2. \A k \in spool \cup {h} : nx.ids[n].since >= k.at
        BY <1>3, <1>6, <2>1, <4>1
      <4> QED
        BY <1>6, <2>1, <4>2 DEF Recorded, Known
    <3>4. \A k \in spool' : k.name = n => Recorded(nx, k)
      BY <1>1, <3>3
    <3> QED
      BY <1>1, <3>2, <3>4 DEF Apart
  <2>2. CASE n # o
    <3>1. Unhooked(n)
      BY <1>1, <1>2, <1>9, <2>2 DEF Unhooked
    <3>2. Apart(store, spool, n)
      BY <1>1, <1>2, <1>9, <3>1 DEF Boundary
    <3>3. Apart(nx, spool, n)
      BY <1>5, <2>2, <3>2, ApartSame
    <3>4. Apart(nx, spool \cup {h}, n)
      BY <2>2, <3>3, ApartMore DEF o
    <3> QED
      BY <1>1, <3>3, <3>4
  <2> QED
    BY <2>1, <2>2
<1>10. /\ hooks' \subseteq hooks /\ spool' \subseteq spool \cup (hooks \ hooks')
       /\ \A k \in spool' : k.event \in {"create", "remove"}
  BY <1>1, <1>3
<1>11. Narrow(store') /\ faults' \in Nat /\ store' \in Stores
  BY <1>1, <1>3, <1>5 DEF Narrow
<1> QED
  BY <1>1, <1>2, <1>3, <1>7, <1>8, <1>9, <1>10, <1>11, StoreStep

\* A pass that begins, for the schedule or for a hook, once the store has come
\* to `st`, which for a remove has it recorded.
LEMMA BeginPassStep ==
    ASSUME IdentityInv, NEW by, NEW st, NEW refused \in SUBSET spool, NEW stuck \in SUBSET spool,
           BeginPass(st, by, refused, stuck),
           \/ by = NoOne /\ st = store
           \/ by \in hooks /\ by.event = "modify" /\ st = store
           \/ /\ by \in hooks /\ by.event = "remove" /\ st = AccountRemoved(store, by.name)
              /\ by.name \in unheard' \/ \A k \in spool' : k.name # by.name,
           UNCHANGED <<now, passwd, snapshots, restores, underway, hooks, up>>,
           unheard \cup OutOfTurn(spool') \subseteq unheard', unheard' \subseteq Names
    PROVE  IdentityInv'
<1> DEFINE kept == refused \cup stuck
           rep == ReplayHookSpool(st, refused)
           p == Pass(by, rep.ids)
<1>1. /\ spool' = kept /\ store' = rep /\ passes' = passes \cup {p}
      /\ faults' = faults + (IF kept = {} THEN 0 ELSE 1)
  BY DEF BeginPass, Replays
<1>2. /\ store \in Stores /\ Narrow(store) /\ now \in Nat /\ up \in BOOLEAN /\ faults \in Nat
      /\ \A n \in Names : Known(store, n) => store.ids[n].since < now
      /\ \A q \in passes : GoodPass(q, now)
      /\ \A k \in spool : k.event \in {"create", "remove"}
      /\ IdentityTypeOK /\ Clock /\ Flight /\ Boundary
  BY PassKept DEF IdentityInv, Dated, PassDated
<1>3. kept \in SUBSET spool /\ refused \in SUBSET kept
  OBVIOUS
<1>4. /\ st \in Stores /\ Narrow(st)
      /\ \A n \in Names : st.ids[n] = store.ids[n] \/
           (by \in hooks /\ by.event = "remove" /\ n = by.name /\ Known(store, n))
      /\ \A n \in Names : Known(st, n) <=> Known(store, n)
      /\ \A n \in Names : Known(st, n) => st.ids[n].since = store.ids[n].since
      /\ by \in hooks /\ by.event = "remove" => (Known(st, by.name) => st.ids[by.name].retired)
  <2>1. CASE st = store /\ ~(by \in hooks /\ by.event = "remove")
    BY <1>2, <2>1
  <2>2. CASE by \in hooks /\ by.event = "remove" /\ st = AccountRemoved(store, by.name)
    <3>1. by.name \in Names
      BY <1>2, <2>2 DEF IdentityTypeOK, Events
    <3>2. /\ st \in Stores
          /\ \A m \in Names : m # by.name => st.ids[m] = store.ids[m]
          /\ ~Known(store, by.name) => st.ids[by.name] = store.ids[by.name]
          /\ Known(store, by.name) =>
               /\ st.ids[by.name] \in Identities /\ st.ids[by.name].retired
               /\ st.ids[by.name].since = store.ids[by.name].since
          /\ (store.policy.enabled => store.policy.accounts # {}) =>
               (st.policy.enabled => st.policy.accounts # {})
      BY <1>2, <2>2, <3>1, RemovedIs
    <3>3. \A n \in Names : Known(st, n) <=> Known(store, n)
      BY <3>2, IdentityAssumption DEF Known
    <3>4. Narrow(st)
      BY <1>2, <3>2 DEF Narrow
    <3>5. \A n \in Names : st.ids[n] = store.ids[n] \/ (n = by.name /\ Known(store, n))
      BY <3>2
    <3>6. \A n \in Names : Known(st, n) => st.ids[n].since = store.ids[n].since
      BY <3>2, <3>3
    <3>7. Known(st, by.name) => st.ids[by.name].retired
      BY <3>1, <3>2, <3>3
    <3> QED
      BY <2>2, <3>2, <3>3, <3>4, <3>5, <3>6, <3>7
  <2>3. NoOne \notin hooks
    BY <1>2, IdentityAssumption DEF IdentityTypeOK
  <2> QED
    BY <2>1, <2>2, <2>3
<1>5. Dated(st) /\ \A x \in Items : Known(st, x.name)
  <2>1. \A x \in Items : x.name \in Names /\ Known(store, x.name)
    BY <1>2 DEF Items, IdentityTypeOK, IdentityInv, ItemsKnown
  <2> QED
    BY <1>2, <1>4, <2>1 DEF Dated
<1>6. ReplayedTo(st, rep, kept, kept)
  BY <1>2, <1>3, <1>4, <1>5, ReplayKeeps
<1> HIDE DEF kept, rep
<1>7. /\ store' \in Stores /\ Narrow(store')
      /\ \A n \in Names : Known(store', n) => store'.ids[n].since < now'
      /\ \A n \in Names : Known(store, n) => Known(store', n)
  <2>1. Narrow(rep)
    BY <1>4, <1>6 DEF ReplayedTo, Narrow
  <2> QED
    BY <1>1, <1>4, <1>6, <2>1 DEF ReplayedTo, Dated
<1>8. GoodPass(p, now')
  <2>1. /\ p.by = by /\ p.known = rep.ids /\ p.todo = Accounts
        /\ p = [by |-> by, known |-> rep.ids, todo |-> Accounts,
                uids |-> [n \in Names |-> IF Exists(n) THEN passwd[n].uid ELSE NoOne]]
    BY DEF Pass
  <2>2. \A n \in Names : Exists(n) => passwd[n].uid \in Uids
    BY <1>2 DEF IdentityTypeOK, Exists, Holders
  <2>3. by \in Events \cup {NoOne} /\ (by # NoOne => by.at < now /\ by.event # "create")
    BY <1>2 DEF IdentityTypeOK, Clock
  <2>4. Accounts \subseteq Names /\ rep.ids \in [Names -> Identities \cup {NoOne}]
    BY <1>1, <1>7 DEF Accounts, Stores
  <2>5. [n \in Names |-> IF Exists(n) THEN passwd[n].uid ELSE NoOne] \in [Names -> Uids \cup {NoOne}]
    BY <2>2
  <2>6. p \in PassRecords
    BY <2>1, <2>3, <2>4, <2>5 DEF PassRecords
  <2>7. \A n \in Names : rep.ids[n] # NoOne => rep.ids[n].since < now'
    BY <1>1, <1>7 DEF Known
  <2> HIDE DEF p
  <2> QED
    BY <2>1, <2>3, <2>6, <2>7 DEF GoodPass
<1>9. p.by = by
  BY DEF Pass
<1> HIDE DEF p
<1>10. ASSUME NEW n \in Names, n \notin unheard', Unhooked(n)'
       PROVE  Apart(store', spool', n)
  <2>1. CASE by \in hooks /\ by.event = "remove" /\ n = by.name
    <3>1. ~Exists(n)
      BY <1>2, <2>1 DEF Flight
    <3>2. Known(store', n) => store'.ids[n].retired
      BY <1>1, <1>4, <1>6, <2>1, <3>1 DEF ReplayedTo
    <3>3. Foreign(n) # {} => Known(store', n)
      BY <1>7 DEF Foreign, IdentityInv, ItemsKnown
    <3>4. \A k \in spool' : k.name # n
      <4>1. by # NoOne
        BY <1>2, <2>1, IdentityAssumption DEF IdentityTypeOK
      <4> QED
        BY <1>10, <2>1, <4>1
    <3> QED
      BY <3>2, <3>3, <3>4, ApartRetired
  <2>2. CASE ~(by \in hooks /\ by.event = "remove" /\ n = by.name)
    <3>1. Unhooked(n)
      <4> SUFFICES ASSUME NEW g \in hooks, g.old = n
                   PROVE  g.event = "remove" /\ \E q \in passes : q.by = g
        BY DEF Unhooked
      <4>1. g.event = "remove" /\ \E q \in passes' : q.by = g
        BY <1>10 DEF Unhooked
      <4>2. g # by
        BY <1>2, <2>2, <4>1 DEF Flight
      <4> QED
        BY <1>1, <1>9, <4>1, <4>2
    <3>2. Apart(store, spool, n)
      BY <1>2, <1>10, <3>1 DEF Boundary
    <3>3. st.ids[n] = store.ids[n]
      BY <1>4, <2>2
    <3>4. Apart(st, spool, n)
      BY <3>2, <3>3, ApartSame
    <3>5. n \notin OutOfTurn(kept)
      BY <1>1, <1>10
    <3> QED
      BY <1>1, <1>6, <3>4, <3>5 DEF ReplayedTo
  <2> QED
    BY <2>1, <2>2
<1>11. /\ hooks' \subseteq hooks /\ spool' \subseteq spool \cup (hooks \ hooks')
       /\ \A k \in spool' : k.event \in {"create", "remove"}
  BY <1>1, <1>2, <1>3
<1>12. \A q \in passes' : GoodPass(q, now')
  BY <1>1, <1>2, <1>8
<1>13. faults' \in Nat /\ up' \in BOOLEAN
  BY <1>1, <1>2
<1> QED
  BY <1>7, <1>10, <1>11, <1>12, <1>13, StoreStep

LEMMA ServeHookStep ==
    ASSUME IdentityInv, NEW h \in hooks, NEW refused \in SUBSET spool, NEW stuck \in SUBSET spool,
           ServeHook(h, refused, stuck)
    PROVE  IdentityInv'
<1>1. /\ h.event # "create" /\ h.event \in {"create", "remove", "modify"} /\ h.name \in Names
      /\ \A k \in spool : k.name \in Names
      /\ unheard \subseteq Names
  BY DEF ServeHook, IdentityInv, IdentityTypeOK, Events
<1>2. /\ unheard' = unheard \cup OutOfTurn(spool')
                      \cup {n \in {h.name} : h.event = "remove" /\ \E k \in spool' : k.name = n}
      /\ UNCHANGED <<now, passwd, snapshots, restores, underway, hooks, up>>
      /\ spool' \in SUBSET spool
  BY DEF ServeHook, BeginPass, Replays
<1>3. unheard \cup OutOfTurn(spool') \subseteq unheard' /\ unheard' \subseteq Names
  BY <1>1, <1>2 DEF OutOfTurn
<1>4. CASE h.event = "modify"
  <2>1. BeginPass(store, h, refused, stuck)
    BY <1>4 DEF ServeHook
  <2> QED
    BY <1>2, <1>3, <1>4, <2>1, BeginPassStep
<1>5. CASE h.event = "remove"
  <2>1. BeginPass(AccountRemoved(store, h.name), h, refused, stuck)
    BY <1>5 DEF ServeHook
  <2>2. h.name \in unheard' \/ \A k \in spool' : k.name # h.name
    BY <1>2, <1>5
  <2> QED
    BY <1>2, <1>3, <1>5, <2>1, <2>2, BeginPassStep
<1> QED
  BY <1>1, <1>4, <1>5

LEMMA SchedulePassStep ==
    ASSUME IdentityInv, NEW refused \in SUBSET spool, NEW stuck \in SUBSET spool,
           SchedulePass(refused, stuck)
    PROVE  IdentityInv'
<1>1. /\ BeginPass(store, NoOne, refused, stuck)
      /\ unheard' = unheard \cup OutOfTurn(spool')
      /\ UNCHANGED <<now, passwd, snapshots, restores, underway, hooks, up>>
      /\ spool' \in SUBSET spool
  BY DEF SchedulePass, BeginPass, Replays
<1>2. unheard \subseteq Names /\ \A k \in spool : k.name \in Names
  BY DEF IdentityInv, IdentityTypeOK, Events
<1>3. unheard' \subseteq Names
  BY <1>1, <1>2 DEF OutOfTurn
<1> QED
  BY <1>1, <1>3, BeginPassStep

\* A hook gives up, or is answered that its event was not dealt with.
LEMMA RefuseStep ==
    ASSUME IdentityInv, NEW some \in SUBSET hooks, \A h, g \in some : h = g,
           Refuses(some), passes' \subseteq passes, faults' \in Nat,
           UNCHANGED <<now, passwd, store, snapshots, restores, underway, up>>
    PROVE  IdentityInv'
<1>1. /\ hooks' = hooks \ some /\ spool' = spool \cup {h \in some : Spooled(h)}
      /\ unheard' = unheard \cup UNION {{h.name, h.old} : h \in {k \in some : ~Spooled(k)}}
  BY DEF Refuses
<1>2. /\ store \in Stores /\ Narrow(store) /\ up \in BOOLEAN
      /\ \A n \in Names : Known(store, n) => store.ids[n].since < now'
      /\ \A p \in passes : GoodPass(p, now')
      /\ \A k \in spool : k.event \in {"create", "remove"}
      /\ unheard \subseteq Names
      /\ Flight /\ Boundary /\ hooks \subseteq Events /\ spool \subseteq Events
  BY PassKept DEF IdentityInv, IdentityTypeOK
<1>3. ASSUME NEW n \in Names, n \notin unheard', Unhooked(n)'
      PROVE  Apart(store, spool', n)
  <2>1. CASE \E h \in some : Spooled(h) /\ h.name = n
    <3>1. PICK h \in some : Spooled(h) /\ h.name = n
      BY <2>1
    <3>2. spool' = spool \cup {h} /\ h.event \in {"create", "remove"} /\ h \in hooks
      BY <1>1, <3>1 DEF Spooled
    <3>3. n \notin unheard
      BY <1>1, <1>3
    <3>4. Fixes(h, n)
      BY <1>2, <3>1, <3>2, <3>3 DEF Flight, Fixes
    <3>5. \A k \in spool : k.name = n => h.at > k.at
      <4>1. \A k \in spool : k.name = n => k.at < h.at /\ k.at \in Nat /\ h.at \in Nat
        BY <1>2, <3>1 DEF Flight, Events
      <4> QED
        BY <4>1
    <3> QED
      BY <3>1, <3>2, <3>4, <3>5 DEF Apart
  <2>2. CASE ~\E h \in some : Spooled(h) /\ h.name = n
    <3>1. n \notin unheard /\ \A h \in some : h.old # n
      BY <1>1, <1>2, <1>3, <2>2 DEF Flight, Spooled
    <3>2. Unhooked(n)
      BY <1>1, <1>3, <3>1 DEF Unhooked
    <3>3. Apart(store, spool, n)
      BY <1>2, <3>1, <3>2 DEF Boundary
    <3>4. \A k \in spool' : k.name = n => k \in spool
      BY <1>1, <2>2
    <3> QED
      BY <1>1, <3>3, <3>4 DEF Apart
  <2> QED
    BY <2>1, <2>2
<1>4. \A h \in some : h.name \in Names /\ h.old \in Names
  BY <1>2 DEF Events
<1>5. /\ unheard' \subseteq Names /\ unheard \subseteq unheard' /\ hooks' \subseteq hooks
      /\ spool' \subseteq spool \cup (hooks \ hooks')
      /\ \A k \in spool' : k.event \in {"create", "remove"}
  BY <1>1, <1>2, <1>4 DEF Spooled
<1>6. \A p \in passes' : GoodPass(p, now')
  BY <1>2
<1> QED
  BY <1>2, <1>3, <1>5, <1>6, StoreStep

LEMMA NotTakenStep ==
    ASSUME IdentityInv, NEW h \in hooks, NotTaken(h)
    PROVE  IdentityInv'
<1>1. /\ Refuses({h}) /\ passes' \subseteq passes
      /\ UNCHANGED <<now, passwd, store, snapshots, restores, underway, up>>
  BY DEF NotTaken
<1>2. faults' \in Nat
  BY DEF NotTaken, IdentityInv, IdentityTypeOK
<1>3. {h} \in SUBSET hooks /\ \A g, k \in {h} : g = k
  OBVIOUS
<1> QED
  BY <1>1, <1>2, <1>3, RefuseStep

LEMMA PassFailsStep ==
    ASSUME IdentityInv, NEW p \in passes, PassFails(p)
    PROVE  IdentityInv'
<1>1. /\ Refuses({p.by} \cap hooks) /\ passes' \subseteq passes
      /\ UNCHANGED <<now, passwd, store, snapshots, restores, underway, up>>
  BY DEF PassFails
<1>2. faults' \in Nat
  BY DEF PassFails, IdentityInv, IdentityTypeOK
<1>3. {p.by} \cap hooks \in SUBSET hooks /\ \A g, k \in {p.by} \cap hooks : g = k
  OBVIOUS
<1> QED
  BY <1>1, <1>2, <1>3, RefuseStep

LEMMA SpoolFailsStep ==
    ASSUME IdentityInv, NEW h \in hooks, SpoolFails(h)
    PROVE  IdentityInv'
<1>1. /\ now' = now /\ store' = store /\ passes' = passes /\ up' = up /\ hooks' = hooks \ {h}
      /\ UNCHANGED <<passwd, snapshots, restores, underway>> /\ spool' = spool
      /\ unheard' = unheard \cup {h.name} /\ faults' = faults + 1 /\ Spooled(h)
  BY DEF SpoolFails
<1>2. h.name \in Names /\ h.old = h.name /\ Boundary
  BY <1>1 DEF IdentityInv, IdentityTypeOK, Events, Flight, Spooled
<1>3. ASSUME NEW n \in Names, n \notin unheard', Unhooked(n)'
      PROVE  Apart(store, spool, n)
  <2>1. n \notin unheard /\ h.old # n
    BY <1>1, <1>2, <1>3
  <2>2. Unhooked(n)
    BY <1>1, <1>3, <2>1 DEF Unhooked
  <2> QED
    BY <1>2, <2>1, <2>2 DEF Boundary
<1>4. /\ store \in Stores /\ Narrow(store) /\ up \in BOOLEAN /\ faults \in Nat
      /\ \A n \in Names : Known(store, n) => store.ids[n].since < now'
      /\ \A p \in passes : GoodPass(p, now')
      /\ \A k \in spool : k.event \in {"create", "remove"}
      /\ unheard \subseteq Names
  BY <1>1, PassKept
<1>5. faults' \in Nat /\ unheard' \subseteq Names /\ hooks' \subseteq hooks
  BY <1>1, <1>2, <1>4
<1> QED
  BY <1>1, <1>3, <1>4, <1>5, StoreStep

LEMMA StopStep ==
    ASSUME IdentityInv, Stop
    PROVE  IdentityInv'
<1>1. /\ now' = now /\ store' = store /\ passes' = {} /\ up' \in BOOLEAN /\ hooks' = hooks
      /\ UNCHANGED <<passwd, snapshots, restores>> /\ underway' = {} /\ spool' = spool
      /\ unheard' = unheard /\ faults' = faults
  BY DEF Stop
<1>2. \A n \in Names : n \notin unheard' /\ Unhooked(n)' => Apart(store, spool, n)
  BY <1>1 DEF IdentityInv, Boundary, Unhooked
<1>3. /\ store \in Stores /\ Narrow(store) /\ faults \in Nat
      /\ \A n \in Names : Known(store, n) => store.ids[n].since < now'
      /\ \A k \in spool : k.event \in {"create", "remove"}
      /\ unheard \subseteq Names
  BY <1>1, PassKept
<1> QED
  BY <1>1, <1>2, <1>3, StoreStep

\* The first listing of the accounts.
LEMMA BackfillIs ==
    ASSUME IdentityTypeOK, NEW st \in Stores, NEW t \in Nat
    PROVE  /\ BackfillIdentities(st, t) \in Stores
           /\ BackfillIdentities(st, t).policy = st.policy
           /\ \A n \in Names : Known(st, n) => BackfillIdentities(st, t).ids[n] = st.ids[n]
           /\ \A n \in Names : ~Known(st, n) =>
                \/ BackfillIdentities(st, t).ids[n] = st.ids[n]
                \/ Exists(n) /\ BackfillIdentities(st, t).ids[n] = Identity(passwd[n].uid, t, FALSE)
<1> DEFINE ids == [n \in Names |-> IF Exists(n) /\ ~Known(st, n)
                                   THEN Identity(passwd[n].uid, t, FALSE) ELSE st.ids[n]]
           nx == [st EXCEPT !.backfilled = TRUE, !.ids = ids]
<1>1. CASE st.backfilled
  BY <1>1 DEF BackfillIdentities
<1>2. CASE ~st.backfilled
  <2>1. BackfillIdentities(st, t) = nx
    BY <1>2 DEF BackfillIdentities
  <2>2. ids \in [Names -> Identities \cup {NoOne}]
    <3> SUFFICES ASSUME NEW n \in Names
                 PROVE  (IF Exists(n) /\ ~Known(st, n) THEN Identity(passwd[n].uid, t, FALSE)
                         ELSE st.ids[n]) \in Identities \cup {NoOne}
      OBVIOUS
    <3>1. st.ids[n] \in Identities \cup {NoOne}
      BY DEF Stores
    <3>2. Exists(n) => passwd[n].uid \in Uids
      BY DEF IdentityTypeOK, Exists, Holders
    <3>3. Exists(n) => Identity(passwd[n].uid, t, FALSE) \in Identities
      BY <3>2, IdentityIs
    <3> QED
      BY <3>1, <3>3
  <2>3. \A n \in Names : ids[n] = IF Exists(n) /\ ~Known(st, n)
                                   THEN Identity(passwd[n].uid, t, FALSE) ELSE st.ids[n]
    OBVIOUS
  <2> HIDE DEF ids
  <2>4. nx \in Stores
    BY <2>2 DEF Stores
  <2>5. nx.ids = ids /\ nx.policy = st.policy
    BY DEF Stores
  <2> HIDE DEF nx
  <2> QED
    BY <2>1, <2>3, <2>4, <2>5
<1> QED
  BY <1>1, <1>2

LEMMA StartStep ==
    ASSUME IdentityInv, NEW refused \in SUBSET spool, NEW stuck \in SUBSET spool,
           NEW readable \in BOOLEAN, Start(refused, stuck, readable)
    PROVE  IdentityInv'
<1> DEFINE kept == refused \cup stuck
           rep == ReplayHookSpool(store, refused)
<1>1. /\ now' = now + 1 /\ passes' = passes /\ up' \in BOOLEAN /\ hooks' = hooks
      /\ UNCHANGED <<passwd, snapshots, restores, underway>> /\ spool' = kept
      /\ unheard' = unheard \cup OutOfTurn(kept)
      /\ store' = (IF readable THEN BackfillIdentities(rep, now) ELSE rep)
  BY DEF Start, Tick
<1>2. /\ store \in Stores /\ now \in Nat
      /\ \A p \in passes' : GoodPass(p, now')
      /\ \A k \in spool : k.event \in {"create", "remove"}
      /\ unheard \subseteq Names /\ Narrow(store) /\ faults \in Nat
  BY <1>1, PassKept
<1>3. faults' \in Nat
  BY <1>2 DEF Start
<1>4. kept \in SUBSET spool /\ refused \in SUBSET kept
  OBVIOUS
<1>5. ReplayedTo(store, rep, kept, kept)
  BY <1>2, <1>4, ReplayKeeps DEF IdentityInv, ItemsKnown
<1> HIDE DEF kept, rep
<1>6. rep \in Stores /\ Narrow(rep) /\ \A n \in Names : Known(rep, n) => rep.ids[n].since < now
  BY <1>2, <1>5 DEF ReplayedTo, Dated, Narrow
<1>7. \A n \in Names : Known(rep, n) => store'.ids[n] = rep.ids[n]
  BY <1>1, <1>2, <1>6, BackfillIs DEF IdentityInv
<1>8. ASSUME NEW n \in Names, ~Known(rep, n), Known(store', n)
      PROVE  store'.ids[n].since = now
  <2>1. Exists(n) /\ store'.ids[n] = Identity(passwd[n].uid, now, FALSE)
    BY <1>1, <1>2, <1>6, <1>8, BackfillIs DEF IdentityInv, Known
  <2>2. passwd[n].uid \in Uids
    BY <2>1 DEF IdentityInv, IdentityTypeOK, Exists, Holders
  <2>3. Identity(passwd[n].uid, now, FALSE).since = now
    BY <1>2, <2>2, IdentityIs DEF IdentityInv
  <2> QED
    BY <2>1, <2>3
<1>9. \A n \in Names : Known(store', n) => store'.ids[n].since < now'
  <2> SUFFICES ASSUME NEW n \in Names, Known(store', n) PROVE store'.ids[n].since < now'
    OBVIOUS
  <2>1. CASE Known(rep, n)
    <3>1. rep.ids[n].since \in Nat /\ rep.ids[n].since < now
      BY <1>6, <2>1 DEF Known, Stores, Identities
    <3> QED
      BY <1>1, <1>2, <1>7, <2>1, <3>1
  <2>2. CASE ~Known(rep, n)
    BY <1>1, <1>2, <1>8, <2>2
  <2> QED
    BY <2>1, <2>2
<1>10. \A n \in Names : Known(store, n) => Known(store', n)
  BY <1>5, <1>7 DEF ReplayedTo, Known
<1>11. store' \in Stores /\ Narrow(store')
  BY <1>1, <1>2, <1>6, BackfillIs DEF IdentityInv, Narrow
<1>12. ASSUME NEW n \in Names, n \notin unheard', Unhooked(n)'
       PROVE  Apart(store', spool', n)
  <2>1. Apart(store, spool, n)
    BY <1>1, <1>12 DEF IdentityInv, Boundary, Unhooked
  <2>2. Apart(rep, kept, n)
    BY <1>1, <1>5, <1>12, <2>1 DEF ReplayedTo
  <2>3. CASE Known(rep, n)
    <3>1. store'.ids[n] = rep.ids[n]
      BY <1>7, <2>3
    <3>2. Apart(store', kept, n)
      BY <2>2, <3>1 DEF Apart, Bounded, Recorded, Known
    <3> QED
      BY <1>1, <3>2
  <2>4. CASE ~Known(rep, n)
    <3>1. Foreign(n) = {}
      BY <1>5, <2>4 DEF ReplayedTo, Foreign, IdentityInv, ItemsKnown
    <3>2. Apart(store', kept, n)
      BY <2>2, <2>4, <3>1 DEF Apart, Recorded
    <3> QED
      BY <1>1, <3>2
  <2> QED
    BY <2>3, <2>4
<1>13. OutOfTurn(kept) \subseteq Names
  BY <1>4 DEF OutOfTurn, IdentityInv, IdentityTypeOK, Events
<1>14. unheard' \subseteq Names /\ spool' \subseteq spool \cup (hooks \ hooks')
  BY <1>1, <1>2, <1>4, <1>13
<1>15. hooks' \subseteq hooks /\ \A k \in spool' : k.event \in {"create", "remove"}
  BY <1>1, <1>2, <1>4
<1> QED
  BY <1>1, <1>2, <1>3, <1>9, <1>10, <1>11, <1>12, <1>14, <1>15, StoreStep

-----------------------------------------------------------------------------
\* A pass, name by name.

\* A pass that goes on to another name is the pass it was, and its hook has it.
LEMMA WrittenIs ==
    ASSUME IdentityInv, NEW p \in passes, NEW n \in Names, Written(p, n),
           now' = now \/ now' = now + 1, hooks' = hooks
    PROVE  /\ \A q \in passes' : GoodPass(q, now')
           /\ \A m : Unhooked(m)' => Unhooked(m)
<1> DEFINE rest == [p EXCEPT !.todo = @ \ {n}]
<1>1. \A q \in passes : GoodPass(q, now')
  BY PassKept
<1>2. p \in PassRecords
  BY <1>1 DEF GoodPass
<1>3. rest \in PassRecords /\ rest.by = p.by /\ rest.known = p.known
  BY <1>2 DEF PassRecords
<1>4. passes' = (passes \ {p}) \cup {rest} \/ (p.by = NoOne /\ passes' = passes \ {p})
  BY DEF Written
<1> HIDE DEF rest
<1>5. GoodPass(rest, now')
  BY <1>1, <1>3 DEF GoodPass
<1>6. ASSUME NEW m, Unhooked(m)', NEW h \in hooks, h.old = m
      PROVE  h.event = "remove" /\ \E q \in passes : q.by = h
  <2>1. PICK q \in passes' : q.by = h /\ h.event = "remove"
    BY <1>6 DEF Unhooked
  <2>2. CASE q = rest
    BY <1>3, <2>1, <2>2
  <2>3. CASE q # rest
    BY <1>4, <2>1, <2>3
  <2> QED
    BY <2>2, <2>3
<1> QED
  BY <1>1, <1>4, <1>5, <1>6 DEF Unhooked

\* What a step that writes one name of a pass, or two, has to see to.
LEMMA PassStep ==
    ASSUME IdentityInv, NEW p \in passes, NEW n \in Names, Written(p, n),
           now' = now \/ now' = now + 1,
           UNCHANGED <<passwd, snapshots, restores, underway, hooks, spool, up, faults>>,
           store' \in Stores, Narrow(store'),
           NEW W \in SUBSET Names, \A m \in Names \ W : store'.ids[m] = store.ids[m],
           \A m \in W : Known(store', m) /\ store'.ids[m].since < now',
           unheard' \subseteq Names, unheard \subseteq unheard',
           \A m \in W \ unheard' : Apart(store, spool, m) => Apart(store', spool, m)
    PROVE  IdentityInv'
<1>1. /\ \A k \in spool : k.event \in {"create", "remove"}
      /\ \A m \in Names : Known(store, m) => store.ids[m].since < now'
      /\ up \in BOOLEAN /\ faults \in Nat
  BY PassKept
<1>2. \A q \in passes' : GoodPass(q, now')
  BY WrittenIs
<1>3. \A m \in Names : Known(store', m) => store'.ids[m].since < now'
  BY <1>1 DEF Known
<1>4. \A m \in Names : Known(store, m) => Known(store', m)
  BY DEF Known
<1>5. ASSUME NEW m \in Names, m \notin unheard', Unhooked(m)'
      PROVE  Apart(store', spool, m)
  <2>1. Unhooked(m)
    BY <1>5, WrittenIs
  <2>2. Apart(store, spool, m)
    BY <1>5, <2>1 DEF IdentityInv, Boundary
  <2>3. CASE m \in W
    BY <1>5, <2>2, <2>3
  <2>4. CASE m \notin W
    BY <2>2, <2>4, ApartSame
  <2> QED
    BY <2>3, <2>4
<1> QED
  BY <1>1, <1>2, <1>3, <1>4, <1>5, StoreStep

LEMMA WriteBackStep ==
    ASSUME IdentityInv, NEW p \in passes, NEW n \in p.todo, WriteBack(p, n)
    PROVE  IdentityInv'
<1> DEFINE id == p.known[n]
<1>1. /\ Matches(p, n) /\ Written(p, n) /\ store' = [store EXCEPT !.ids[n] = id]
      /\ unheard' = unheard \cup {m \in {n} : store.ids[m] # p.known[m]}
      /\ UNCHANGED <<now, passwd, snapshots, restores, underway, hooks, spool, up, faults>>
  BY DEF WriteBack
<1>2. store \in Stores /\ Narrow(store) /\ GoodPass(p, now') /\ unheard \subseteq Names
  BY <1>1, PassKept
<1>3. /\ n \in Names /\ id \in Identities /\ id # NoOne /\ id.since < now'
  <2>1. n \in Names /\ id \in Identities \cup {NoOne}
    BY <1>2 DEF GoodPass, PassRecords
  <2> QED
    BY <1>1, <1>2, <2>1 DEF Matches, GoodPass
<1>4. n \notin unheard' => store.ids[n] = id
  BY <1>1
<1> HIDE DEF id
<1>5. /\ store' \in Stores /\ store'.policy = store.policy /\ store'.ids[n] = id
      /\ \A m \in Names \ {n} : store'.ids[m] = store.ids[m]
  BY <1>1, <1>2, <1>3 DEF Stores
<1>6. Narrow(store')
  BY <1>2, <1>5 DEF Narrow
<1>7. n \notin unheard' => (Apart(store, spool, n) => Apart(store', spool, n))
  BY <1>4, <1>5, ApartSame
<1> DEFINE W == {n}
<1>8. /\ W \in SUBSET Names /\ \A m \in Names \ W : store'.ids[m] = store.ids[m]
      /\ \A m \in W : Known(store', m) /\ store'.ids[m].since < now'
      /\ \A m \in W \ unheard' : Apart(store, spool, m) => Apart(store', spool, m)
  BY <1>3, <1>5, <1>7 DEF Known
<1> HIDE DEF W
<1>9. unheard' \subseteq Names /\ unheard \subseteq unheard'
  BY <1>1, <1>2, <1>3
<1> QED
  BY <1>1, <1>3, <1>5, <1>6, <1>8, <1>9, PassStep

LEMMA NoteAfreshStep ==
    ASSUME IdentityInv, NEW p \in passes, NEW n \in p.todo, NoteAfresh(p, n)
    PROVE  IdentityInv'
<1>1. /\ Written(p, n) /\ Exists(n) /\ Tick /\ store' = noteIdentity(store, n, now)
      /\ UNCHANGED <<passwd, snapshots, restores, underway, hooks, spool, up, unheard, faults>>
  BY DEF NoteAfresh
<1>2. /\ store \in Stores /\ Narrow(store) /\ GoodPass(p, now') /\ unheard \subseteq Names
      /\ IdentityTypeOK /\ Clock /\ Dated(store) /\ now \in Nat /\ now' = now + 1
  BY <1>1, PassKept DEF IdentityInv, Tick
<1>3. n \in Names
  BY <1>2 DEF GoodPass, PassRecords
<1>4. /\ store' \in Stores /\ store'.policy = store.policy
      /\ \A m \in Names : m # n => store'.ids[m] = store.ids[m]
      /\ store'.ids[n] \in Identities
      /\ store'.ids[n] = noteIdentity(store, n, now).ids[n]
  BY <1>1, <1>2, <1>3, NotedIs
<1>5. /\ Known(store', n) /\ store'.ids[n].since <= now
      /\ Apart(store, spool, n) /\ (Foreign(n) # {} => Known(store, n)) => Apart(store', spool, n)
  BY <1>1, <1>2, <1>3, <1>4, NotedKeeps
<1>6. store'.ids[n].since < now'
  <2>1. store'.ids[n].since \in Nat
    BY <1>4 DEF Identities
  <2> QED
    BY <1>2, <1>5, <2>1
<1>7. Foreign(n) # {} => Known(store, n)
  BY DEF Foreign, IdentityInv, ItemsKnown
<1>8. Narrow(store')
  BY <1>2, <1>4 DEF Narrow
<1> DEFINE W == {n}
<1>9. /\ W \in SUBSET Names /\ \A m \in Names \ W : store'.ids[m] = store.ids[m]
      /\ \A m \in W : Known(store', m) /\ store'.ids[m].since < now'
      /\ \A m \in W \ unheard' : Apart(store, spool, m) => Apart(store', spool, m)
  BY <1>3, <1>4, <1>5, <1>6, <1>7
<1> HIDE DEF W
<1> QED
  BY <1>1, <1>2, <1>3, <1>4, <1>8, <1>9, PassStep

LEMMA CarryRenameStep ==
    ASSUME IdentityInv, NEW p \in passes, NEW n \in p.todo, NEW m \in Names, CarryRename(p, m, n)
    PROVE  IdentityInv'
<1> DEFINE old == p.known[m]
           fresh == Identity(p.uids[n], old.since, old.recycled)
           past == [old EXCEPT !.retired = TRUE]
           ids == [store.ids EXCEPT ![n] = fresh, ![m] = past]
           kept == IF m \in store.policy.accounts THEN (store.policy.accounts \ {m}) \cup {n}
                   ELSE store.policy.accounts
<1>1. /\ m \in renamedFrom(p, n) /\ Written(p, n) /\ store' = renamed(store, p, m, n)
      /\ unheard' = unheard \cup {o \in {n, m} : store.ids[o] # p.known[o] \/ (o = m /\ Exists(m))}
      /\ UNCHANGED <<now, passwd, snapshots, restores, underway, hooks, spool, up, faults>>
  BY DEF CarryRename
<1>2. /\ store \in Stores /\ Narrow(store) /\ GoodPass(p, now') /\ unheard \subseteq Names /\ IdentityTypeOK
  BY <1>1, PassKept DEF IdentityInv
<1>3. /\ n \in Names /\ p.known[n] = NoOne /\ old # NoOne /\ n # m /\ old.uid = p.uids[n]
      /\ old \in Identities /\ old.since < now'
  <2>1. n \in Names /\ old \in Identities \cup {NoOne}
    BY <1>2 DEF GoodPass, PassRecords
  <2>2. p.known[n] = NoOne /\ old # NoOne /\ old.uid = p.uids[n]
    BY <1>1 DEF renamedFrom
  <2> QED
    BY <1>2, <2>1, <2>2 DEF GoodPass
<1> HIDE DEF old
<1>4. fresh \in Identities /\ fresh # NoOne /\ fresh.since = old.since
  <2>1. p.uids[n] \in Uids /\ old.since \in Nat /\ old.recycled \in BOOLEAN
    BY <1>3 DEF Identities
  <2> QED
    BY <1>2, <2>1, IdentityIs
<1>5. /\ past \in Identities /\ past.retired /\ past.since = old.since
      /\ past.recycled <=> old.recycled
  BY <1>3 DEF Identities
<1>6. past # NoOne
  BY <1>5, IdentityAssumption
<1> HIDE DEF fresh, past
<1>7. /\ store'.ids = ids /\ store'.policy.accounts = kept /\ store'.policy.enabled = store.policy.enabled
      /\ store' \in Stores
  <2>1. store' = [store EXCEPT !.ids = ids, !.policy.accounts = kept]
    BY <1>1 DEF renamed, old, fresh, past
  <2>2. ids \in [Names -> Identities \cup {NoOne}] /\ kept \in SUBSET Names
    BY <1>2, <1>3, <1>4, <1>5 DEF Stores
  <2> HIDE DEF ids, kept
  <2> QED
    BY <1>2, <2>1, <2>2 DEF Stores
<1>8. Narrow(store')
  BY <1>2, <1>7 DEF Narrow
<1>9. ids[n] = fresh /\ ids[m] = past /\ \A o \in Names \ {n, m} : ids[o] = store.ids[o]
  BY <1>2, <1>3 DEF Stores
<1> HIDE DEF ids, kept
<1>10. ASSUME n \notin unheard', Apart(store, spool, n)
       PROVE  Apart(store', spool, n)
  <2>1. store.ids[n] = NoOne
    BY <1>1, <1>3, <1>10
  <2>2. ~Known(store, n) /\ Foreign(n) = {}
    BY <2>1 DEF Known, Foreign, IdentityInv, ItemsKnown
  <2> QED
    BY <1>10, <2>2 DEF Apart, Recorded
<1>11. ASSUME m \notin unheard', Apart(store, spool, m)
       PROVE  Apart(store', spool, m)
  <2>1. store.ids[m] = old
    BY <1>1, <1>11 DEF old
  <2>2. Bounded(store', m)
    BY <1>5, <1>6, <1>7, <1>9 DEF Bounded, Known
  <2>3. \A k \in spool : k.name = m /\ Recorded(store, k) => Recorded(store', k)
    BY <1>5, <1>6, <1>7, <1>9, <2>1 DEF Recorded, Known
  <2> QED
    BY <1>11, <2>2, <2>3 DEF Apart
<1> DEFINE W == {n, m}
<1>12. /\ W \in SUBSET Names /\ \A o \in Names \ W : store'.ids[o] = store.ids[o]
       /\ \A o \in W : Known(store', o) /\ store'.ids[o].since < now'
       /\ \A o \in W \ unheard' : Apart(store, spool, o) => Apart(store', spool, o)
  <2>1. /\ Known(store', n) /\ store'.ids[n].since < now'
        /\ Known(store', m) /\ store'.ids[m].since < now'
    BY <1>3, <1>4, <1>5, <1>6, <1>7, <1>9 DEF Known
  <2> QED
    BY <1>3, <1>7, <1>9, <1>10, <1>11, <2>1
<1> HIDE DEF W
<1>13. unheard' \subseteq Names /\ unheard \subseteq unheard'
  BY <1>1, <1>2, <1>3
<1> QED
  BY <1>1, <1>3, <1>7, <1>8, <1>12, <1>13, PassStep

LEMMA PassEndsStep ==
    ASSUME IdentityInv, NEW p \in passes, PassEnds(p)
    PROVE  IdentityInv'
<1>1. /\ passes' = passes \ {p} /\ hooks' = hooks \ {p.by}
      /\ unheard' = unheard \cup (IF p.by = NoOne THEN {} ELSE NotCarried(p.by))
      /\ UNCHANGED <<now, passwd, store, snapshots, restores, underway, spool, up, faults>>
  BY DEF PassEnds
<1>2. /\ store \in Stores /\ Narrow(store) /\ up \in BOOLEAN /\ faults \in Nat
      /\ \A n \in Names : Known(store, n) => store.ids[n].since < now'
      /\ \A q \in passes : GoodPass(q, now')
      /\ \A k \in spool : k.event \in {"create", "remove"}
      /\ unheard \subseteq Names
      /\ Boundary /\ Flight /\ hooks \subseteq Events
  BY <1>1, PassKept DEF IdentityInv, IdentityTypeOK
<1>3. p.by # NoOne => p.by.name \in Names /\ p.by.old \in Names /\ p.by.event \in {"remove", "modify"}
  BY <1>2 DEF GoodPass, PassRecords, Events
<1>4. ASSUME NEW n \in Names, n \notin unheard', Unhooked(n)'
      PROVE  Apart(store, spool, n)
  <2>1. n \notin unheard
    BY <1>1, <1>4
  <2>2. CASE p.by \in hooks /\ p.by.event = "modify" /\ p.by.old = n
    <3>1. p.by # NoOne
      BY <1>2, <2>2, IdentityAssumption
    <3>2. n \notin NotCarried(p.by)
      BY <1>1, <1>4, <3>1
    <3>3. /\ store.ids[n] = NoOne \/ store.ids[n].retired
          /\ \A k \in spool : k.name # n
      BY <2>2, <3>2 DEF NotCarried
    <3>4. Foreign(n) # {} => Known(store, n) /\ store.ids[n].retired
      BY <3>3 DEF Foreign, IdentityInv, ItemsKnown, Known
    <3> QED
      BY <3>3, <3>4, ApartRetired
  <2>3. CASE ~(p.by \in hooks /\ p.by.event = "modify" /\ p.by.old = n)
    <3>1. Unhooked(n)
      <4> SUFFICES ASSUME NEW h \in hooks, h.old = n
                   PROVE  h.event = "remove" /\ \E q \in passes : q.by = h
        BY DEF Unhooked
      <4>1. CASE h = p.by
        <5>1. h # NoOne
          BY <1>2, IdentityAssumption
        <5> QED
          BY <1>3, <2>3, <4>1, <5>1
      <4>2. CASE h # p.by
        BY <1>1, <1>4, <4>2 DEF Unhooked
      <4> QED
        BY <4>1, <4>2
    <3> QED
      BY <1>2, <2>1, <3>1 DEF Boundary
  <2> QED
    BY <2>2, <2>3
<1>5. unheard' \subseteq Names /\ unheard \subseteq unheard' /\ hooks' \subseteq hooks
  BY <1>1, <1>2, <1>3 DEF NotCarried
<1>6. \A q \in passes' : GoodPass(q, now')
  BY <1>1, <1>2
<1> QED
  BY <1>1, <1>2, <1>4, <1>5, <1>6, StoreStep

-----------------------------------------------------------------------------
\* Work that is begun under a name, and dated when it is done.

\* What one look at a name leaves on record.
LEMMA LookIs ==
    ASSUME IdentityInv, NEW n \in Names, Exists(n)
    PROVE  /\ noteIdentity(store, n, now) \in Stores
           /\ noteIdentity(store, n, now).policy = store.policy
           /\ \A m \in Names : m # n => noteIdentity(store, n, now).ids[m] = store.ids[m]
           /\ Known(noteIdentity(store, n, now), n)
           /\ noteIdentity(store, n, now).ids[n].since <= now
           /\ \A entries \in SUBSET (hooks \cup spool) :
                Apart(store, entries, n) /\ (Foreign(n) # {} => Known(store, n))
                => Apart(noteIdentity(store, n, now), entries, n)
<1>1. now \in Nat /\ IdentityTypeOK /\ Clock /\ store \in Stores /\ Dated(store)
  BY DEF IdentityInv, IdentityTypeOK
<1>2. /\ noteIdentity(store, n, now) \in Stores
      /\ noteIdentity(store, n, now).policy = store.policy
      /\ \A m \in Names : m # n => noteIdentity(store, n, now).ids[m] = store.ids[m]
  BY <1>1, NotedIs
<1> QED
  BY <1>1, <1>2, NotedKeeps

LEMMA BeginWorkStep ==
    ASSUME IdentityInv, NEW n \in Names, Exists(n), Tick, store' = noteIdentity(store, n, now),
           UNCHANGED <<passwd, snapshots, restores, hooks, spool, up, passes, unheard, faults>>,
           NEW x, x \in [kind : {"backup", "restore"}, name : Names, at : Nat, owner : Names \X Nat],
           underway' = underway \cup {x}, x.name = n, x.at = now, x.owner = Holder(n)
    PROVE  IdentityInv'
<1>1. now \in Nat /\ now' = now + 1 /\ IdentityTypeOK /\ Clock /\ Flight /\ store \in Stores /\ Dated(store)
  BY DEF IdentityInv, IdentityTypeOK, Tick
<1>2. /\ Items' = Items \cup {x}
      /\ \A m : (Exists(m)' <=> Exists(m)) /\ Foreign(m)' = Foreign(m)
  <2>1. Items' = Items \cup {x}
    BY DEF Items
  <2>2. \A m : (Exists(m)' <=> Exists(m)) /\ Holder(m)' = Holder(m)
    BY DEF Exists, Holder
  <2>3. \A m, y : y \in Foreign(m)' <=> y \in Foreign(m)
    BY <2>1, <2>2 DEF Foreign
  <2>4. \A m : Foreign(m)' = Foreign(m)
    <3> SUFFICES ASSUME NEW m PROVE Foreign(m)' = Foreign(m)
      OBVIOUS
    <3>1. \A y : y \in Foreign(m)' <=> y \in Foreign(m)
      BY <2>3
    <3> QED
      BY <3>1 DEF Foreign
  <2> QED
    BY <2>1, <2>2, <2>4
<1>3. /\ store' \in Stores /\ store'.policy = store.policy
      /\ \A m \in Names : m # n => store'.ids[m] = store.ids[m]
  BY LookIs
<1>4. /\ Known(store', n) /\ store'.ids[n].since <= now
      /\ \A entries \in SUBSET (hooks \cup spool) :
           Apart(store, entries, n) /\ (Foreign(n) # {} => Known(store, n)) => Apart(store', entries, n)
  BY LookIs
<1>5. IdentityTypeOK'
  BY <1>1, <1>3 DEF IdentityTypeOK
<1>6. Clock'
  <2>1. \A y \in Items : y.at \in Nat /\ y.at < now
    BY <1>1 DEF Clock, Items, IdentityTypeOK
  <2>2. \A y \in Items' : y.at < now'
    <3>1. x.at < now' /\ \A y \in Items : y.at < now'
      BY <1>1, <2>1
    <3> QED
      BY <1>2, <3>1
  <2>3. \A k \in hooks \cup spool : k.at \in Nat /\ k.at < now
    BY <1>1 DEF Clock, IdentityTypeOK, Events
  <2>4. \A k \in hooks' \cup spool' : k.at < now'
    BY <1>1, <2>3
  <2>5. \A h, k \in hooks' \cup spool' : h.at = k.at => h = k
    <3>1. hooks' = hooks /\ spool' = spool
      OBVIOUS
    <3>2. \A h, k \in hooks \cup spool : h.at = k.at => h = k
      BY <1>1 DEF Clock
    <3> QED
      BY <3>1, <3>2
  <2> QED
    BY <2>2, <2>4, <2>5, <1>1 DEF Clock
<1>7. Flight'
  BY <1>1, <1>2 DEF Flight
<1>8. \A m \in Names : Known(store, m) => Known(store', m)
  BY <1>3, <1>4 DEF Known
<1>9. ItemsKnown'
  <2>1. \A y \in Items : y.name \in Names /\ Known(store, y.name)
    BY <1>1 DEF IdentityInv, ItemsKnown, Items, IdentityTypeOK
  <2>2. \A y \in Items' : Known(store', y.name)
    BY <1>2, <1>4, <1>8, <2>1
  <2> QED
    BY <2>2 DEF ItemsKnown, Known
<1>10. Dated(store)'
  <2> SUFFICES ASSUME NEW m \in Names, Known(store', m) PROVE store'.ids[m].since < now'
    BY DEF Dated, Known
  <2>1. CASE m = n
    <3>1. store'.ids[n].since \in Nat /\ store'.ids[n].since <= now
      BY <1>3, <1>4 DEF Known, Stores, Identities
    <3> QED
      BY <1>1, <2>1, <3>1
  <2>2. CASE m # n
    <3>1. store'.ids[m] = store.ids[m] /\ store.ids[m].since \in Nat /\ store.ids[m].since < now
      BY <1>1, <1>3, <2>2 DEF Dated, Known, Stores, Identities
    <3> QED
      BY <1>1, <3>1
  <2> QED
    BY <2>1, <2>2
<1>11. PassDated'
  <2>1. \A p \in passes : GoodPass(p, now')
    BY <1>1, PassKept
  <2> QED
    BY <2>1 DEF PassDated, GoodPass
<1>12. Boundary'
  <2> SUFFICES ASSUME NEW m \in Names, m \notin unheard, Unhooked(m)
               PROVE  Apart(store, spool, m)'
    BY DEF Boundary, Unhooked
  <2>1. Apart(store, spool, m)
    BY DEF IdentityInv, Boundary
  <2>2. Apart(store', spool, m)
    <3>1. CASE m = n
      <4>1. Foreign(n) # {} => Known(store, n)
        BY DEF Foreign, IdentityInv, ItemsKnown
      <4> QED
        BY <1>4, <2>1, <3>1, <4>1
    <3>2. CASE m # n
      BY <1>3, <2>1, <3>2 DEF Apart, Bounded, Recorded, Known
    <3> QED
      BY <3>1, <3>2
  <2>3. \A k : Fixes(k, m)' <=> Fixes(k, m)
    BY <1>2 DEF Fixes
  <2>4. Bounded(store, m)' <=> Bounded(store', m)
    BY <1>2 DEF Bounded, Known
  <2>5. \A k : Recorded(store, k)' <=> Recorded(store', k)
    BY DEF Recorded, Known
  <2> QED
    BY <1>2, <2>2, <2>3, <2>4, <2>5 DEF Apart
<1>13. PolicyNeverWidens'
  BY <1>3 DEF PolicyNeverWidens, IdentityInv
<1> QED
  BY <1>5, <1>6, <1>7, <1>9, <1>10, <1>11, <1>12, <1>13 DEF IdentityInv

\* Work that is done: what is filed of it is dated now.
LEMMA LandingStep ==
    ASSUME IdentityInv, Tick, UNCHANGED <<passwd, store, hooks, spool, up, passes, faults>>,
           NEW b \in underway, NEW x, Items' \subseteq Items \cup {x}, x.name = b.name, x.at = now,
           x.owner = b.owner \/ (Exists(b.name) /\ x.owner = Holder(b.name)),
           snapshots' \subseteq [name : Names, at : Nat, owner : Names \X Nat],
           restores' \subseteq [name : Names, at : Nat, owner : Names \X Nat, since : Nat],
           underway' \subseteq underway, \A r \in restores' : r.since <= r.at,
           unheard \subseteq unheard', unheard' \subseteq Names,
           Exists(b.name) /\ x.owner # Holder(b.name) => b.name \in unheard'
    PROVE  IdentityInv'
<1>1. now \in Nat /\ now' = now + 1 /\ IdentityTypeOK /\ Clock /\ Flight /\ b.name \in Names
  BY DEF IdentityInv, IdentityTypeOK, Tick
<1>2. /\ \A m : Exists(m)' <=> Exists(m)
      /\ \A m : m # b.name => Foreign(m)' \subseteq Foreign(m)
      /\ Foreign(b.name)' \subseteq Foreign(b.name) \/ ~Exists(b.name) \/ b.name \in unheard'
  BY DEF Exists, Holder, Foreign
<1>3. IdentityTypeOK'
  BY <1>1 DEF IdentityTypeOK
<1>4. Clock'
  <2>1. \A y \in Items : y.at \in Nat /\ y.at < now
    BY <1>1 DEF Clock, Items, IdentityTypeOK
  <2>2. \A y \in Items' : y.at < now'
    BY <1>1, <2>1
  <2>3. \A k \in hooks \cup spool : k.at \in Nat /\ k.at < now
    BY <1>1 DEF Clock, IdentityTypeOK, Events
  <2>4. \A k \in hooks' \cup spool' : k.at < now'
    BY <1>1, <2>3
  <2>5. \A h, k \in hooks' \cup spool' : h.at = k.at => h = k
    BY <1>1 DEF Clock
  <2> QED
    BY <2>2, <2>4, <2>5 DEF Clock
<1>5. Flight'
  <2>1. \A h \in hooks : h.event = "create" =>
          Exists(h.name)' /\ (h.name \in unheard' \/ \A y \in Foreign(h.name)' : y.at < h.at)
    BY <1>1, <1>2 DEF Flight
  <2> QED
    BY <1>1, <1>2, <2>1 DEF Flight
<1>6. ItemsKnown'
  <2>1. Known(store, b.name) /\ \A y \in Items : Known(store, y.name)
    BY DEF IdentityInv, ItemsKnown, Items
  <2>2. \A y \in Items' : Known(store, y.name)
    BY <2>1
  <2> QED
    BY <2>2 DEF ItemsKnown, Known
<1>7. Dated(store)' /\ PassDated'
  <2>1. /\ \A n \in Names : Known(store, n) => store.ids[n].since < now'
        /\ \A p \in passes : GoodPass(p, now')
    BY <1>1, PassKept
  <2> QED
    BY <2>1 DEF Dated, PassDated, GoodPass, Known
<1>8. Boundary'
  <2> SUFFICES ASSUME NEW m \in Names, m \notin unheard', Unhooked(m)
               PROVE  Apart(store, spool, m)'
    BY DEF Boundary, Unhooked
  <2>1. Apart(store, spool, m)
    BY DEF IdentityInv, Boundary
  <2>2. \A k : Recorded(store, k)' <=> Recorded(store, k)
    BY DEF Recorded, Known
  <2>3. CASE Foreign(m)' \subseteq Foreign(m)
    <3>1. Bounded(store, m) => Bounded(store, m)'
      BY <1>2, <2>3 DEF Bounded, Known
    <3>2. \A k : Fixes(k, m) => Fixes(k, m)'
      BY <1>2, <2>3 DEF Fixes
    <3> QED
      BY <2>1, <2>2, <2>3, <3>1, <3>2 DEF Apart
  <2>4. CASE m = b.name /\ ~Exists(m)
    <3>1. b \in Foreign(m)
      BY <2>4 DEF Foreign, Items
    <3>2. Bounded(store, m) => Bounded(store, m)'
      BY <2>4 DEF Bounded, Known
    <3>3. \A k : Fixes(k, m) => Fixes(k, m)'
      BY <2>4 DEF Fixes
    <3> QED
      BY <2>1, <2>2, <3>1, <3>2, <3>3 DEF Apart
  <2> QED
    BY <1>2, <2>3, <2>4
<1>9. PolicyNeverWidens'
  BY DEF IdentityInv, PolicyNeverWidens
<1> QED
  BY <1>3, <1>4, <1>5, <1>6, <1>7, <1>8, <1>9 DEF IdentityInv

LEMMA WorkStep ==
    ASSUME IdentityInv, NEW n \in Names, Backup(n) \/ AskRestore(n)
    PROVE  IdentityInv'
<1>1. PICK kind \in {"backup", "restore"} : BeginWork(kind, n)
  BY DEF Backup, AskRestore
<1> DEFINE x == [kind |-> kind, name |-> n, at |-> now, owner |-> passwd[n].owner]
<1>2. /\ Exists(n) /\ Tick /\ store' = noteIdentity(store, n, now) /\ underway' = underway \cup {x}
      /\ UNCHANGED <<passwd, snapshots, restores, hooks, spool, up, passes, unheard, faults>>
  BY <1>1 DEF BeginWork
<1>3. passwd[n].owner \in Names \X Nat /\ now \in Nat
  BY <1>2 DEF IdentityInv, IdentityTypeOK, Exists, Holders
<1>4. /\ x \in [kind : {"backup", "restore"}, name : Names, at : Nat, owner : Names \X Nat]
      /\ x.name = n /\ x.at = now /\ x.owner = Holder(n)
  BY <1>3 DEF Holder
<1> HIDE DEF x
<1> QED
  BY <1>2, <1>4, BeginWorkStep

LEMMA LandStep ==
    ASSUME IdentityInv, NEW b \in underway, Land(b)
    PROVE  IdentityInv'
<1>1. PICK owner \in {b.owner} \cup {passwd[n].owner : n \in {b.name} \cap Accounts} :
        /\ snapshots' = snapshots \cup {[name |-> b.name, at |-> now, owner |-> owner]}
        /\ unheard' = unheard \cup (IF owner = b.owner THEN ChangedHands(b) ELSE {})
  BY DEF Land
<1> DEFINE x == [name |-> b.name, at |-> now, owner |-> owner]
<1>2. /\ Tick /\ underway' = underway \ {b}
      /\ UNCHANGED <<passwd, store, restores, hooks, spool, up, passes, faults>>
  BY DEF Land
<1>3. /\ b.name \in Names /\ b.owner \in Names \X Nat /\ now \in Nat
      /\ snapshots \subseteq [name : Names, at : Nat, owner : Names \X Nat]
      /\ restores \subseteq [name : Names, at : Nat, owner : Names \X Nat, since : Nat]
      /\ unheard \subseteq Names /\ \A r \in restores : r.since <= r.at
      /\ \A n \in Accounts : passwd[n].owner \in Names \X Nat
  BY DEF IdentityInv, IdentityTypeOK, Clock, Accounts, Exists, Holders
<1>4. /\ owner \in Names \X Nat
      /\ owner = b.owner \/ (Exists(b.name) /\ owner = Holder(b.name))
      /\ Exists(b.name) /\ owner # Holder(b.name) => b.name \in unheard'
  BY <1>1, <1>3 DEF Accounts, Holder, ChangedHands
<1>5. /\ x \in [name : Names, at : Nat, owner : Names \X Nat]
      /\ x.name = b.name /\ x.at = now /\ x.owner = owner
  BY <1>3, <1>4
<1>6. snapshots' = snapshots \cup {x}
  BY <1>1
<1> HIDE DEF x
<1>7. Items' \subseteq Items \cup {x}
  BY <1>2, <1>6 DEF Items
<1>8. unheard \subseteq unheard' /\ unheard' \subseteq Names
  BY <1>1, <1>3 DEF ChangedHands
<1>9. /\ snapshots' \subseteq [name : Names, at : Nat, owner : Names \X Nat]
      /\ restores' \subseteq [name : Names, at : Nat, owner : Names \X Nat, since : Nat]
      /\ underway' \subseteq underway /\ \A r \in restores' : r.since <= r.at
  BY <1>2, <1>3, <1>5, <1>6
<1> QED
  BY <1>2, <1>4, <1>5, <1>7, <1>8, <1>9, LandingStep

LEMMA QueueRestoreStep ==
    ASSUME IdentityInv, NEW b \in underway, QueueRestore(b)
    PROVE  IdentityInv'
<1> DEFINE x == [name |-> b.name, at |-> now, owner |-> b.owner, since |-> AccountSince(store, b.name)]
<1>1. /\ Tick /\ restores' = restores \cup {x} /\ unheard' = unheard \cup ChangedHands(b)
      /\ underway' = underway \ {b}
      /\ UNCHANGED <<passwd, store, snapshots, hooks, spool, up, passes, faults>>
  BY DEF QueueRestore
<1>2. /\ b.name \in Names /\ b.owner \in Names \X Nat /\ now \in Nat
      /\ snapshots \subseteq [name : Names, at : Nat, owner : Names \X Nat]
      /\ restores \subseteq [name : Names, at : Nat, owner : Names \X Nat, since : Nat]
      /\ unheard \subseteq Names /\ \A r \in restores : r.since <= r.at
  BY DEF IdentityInv, IdentityTypeOK, Clock
<1>3. AccountSince(store, b.name) \in Nat /\ AccountSince(store, b.name) <= now
  <2>1. Known(store, b.name) => store.ids[b.name].since \in Nat /\ store.ids[b.name].since < now
    BY <1>2 DEF IdentityInv, IdentityTypeOK, Dated, Known, Stores, Identities
  <2> QED
    BY <1>2, <2>1 DEF AccountSince
<1>4. /\ x \in [name : Names, at : Nat, owner : Names \X Nat, since : Nat]
      /\ x.name = b.name /\ x.at = now /\ x.owner = b.owner /\ x.since <= x.at
  BY <1>2, <1>3
<1> HIDE DEF x
<1>5. Items' \subseteq Items \cup {x}
  BY <1>1 DEF Items
<1>6. unheard \subseteq unheard' /\ unheard' \subseteq Names
  BY <1>1, <1>2 DEF ChangedHands
<1>7. Exists(b.name) /\ x.owner # Holder(b.name) => b.name \in unheard'
  BY <1>1, <1>4 DEF ChangedHands, Holder
<1>8. /\ snapshots' \subseteq [name : Names, at : Nat, owner : Names \X Nat]
      /\ restores' \subseteq [name : Names, at : Nat, owner : Names \X Nat, since : Nat]
      /\ underway' \subseteq underway /\ \A r \in restores' : r.since <= r.at
  BY <1>1, <1>2, <1>4
<1> QED
  BY <1>1, <1>4, <1>5, <1>6, <1>7, <1>8, LandingStep

-----------------------------------------------------------------------------
\* Steps of cPanel: accounts of `changed` names change, and a hook starts.

LEMMA AccountStep ==
    ASSUME IdentityInv, Tick, UNCHANGED <<store, snapshots, restores, underway, spool, up, passes, unheard>>,
           faults' \in Nat, passwd' \in [Names -> Holders \cup {NoOne}],
           NEW changed \in SUBSET Names, \A n \in Names \ changed : passwd'[n] = passwd[n],
           \A h \in hooks : {h.name, h.old} \cap changed = {},
           NEW new \in SUBSET [event : {"create", "remove", "modify"}, name : changed, old : changed, at : {now}],
           \A h, k \in new : h = k, hooks' = hooks \cup new,
           \A h \in new : /\ h.event \in {"create", "remove"} => h.old = h.name
                          /\ h.event = "create" => Exists(h.name)'
                          /\ h.event = "remove" => ~Exists(h.name)',
           \A n \in changed : ~Exists(n) \/ \E h \in new : h.old = n
    PROVE  IdentityInv'
<1>1. now \in Nat /\ now' = now + 1 /\ IdentityTypeOK /\ Clock /\ Flight
  BY DEF IdentityInv, IdentityTypeOK, Tick
<1>2. Items' = Items
  BY DEF Items
<1>3. \A n \in Names \ changed : (Exists(n)' <=> Exists(n)) /\ Foreign(n)' = Foreign(n)
  BY <1>2 DEF Exists, Holder, Foreign
<1>4. \A n : ~Exists(n) => Foreign(n)' \subseteq Foreign(n)
  BY <1>2 DEF Foreign
<1>5. \A h \in new : /\ h.at = now /\ h.name \in changed /\ h.old \in changed
                     /\ h.event \in {"create", "remove", "modify"}
  OBVIOUS
<1>6. IdentityTypeOK'
  <2>1. hooks' \subseteq Events
    BY <1>1 DEF IdentityTypeOK, Events
  <2> QED
    BY <1>1, <2>1 DEF IdentityTypeOK
<1>7. \A x \in Items : x.at \in Nat /\ x.at < now
  BY <1>1 DEF Clock, Items, IdentityTypeOK
<1>8. \A k \in hooks \cup spool : k.at \in Nat /\ k.at < now
  BY <1>1 DEF Clock, IdentityTypeOK, Events
<1>9. Clock'
  <2>1. \A x \in Items' : x.at < now'
    BY <1>1, <1>2, <1>7
  <2>2. \A k \in hooks' \cup spool' : k.at < now'
    BY <1>1, <1>5, <1>8
  <2>3. \A h, k \in hooks' \cup spool' : h.at = k.at => h = k
    <3> SUFFICES ASSUME NEW h \in hooks' \cup spool', NEW k \in hooks' \cup spool', h.at = k.at PROVE h = k
      OBVIOUS
    <3>1. CASE h \in new /\ k \in new
      BY <3>1
    <3>2. CASE h \notin new /\ k \notin new
      <4>1. h \in hooks \cup spool /\ k \in hooks \cup spool
        BY <3>2
      <4> QED
        BY <1>1, <4>1 DEF Clock
    <3>3. CASE (h \in new) # (k \in new)
      <4>1. (h.at = now /\ k.at < now /\ k.at \in Nat) \/ (k.at = now /\ h.at < now /\ h.at \in Nat)
        BY <1>5, <1>8, <3>3
      <4> QED
        BY <1>1, <4>1
    <3> QED
      BY <3>1, <3>2, <3>3
  <2>4. \A r \in restores' : r.since <= r.at
    BY <1>1 DEF Clock
  <2> QED
    BY <2>1, <2>2, <2>3, <2>4 DEF Clock
<1>10. Flight'
  <2>1. \A h \in hooks : h.name \in Names \ changed /\ h.old \in Names \ changed
    BY <1>1 DEF IdentityTypeOK, Events
  <2>2. \A h \in hooks' : h.event \in {"create", "remove"} => h.old = h.name
    BY <1>1 DEF Flight
  <2>3. \A h, k \in hooks' : h # k => {h.name, h.old} \cap {k.name, k.old} = {}
    <3> SUFFICES ASSUME NEW h \in hooks', NEW k \in hooks', h # k
                 PROVE  {h.name, h.old} \cap {k.name, k.old} = {}
      OBVIOUS
    <3>1. CASE h \in hooks /\ k \in hooks
      BY <1>1, <3>1 DEF Flight
    <3>2. CASE h \in hooks /\ k \in new
      BY <1>5, <2>1, <3>2
    <3>3. CASE h \in new /\ k \in hooks
      BY <1>5, <2>1, <3>3
    <3> QED
      BY <3>1, <3>2, <3>3
  <2>4. \A h \in hooks', k \in spool' : k.name = h.name => k.at < h.at
    <3> SUFFICES ASSUME NEW h \in hooks', NEW k \in spool, k.name = h.name PROVE k.at < h.at
      OBVIOUS
    <3>1. CASE h \in hooks
      BY <1>1, <3>1 DEF Flight
    <3>2. CASE h \in new
      BY <1>5, <1>8, <3>2
    <3> QED
      BY <3>1, <3>2
  <2>5. \A h \in hooks' : h.event = "create" =>
          Exists(h.name)' /\ (h.name \in unheard \/ \A x \in Foreign(h.name)' : x.at < h.at)
    <3> SUFFICES ASSUME NEW h \in hooks', h.event = "create"
                 PROVE  Exists(h.name)' /\ (h.name \in unheard \/ \A x \in Foreign(h.name)' : x.at < h.at)
      OBVIOUS
    <3>1. CASE h \in hooks
      BY <1>1, <1>3, <2>1, <3>1 DEF Flight
    <3>2. CASE h \in new
      <4>1. \A x \in Foreign(h.name)' : x \in Items
        BY <1>2 DEF Foreign
      <4> QED
        BY <1>5, <1>7, <3>2, <4>1
    <3> QED
      BY <3>1, <3>2
  <2>6. \A h \in hooks' : h.event = "remove" => ~Exists(h.name)'
    <3> SUFFICES ASSUME NEW h \in hooks', h.event = "remove" PROVE ~Exists(h.name)'
      OBVIOUS
    <3>1. CASE h \in hooks
      BY <1>1, <1>3, <2>1, <3>1 DEF Flight
    <3>2. CASE h \in new
      BY <3>2
    <3> QED
      BY <3>1, <3>2
  <2> QED
    BY <2>2, <2>3, <2>4, <2>5, <2>6 DEF Flight
<1>11. ItemsKnown'
  BY <1>2 DEF IdentityInv, ItemsKnown, Known
<1>12. Dated(store)' /\ PassDated'
  <2>1. /\ \A n \in Names : Known(store, n) => store.ids[n].since < now'
        /\ \A p \in passes : GoodPass(p, now')
    BY <1>1, PassKept
  <2> QED
    BY <2>1 DEF Dated, PassDated, GoodPass, Known
<1>13. Boundary'
  <2> SUFFICES ASSUME NEW m \in Names, m \notin unheard, Unhooked(m)'
               PROVE  Apart(store, spool, m)'
    BY DEF Boundary
  <2>9. Unhooked(m)
    BY DEF Unhooked
  <2>1. Apart(store, spool, m)
    BY <2>9 DEF IdentityInv, Boundary
  <2>10. \A h \in new : h.old # m
    <3> SUFFICES ASSUME NEW h \in new, h.old = m PROVE FALSE
      OBVIOUS
    <3>1. PICK p \in passes : p.by = h
      BY DEF Unhooked
    <3>2. p.by # NoOne => p.by.at < now
      BY <3>1 DEF IdentityInv, PassDated, GoodPass
    <3>3. h \in Events
      BY <1>1 DEF Events
    <3> QED
      BY <1>1, <1>5, <3>1, <3>2, <3>3, IdentityAssumption
  <2>2. \A k : Recorded(store, k)' <=> Recorded(store, k)
    BY DEF Recorded, Known
  <2>3. CASE m \in changed
    <3>1. ~Exists(m)
      BY <2>3, <2>10
    <3>2. Foreign(m)' \subseteq Foreign(m)
      BY <1>4, <3>1
    <3>3. Bounded(store, m) => Bounded(store, m)'
      BY <3>1 DEF Bounded, Known
    <3>4. \A k : Fixes(k, m) => Fixes(k, m)'
      BY <3>1 DEF Fixes
    <3> QED
      BY <2>1, <2>2, <3>2, <3>3, <3>4 DEF Apart
  <2>4. CASE m \notin changed
    <3>1. (Exists(m)' <=> Exists(m)) /\ Foreign(m)' = Foreign(m) /\ passwd'[m] = passwd[m]
      BY <1>3, <2>4
    <3>2. Bounded(store, m)' <=> Bounded(store, m)
      BY <3>1 DEF Bounded, Known
    <3>3. \A k : Fixes(k, m)' <=> Fixes(k, m)
      BY <3>1 DEF Fixes
    <3> QED
      BY <2>1, <2>2, <3>1, <3>2, <3>3 DEF Apart
  <2> QED
    BY <2>3, <2>4
<1>14. PolicyNeverWidens'
  BY DEF IdentityInv, PolicyNeverWidens
<1> QED
  BY <1>6, <1>9, <1>10, <1>11, <1>12, <1>13, <1>14 DEF IdentityInv

LEMMA CreateStep ==
    ASSUME IdentityInv, NEW n \in Names, NEW u \in Uids, Create(n, u) \/ CreateQuietly(n, u)
    PROVE  IdentityInv'
<1> DEFINE id == [uid |-> u, owner |-> <<n, now>>]
           h == Hook("create", n, n)
<1>1. /\ ~Exists(n) /\ ~HookOn(n) /\ Tick /\ passwd' = [passwd EXCEPT ![n] = id]
      /\ UNCHANGED <<store, snapshots, restores, underway, spool, up, passes, unheard>>
      /\ hooks' = hooks \cup {h} \/ hooks' = hooks \cup {}
      /\ faults' = faults \/ faults' = faults + 1
  BY DEF Create, CreateQuietly
<1>2. now \in Nat /\ passwd \in [Names -> Holders \cup {NoOne}] /\ faults \in Nat
  BY DEF IdentityInv, IdentityTypeOK
<1>3. id \in Holders /\ id # NoOne
  BY <1>2, IdentityAssumption DEF Holders
<1>4. /\ h \in [event : {"create", "remove", "modify"}, name : {n}, old : {n}, at : {now}]
      /\ h.event = "create" /\ h.name = n /\ h.old = n
  BY DEF Hook
<1> HIDE DEF id, h
<1>5. passwd' \in [Names -> Holders \cup {NoOne}] /\ passwd'[n] = id /\ faults' \in Nat
  BY <1>1, <1>2, <1>3
<1>6. Exists(n)'
  BY <1>3, <1>5 DEF Exists
<1>7. \A m \in Names \ {n} : passwd'[m] = passwd[m]
  BY <1>1, <1>2
<1>8. \A g \in hooks : {g.name, g.old} \cap {n} = {}
  BY <1>1 DEF HookOn
<1>9. PICK new \in SUBSET {h} : hooks' = hooks \cup new
  BY <1>1
<1> DEFINE changed == {n}
<1>10. /\ new \in SUBSET [event : {"create", "remove", "modify"}, name : changed, old : changed, at : {now}]
       /\ \A g, k \in new : g = k
       /\ \A g \in new : /\ g.event \in {"create", "remove"} => g.old = g.name
                         /\ g.event = "create" => Exists(g.name)'
                         /\ g.event = "remove" => ~Exists(g.name)'
  BY <1>4, <1>6
<1>11. /\ changed \in SUBSET Names
       /\ \A m \in Names \ changed : passwd'[m] = passwd[m]
       /\ \A g \in hooks : {g.name, g.old} \cap changed = {}
       /\ \A m \in changed : ~Exists(m) \/ \E g \in new : g.old = m
  BY <1>1, <1>7, <1>8
<1> HIDE DEF changed
<1> QED
  BY <1>1, <1>5, <1>9, <1>10, <1>11, AccountStep

LEMMA TerminateStep ==
    ASSUME IdentityInv, NEW n \in Names, Terminate(n)
    PROVE  IdentityInv'
<1> DEFINE h == Hook("remove", n, n)
           new == {h}
<1>1. /\ ~HookOn(n) /\ Tick /\ passwd' = [passwd EXCEPT ![n] = NoOne]
      /\ UNCHANGED <<store, snapshots, restores, underway, spool, up, passes, unheard>>
      /\ hooks' = hooks \cup new /\ faults' = faults
  BY DEF Terminate
<1>2. passwd \in [Names -> Holders \cup {NoOne}] /\ faults \in Nat
  BY DEF IdentityInv, IdentityTypeOK
<1>3. /\ h \in [event : {"create", "remove", "modify"}, name : {n}, old : {n}, at : {now}]
      /\ h.event = "remove" /\ h.name = n /\ h.old = n
  BY DEF Hook
<1> HIDE DEF h
<1>4. passwd' \in [Names -> Holders \cup {NoOne}] /\ ~Exists(n)' /\ faults' \in Nat
  BY <1>1, <1>2 DEF Exists
<1>5. \A m \in Names \ {n} : passwd'[m] = passwd[m]
  BY <1>1, <1>2
<1>6. \A g \in hooks : {g.name, g.old} \cap {n} = {}
  BY <1>1 DEF HookOn
<1>7. /\ new \in SUBSET [event : {"create", "remove", "modify"}, name : {n}, old : {n}, at : {now}]
      /\ \A g, k \in new : g = k
      /\ \A g \in new : /\ g.event \in {"create", "remove"} => g.old = g.name
                        /\ g.event = "create" => Exists(g.name)'
                        /\ g.event = "remove" => ~Exists(g.name)'
      /\ \A m \in {n} : ~Exists(m) \/ \E g \in new : g.old = m
  BY <1>3, <1>4
<1> HIDE DEF new
<1> DEFINE changed == {n}
<1>8. changed \in SUBSET Names /\ changed = {n}
  OBVIOUS
<1> HIDE DEF changed
<1> QED
  BY <1>1, <1>4, <1>5, <1>6, <1>7, <1>8, AccountStep

LEMMA RenameStep ==
    ASSUME IdentityInv, NEW n \in Names, NEW m \in Names, Rename(n, m)
    PROVE  IdentityInv'
<1> DEFINE h == Hook("modify", m, n)
           new == {h}
<1>1. /\ Exists(n) /\ ~Exists(m) /\ ~HookOn(n) /\ ~HookOn(m) /\ Tick
      /\ passwd' = [passwd EXCEPT ![n] = NoOne, ![m] = passwd[n]]
      /\ UNCHANGED <<store, snapshots, restores, underway, spool, up, passes, unheard>>
      /\ hooks' = hooks \cup new /\ faults' = faults
  BY DEF Rename
<1>2. passwd \in [Names -> Holders \cup {NoOne}] /\ faults \in Nat
  BY DEF IdentityInv, IdentityTypeOK
<1>3. /\ h \in [event : {"create", "remove", "modify"}, name : {n, m}, old : {n, m}, at : {now}]
      /\ h.event = "modify" /\ h.name = m /\ h.old = n
  BY DEF Hook
<1> HIDE DEF h
<1>4. passwd' \in [Names -> Holders \cup {NoOne}] /\ faults' \in Nat
  BY <1>1, <1>2
<1>5. \A k \in Names \ {n, m} : passwd'[k] = passwd[k]
  BY <1>1, <1>2
<1>6. \A g \in hooks : {g.name, g.old} \cap {n, m} = {}
  BY <1>1 DEF HookOn
<1>7. /\ new \in SUBSET [event : {"create", "remove", "modify"}, name : {n, m}, old : {n, m}, at : {now}]
      /\ \A g, k \in new : g = k
      /\ \A g \in new : /\ g.event \in {"create", "remove"} => g.old = g.name
                        /\ g.event = "create" => Exists(g.name)'
                        /\ g.event = "remove" => ~Exists(g.name)'
      /\ \A k \in {n, m} : ~Exists(k) \/ \E g \in new : g.old = k
  BY <1>1, <1>3
<1> HIDE DEF new
<1> DEFINE changed == {n, m}
<1>8. changed \in SUBSET Names /\ changed = {n, m}
  OBVIOUS
<1> HIDE DEF changed
<1> QED
  BY <1>1, <1>4, <1>5, <1>6, <1>7, <1>8, AccountStep

-----------------------------------------------------------------------------
\* Every step keeps the invariant, which the initial states have.

LEMMA IdentityInitially == IdentityInit => IdentityInv
<1> SUFFICES ASSUME IdentityInit PROVE IdentityInv
  OBVIOUS
<1>1. /\ now = 1 /\ snapshots = {} /\ restores = {} /\ hooks = {} /\ spool = {}
      /\ up = FALSE /\ passes = {} /\ underway = {} /\ unheard = {} /\ faults = 0
  BY DEF IdentityInit
<1>2. PICK present \in SUBSET Names, uidOf \in [Names -> Uids] :
        /\ passwd = [n \in Names |-> IF n \in present THEN [uid |-> uidOf[n], owner |-> <<n, 0>>] ELSE NoOne]
        /\ present # {}
        /\ store = [ids |-> [n \in Names |-> NoOne],
                    policy |-> [accounts |-> present, enabled |-> TRUE],
                    backfilled |-> FALSE]
  BY DEF IdentityInit
<1>3. passwd \in [Names -> Holders \cup {NoOne}]
  <2> SUFFICES ASSUME NEW n \in Names
               PROVE  (IF n \in present THEN [uid |-> uidOf[n], owner |-> <<n, 0>>] ELSE NoOne)
                        \in Holders \cup {NoOne}
    BY <1>2
  <2>1. [uid |-> uidOf[n], owner |-> <<n, 0>>] \in Holders
    BY DEF Holders
  <2> QED
    BY <2>1
<1>4. store \in Stores /\ (\A n \in Names : ~Known(store, n)) /\ PolicyNeverWidens
  BY <1>2 DEF Stores, Known, PolicyNeverWidens
<1>5. IdentityTypeOK
  BY <1>1, <1>3, <1>4 DEF IdentityTypeOK
<1>6. Items = {}
  BY <1>1 DEF Items
<1>7. Clock /\ Flight /\ ItemsKnown /\ PassDated
  BY <1>1, <1>6 DEF Clock, Flight, ItemsKnown, PassDated
<1>8. Dated(store)
  BY <1>4 DEF Dated
<1>9. Boundary
  BY <1>1, <1>6 DEF Boundary, Apart, Foreign
<1> QED
  BY <1>4, <1>5, <1>7, <1>8, <1>9 DEF IdentityInv

LEMMA IdentityInvStep ==
    ASSUME IdentityInv, [IdentityNext]_identityVars
    PROVE  IdentityInv'
<1>1. CASE UNCHANGED identityVars
  <2>1. /\ UNCHANGED <<passwd, snapshots, restores, underway, hooks, spool, up, passes, unheard, store>>
        /\ now' = now /\ faults' = faults
    BY <1>1 DEF identityVars
  <2>2. \A n \in Names : Unhooked(n)' => Unhooked(n)
    BY <2>1 DEF Unhooked
  <2>3. /\ store \in Stores /\ Narrow(store) /\ faults \in Nat /\ up \in BOOLEAN /\ unheard \subseteq Names
        /\ \A n \in Names : Known(store, n) => store.ids[n].since < now'
        /\ \A p \in passes : GoodPass(p, now')
        /\ \A k \in spool : k.event \in {"create", "remove"}
    BY <2>1, PassKept
  <2>4. \A n \in Names : n \notin unheard /\ Unhooked(n)' => Apart(store, spool, n)
    BY <2>2 DEF IdentityInv, Boundary
  <2> QED
    BY <2>1, <2>3, <2>4, StoreStep
<1>2. CASE IdentityNext
  <2>1. CASE \E n \in Names, u \in Uids : Create(n, u) \/ CreateQuietly(n, u)
    BY <2>1, CreateStep
  <2>2. CASE \E n \in Names : Terminate(n) \/ Backup(n) \/ AskRestore(n)
    BY <2>2, TerminateStep, WorkStep
  <2>3. CASE \E n, m \in Names : Rename(n, m)
    BY <2>3, RenameStep
  <2>4. CASE \E h \in hooks : ServeCreate(h) \/ ServeUnanswered(h) \/ NotTaken(h) \/ SpoolFails(h)
    BY <2>4, ServeCreateStep, NotTakenStep, SpoolFailsStep
  <2>5. CASE \E refused \in SUBSET spool, stuck \in SUBSET spool :
               \/ \E h \in hooks : ServeHook(h, refused, stuck)
               \/ SchedulePass(refused, stuck)
               \/ \E readable \in BOOLEAN : Start(refused, stuck, readable)
    BY <2>5, ServeHookStep, SchedulePassStep, StartStep
  <2>6. CASE \E p \in passes :
               \/ PassFails(p) \/ PassEnds(p)
               \/ \E n \in p.todo :
                    \/ WriteBack(p, n) \/ NoteAfresh(p, n)
                    \/ \E m \in Names : CarryRename(p, m, n)
    <3>1. PICK p \in passes :
             \/ PassFails(p) \/ PassEnds(p)
             \/ \E n \in p.todo :
                  \/ WriteBack(p, n) \/ NoteAfresh(p, n)
                  \/ \E m \in Names : CarryRename(p, m, n)
      BY <2>6
    <3>2. CASE PassFails(p) \/ PassEnds(p)
      BY <3>2, PassFailsStep, PassEndsStep
    <3>3. CASE \E n \in p.todo : WriteBack(p, n) \/ NoteAfresh(p, n)
      BY <3>3, WriteBackStep, NoteAfreshStep
    <3>4. CASE \E n \in p.todo, m \in Names : CarryRename(p, m, n)
      BY <3>4, CarryRenameStep
    <3> QED
      BY <3>1, <3>2, <3>3, <3>4
  <2>7. CASE \E b \in underway : Land(b) \/ QueueRestore(b)
    BY <2>7, LandStep, QueueRestoreStep
  <2>8. CASE Stop
    BY <2>8, StopStep
  <2> QED
    BY <1>2, <2>1, <2>2, <2>3, <2>4, <2>5, <2>6, <2>7, <2>8 DEF IdentityNext
<1> QED
  BY <1>1, <1>2

LEMMA IdentityInvHolds == IdentitySpec => []IdentityInv
<1>1. IdentityInv /\ [IdentityNext]_identityVars => IdentityInv'
  BY IdentityInvStep
<1> QED
  BY <1>1, IdentityInitially, PTL DEF IdentitySpec

\* Types.
THEOREM IdentityTypes == IdentitySpec => []IdentityTypeOK
<1>1. IdentityInv => IdentityTypeOK
  BY DEF IdentityInv
<1> QED
  BY <1>1, IdentityInvHolds, PTL

\* What a look at a settled name leaves on record has its boundary after
\* everything that is filed under the name and is not its holder's.
LEMMA SettledIsBounded ==
    ASSUME IdentityInv, NEW n \in Names, Settled(n), NEW x \in Foreign(n)
    PROVE  LET id == noteIdentity(store, n, now).ids[n]
           IN /\ id \in Identities /\ id # NoOne /\ id.recycled
              /\ x.at < id.since /\ x.at \in Nat
<1> DEFINE id == noteIdentity(store, n, now).ids[n]
<1>1. Exists(n) /\ n \notin unheard /\ Unhooked(n) /\ \A h \in spool : h.name # n
  BY DEF Settled, HookOn, Unhooked
<1>2. /\ IdentityTypeOK /\ store \in Stores /\ now \in Nat /\ Known(store, n)
      /\ x.at \in Nat /\ x.at < now
  BY DEF IdentityInv, IdentityTypeOK, ItemsKnown, Foreign, Clock, Items
<1>3. Bounded(store, n)
  BY <1>1 DEF IdentityInv, Boundary, Apart, Fixes
<1>4. /\ id \in Identities
      /\ id = IF store.ids[n].retired \/ store.ids[n].uid # passwd[n].uid
              THEN Identity(passwd[n].uid, now, TRUE) ELSE store.ids[n]
  BY <1>1, <1>2, NotedIs
<1> HIDE DEF id
<1>5. CASE store.ids[n].retired \/ store.ids[n].uid # passwd[n].uid
  <2>1. passwd[n].uid \in Uids
    BY <1>1, <1>2 DEF IdentityTypeOK, Exists, Holders
  <2>2. /\ Identity(passwd[n].uid, now, TRUE).recycled
        /\ Identity(passwd[n].uid, now, TRUE).since = now
    BY <1>2, <2>1, IdentityIs
  <2> QED
    BY <1>2, <1>4, <1>5, <2>2, IdentityAssumption DEF id
<1>6. CASE ~(store.ids[n].retired \/ store.ids[n].uid # passwd[n].uid)
  <2>1. id = store.ids[n] /\ id.recycled /\ x.at < id.since
    BY <1>3, <1>4, <1>6 DEF Bounded
  <2> QED
    BY <1>2, <1>4, <2>1, IdentityAssumption DEF id
<1> QED
  BY <1>5, <1>6

\* Once every event on a name has reached the store in its turn, its holder is
\* shown no backup of anybody who held the name before them: noteIdentity,
\* AccountCreated and AccountRemoved set the boundary UserSnapshots filters by.
THEOREM ShownIsOwn == IdentitySpec => []ShowsOnlyTheirOwn
<1>1. IdentityInv => ShowsOnlyTheirOwn
  <2> SUFFICES ASSUME IdentityInv, NEW n \in Names, Settled(n), NEW s \in Shown(n), s.owner # Holder(n)
               PROVE  FALSE
    BY DEF ShowsOnlyTheirOwn
  <2> DEFINE noted == noteIdentity(store, n, now)
  <2>1. s \in snapshots /\ s.name = n /\ s.at >= visibleSince(noted, n)
    BY DEF Shown, UserSnapshots
  <2>2. s \in Foreign(n)
    BY <2>1 DEF Foreign, Items
  <2>3. /\ noted.ids[n] \in Identities /\ noted.ids[n] # NoOne /\ noted.ids[n].recycled
        /\ s.at < noted.ids[n].since /\ s.at \in Nat
    BY <2>2, SettledIsBounded
  <2> HIDE DEF noted
  <2>4. visibleSince(noted, n) = noted.ids[n].since
    BY <2>3 DEF visibleSince, Known
  <2>5. noted.ids[n].since \in Nat
    BY <2>3 DEF Identities
  <2> QED
    BY <2>1, <2>3, <2>4, <2>5
<1> QED
  BY <1>1, IdentityInvHolds, PTL

\* ... and no restore somebody else asked for under the name is theirs to run
\* or to collect: QueueRestore stamps it with a boundary before theirs.
THEOREM RestoreIsOwn == IdentitySpec => []RestoreIsTheirOwn
<1>1. IdentityInv => RestoreIsTheirOwn
  <2> SUFFICES ASSUME IdentityInv, NEW r \in restores, Settled(r.name),
                      BelongsToCurrentHolder(noteIdentity(store, r.name, now), r),
                      r.owner # Holder(r.name)
               PROVE  FALSE
    BY DEF RestoreIsTheirOwn
  <2> DEFINE n == r.name
             noted == noteIdentity(store, n, now)
  <2>1. n \in Names /\ r.since \in Nat /\ r.at \in Nat /\ r.since <= r.at
    BY DEF IdentityInv, IdentityTypeOK, Clock
  <2>2. r \in Foreign(n)
    BY DEF Foreign, Items
  <2>3. /\ noted.ids[n] \in Identities /\ noted.ids[n] # NoOne /\ noted.ids[n].recycled
        /\ r.at < noted.ids[n].since
    BY <2>1, <2>2, SettledIsBounded
  <2> HIDE DEF noted
  <2>4. noted.ids[n].since \in Nat
    BY <2>3 DEF Identities
  <2>5. IF r.since = 0 THEN r.at > noted.ids[n].since ELSE r.since >= noted.ids[n].since
    BY <2>3 DEF BelongsToCurrentHolder, Known, noted
  <2> QED
    BY <2>1, <2>3, <2>4, <2>5
<1> QED
  BY <1>1, IdentityInvHolds, PTL

\* A named policy is never left on with an empty list, which would mean every
\* account: AccountRemoved switches off what it empties, and
\* renamePolicyAccount puts the new name in the old one's place.
THEOREM PolicyStaysNarrow == IdentitySpec => []PolicyNeverWidens
<1>1. IdentityInv => PolicyNeverWidens
  BY DEF IdentityInv
<1> QED
  BY <1>1, IdentityInvHolds, PTL

-----------------------------------------------------------------------------
\* A service that fails nothing hides from nobody what they were shown.

\* Their own: the snapshots the present holder of a name has under it
Own(n) == {s \in snapshots : s.name = n /\ s.owner = Holder(n)}

\* The event is the beginning of the present holder's time under the name
Begins(k) == \A s \in Own(k.name) : k.event = "create" /\ s.at >= k.at

\* A customer was made in the past
OwnersDated ==
  /\ \A n \in Names : Exists(n) => Holder(n)[2] < now
  /\ \A s \in snapshots : s.owner[2] < now
  /\ \A b \in underway : b.owner[2] < now

\* Passes and work are the running service's
Working == passes # {} \/ underway # {} => up

\* While nothing has failed: events wait in the spool only when the service is
\* down, and one that waits on a name in use is its holder's own create, or
\* one from before they had anything there
Quiet ==
  faults = 0 =>
    /\ up => spool = {}
    /\ \A h \in hooks : h.event = "create" => Begins(h)
    /\ \A k \in spool :
         /\ Exists(k.name) /\ k.name \notin unheard
         /\ \A h \in hooks : h.event = "modify" => h.name # k.name
         => Begins(k)

QuietInv == IdentityInv /\ OwnersDated /\ Working /\ Quiet

\* Steps that start no hook, file nothing and change no account.
LEMMA QuietStoreStep ==
    ASSUME QuietInv, UNCHANGED <<passwd, snapshots>>, hooks' \subseteq hooks, now' = now \/ now' = now + 1,
           underway' \subseteq underway \cup {[kind |-> k, name |-> n, at |-> now, owner |-> Holder(n)] :
                                              k \in {"backup", "restore"}, n \in Accounts},
           faults' = 0 =>
             /\ faults = 0 /\ unheard \subseteq unheard'
             /\ \A h \in hooks \ hooks' : h.event = "modify" => spool' = {} \/ h.name \in unheard'
             /\ \/ spool' = {}
                \/ /\ up' => up
                   /\ \A k \in spool' \ spool : ~up /\ k \in hooks /\ k.event \in {"create", "remove"}
    PROVE  (OwnersDated /\ Quiet)'
<1>1. now \in Nat /\ Flight /\ snapshots \subseteq [name : Names, at : Nat, owner : Names \X Nat]
      /\ passwd \in [Names -> Holders \cup {NoOne}]
  BY DEF QuietInv, IdentityInv, IdentityTypeOK
<1>2. \A n : (Exists(n)' <=> Exists(n)) /\ Own(n)' = Own(n) /\ Holder(n)' = Holder(n)
  BY DEF Exists, Own, Holder
<1>3. OwnersDated'
  <2>1. ASSUME NEW n \in Names, Exists(n) PROVE Holder(n)[2] < now'
    <3>1. Holder(n)[2] \in Nat /\ Holder(n)[2] < now
      BY <1>1, <2>1 DEF QuietInv, OwnersDated, Holder, Exists, Holders
    <3> QED
      BY <1>1, <3>1
  <2>2. ASSUME NEW s \in snapshots PROVE s.owner[2] < now'
    <3>1. s.owner[2] \in Nat /\ s.owner[2] < now
      BY <1>1, <2>2 DEF QuietInv, OwnersDated
    <3> QED
      BY <1>1, <3>1
  <2>3. ASSUME NEW b \in underway' PROVE b.owner[2] < now'
    <3>1. CASE b \in underway
      <4>1. b.owner[2] \in Nat /\ b.owner[2] < now
        BY <3>1 DEF QuietInv, OwnersDated, IdentityInv, IdentityTypeOK
      <4> QED
        BY <1>1, <4>1
    <3>2. CASE \E n \in Accounts : b.owner = Holder(n)
      BY <2>1, <3>2 DEF Accounts
    <3> QED
      BY <2>3, <3>1, <3>2
  <2> QED
    BY <1>2, <2>1, <2>2, <2>3 DEF OwnersDated
<1>4. \A k : Begins(k)' <=> Begins(k)
  BY <1>2 DEF Begins
<1>5. Quiet'
  <2> SUFFICES ASSUME faults' = 0
               PROVE  /\ up' => spool' = {}
                      /\ \A h \in hooks' : h.event = "create" => Begins(h)
                      /\ \A k \in spool' :
                           /\ Exists(k.name) /\ k.name \notin unheard'
                           /\ \A h \in hooks' : h.event = "modify" => h.name # k.name
                           => Begins(k)
    BY <1>2, <1>4 DEF Quiet
  <2>1. /\ up => spool = {}
        /\ \A h \in hooks : h.event = "create" => Begins(h)
        /\ \A k \in spool :
             /\ Exists(k.name) /\ k.name \notin unheard
             /\ \A h \in hooks : h.event = "modify" => h.name # k.name
             => Begins(k)
    BY DEF QuietInv, Quiet
  <2>2. CASE spool' = {}
    BY <2>1, <2>2
  <2>3. CASE /\ spool' # {} /\ (up' => up)
             /\ \A k \in spool' \ spool : ~up /\ k \in hooks /\ k.event \in {"create", "remove"}
    <3>1. up' => spool' = {}
      BY <2>1, <2>3
    <3>2. ASSUME NEW k \in spool', Exists(k.name), k.name \notin unheard',
                 \A h \in hooks' : h.event = "modify" => h.name # k.name
          PROVE  Begins(k)
      <4>1. CASE k \in spool
        <5>1. \A h \in hooks : h.event = "modify" => h.name # k.name
          BY <2>3, <3>2
        <5> QED
          BY <2>1, <3>2, <4>1, <5>1
      <4>2. CASE k \notin spool
        BY <1>1, <2>1, <2>3, <3>2, <4>2 DEF Flight
      <4> QED
        BY <4>1, <4>2
    <3> QED
      BY <2>1, <3>1, <3>2
  <2> QED
    BY <2>2, <2>3
<1> QED
  BY <1>3, <1>5

\* Steps that change the accounts of some names and start a hook on them.
LEMMA QuietAccountStep ==
    ASSUME QuietInv, now' = now + 1, UNCHANGED <<snapshots, underway, spool, up, unheard>>, faults' = 0 => faults = 0,
           NEW changed \in SUBSET Names, \A n \in Names \ changed : passwd'[n] = passwd[n],
           \A h \in hooks : {h.name, h.old} \cap changed = {},
           NEW h, hooks' = hooks \cup {h} \/ faults' # 0,
           h.event = "create" => h.name \in changed /\ Exists(h.name)',
           \A n \in changed : Exists(n)' =>
             /\ Holder(n)'[2] < now' /\ Holder(n)' \in Names \X Nat
             /\ Holder(n)'[2] = now \/ (h.event = "modify" /\ h.name = n)
    PROVE  (OwnersDated /\ Quiet)'
<1>1. now \in Nat /\ snapshots \subseteq [name : Names, at : Nat, owner : Names \X Nat]
      /\ passwd \in [Names -> Holders \cup {NoOne}] /\ \A g \in hooks \cup spool : g.name \in Names
  BY DEF QuietInv, IdentityInv, IdentityTypeOK, Events
<1>2. \A n \in Names \ changed : (Exists(n)' <=> Exists(n)) /\ Own(n)' = Own(n) /\ Holder(n)' = Holder(n)
  BY DEF Exists, Own, Holder
<1>3. \A s \in snapshots : s.owner[2] \in Nat /\ s.owner[2] < now
  BY <1>1 DEF QuietInv, OwnersDated
<1>4. OwnersDated'
  <2>1. ASSUME NEW n \in Names, Exists(n)' PROVE Holder(n)'[2] < now'
    <3>1. CASE n \in changed
      BY <2>1, <3>1
    <3>2. CASE n \notin changed
      <4>1. Holder(n)' = Holder(n) /\ Exists(n)
        BY <1>2, <2>1, <3>2
      <4>2. Holder(n)[2] \in Nat /\ Holder(n)[2] < now
        BY <1>1, <4>1 DEF QuietInv, OwnersDated, Holder, Exists, Holders
      <4> QED
        BY <1>1, <4>1, <4>2
    <3> QED
      BY <3>1, <3>2
  <2>2. \A s \in snapshots' : s.owner[2] < now'
    BY <1>1, <1>3
  <2>3. \A b \in underway' : b.owner[2] < now'
    <3> SUFFICES ASSUME NEW b \in underway PROVE b.owner[2] < now'
      OBVIOUS
    <3>1. b.owner[2] \in Nat /\ b.owner[2] < now
      BY DEF QuietInv, OwnersDated, IdentityInv, IdentityTypeOK
    <3> QED
      BY <1>1, <3>1
  <2> QED
    BY <2>1, <2>2, <2>3 DEF OwnersDated
<1>5. ASSUME NEW n \in changed, Exists(n)', ~(h.event = "modify" /\ h.name = n) PROVE Own(n)' = {}
  <2>1. Holder(n)'[2] = now
    BY <1>5
  <2>2. \A s \in snapshots : s.owner # Holder(n)'
    BY <1>1, <1>3, <2>1
  <2> QED
    BY <2>2 DEF Own
<1>6. Quiet'
  <2> SUFFICES ASSUME faults' = 0
               PROVE  /\ up => spool = {}
                      /\ \A g \in hooks' : g.event = "create" => Begins(g)'
                      /\ \A k \in spool :
                           /\ Exists(k.name)' /\ k.name \notin unheard
                           /\ \A g \in hooks' : g.event = "modify" => g.name # k.name
                           => Begins(k)'
    BY DEF Quiet
  <2>1. /\ up => spool = {}
        /\ \A g \in hooks : g.event = "create" => Begins(g)
        /\ \A k \in spool :
             /\ Exists(k.name) /\ k.name \notin unheard
             /\ \A g \in hooks : g.event = "modify" => g.name # k.name
             => Begins(k)
    BY DEF QuietInv, Quiet
  <2>2. hooks' = hooks \cup {h}
    OBVIOUS
  <2>3. \A k \in hooks \cup spool : k.name \notin changed => (Begins(k)' <=> Begins(k))
    BY <1>1, <1>2 DEF Begins
  <2>4. ASSUME NEW g \in hooks', g.event = "create" PROVE Begins(g)'
    <3>1. CASE g \in hooks
      BY <2>1, <2>3, <2>4, <3>1
    <3>2. CASE g = h
      <4>1. h.name \in changed /\ Exists(h.name)'
        BY <2>4, <3>2
      <4>2. Own(h.name)' = {}
        BY <1>5, <2>4, <3>2, <4>1
      <4> QED
        BY <3>2, <4>2 DEF Begins
    <3> QED
      BY <2>2, <3>1, <3>2
  <2>5. ASSUME NEW k \in spool, Exists(k.name)', k.name \notin unheard,
               \A g \in hooks' : g.event = "modify" => g.name # k.name
        PROVE  Begins(k)'
    <3>1. CASE k.name \in changed
      <4>1. Own(k.name)' = {}
        BY <1>5, <2>2, <2>5, <3>1
      <4> QED
        BY <4>1 DEF Begins
    <3>2. CASE k.name \notin changed
      <4>1. Exists(k.name) /\ \A g \in hooks : g.event = "modify" => g.name # k.name
        BY <1>1, <1>2, <2>2, <2>5, <3>2
      <4> QED
        BY <2>1, <2>3, <2>5, <3>2, <4>1
    <3> QED
      BY <3>1, <3>2
  <2> QED
    BY <2>1, <2>4, <2>5
<1> QED
  BY <1>4, <1>6

LEMMA CreateQuiet ==
    ASSUME QuietInv, NEW n \in Names, NEW u \in Uids, Create(n, u) \/ CreateQuietly(n, u)
    PROVE  (OwnersDated /\ Quiet)'
<1> DEFINE id == [uid |-> u, owner |-> <<n, now>>]
           changed == {n}
<1>1. /\ ~Exists(n) /\ ~HookOn(n) /\ now' = now + 1 /\ passwd' = [passwd EXCEPT ![n] = id]
      /\ UNCHANGED <<snapshots, underway, spool, up, unheard>>
  BY DEF Create, CreateQuietly, Tick
<1>2. now \in Nat /\ passwd \in [Names -> Holders \cup {NoOne}] /\ faults \in Nat
  BY DEF QuietInv, IdentityInv, IdentityTypeOK
<1>3. id # NoOne /\ id.owner = <<n, now>> /\ passwd'[n] = id
  <2>1. id \in Holders
    BY <1>2 DEF Holders
  <2> QED
    BY <1>1, <1>2, <2>1, IdentityAssumption
<1>4. PICK h : h = Hook("create", n, n)
  OBVIOUS
<1>5. (hooks' = hooks \cup {h} \/ faults' # 0) /\ (faults' = 0 => faults = 0)
  BY <1>2, <1>4 DEF Create, CreateQuietly
<1> HIDE DEF id
<1>6. /\ Exists(n)' /\ Holder(n)' = <<n, now>> /\ <<n, now>> \in Names \X Nat
      /\ <<n, now>>[2] = now /\ now < now + 1
  BY <1>2, <1>3 DEF Exists, Holder
<1>7. \A m \in Names \ changed : passwd'[m] = passwd[m]
  BY <1>1, <1>2
<1>8. \A g \in hooks : {g.name, g.old} \cap changed = {}
  BY <1>1 DEF HookOn
<1>9. changed \in SUBSET Names /\ (h.event = "create" => h.name \in changed /\ Exists(h.name)')
  <2>1. h.name = n
    BY <1>4 DEF Hook
  <2> QED
    BY <1>6, <2>1
<1>10. \A m \in changed : Exists(m)' =>
         /\ Holder(m)'[2] < now' /\ Holder(m)' \in Names \X Nat
         /\ Holder(m)'[2] = now \/ (h.event = "modify" /\ h.name = m)
  BY <1>1, <1>6
<1> HIDE DEF changed
<1> QED
  BY <1>1, <1>5, <1>7, <1>8, <1>9, <1>10, QuietAccountStep

LEMMA TerminateQuiet ==
    ASSUME QuietInv, NEW n \in Names, Terminate(n)
    PROVE  (OwnersDated /\ Quiet)'
<1> DEFINE h == Hook("remove", n, n)
           changed == {n}
<1>1. /\ ~HookOn(n) /\ now' = now + 1 /\ passwd' = [passwd EXCEPT ![n] = NoOne]
      /\ UNCHANGED <<snapshots, underway, spool, up, unheard>>
      /\ hooks' = hooks \cup {h} /\ faults' = faults
  BY DEF Terminate, Tick
<1>2. passwd \in [Names -> Holders \cup {NoOne}]
  BY DEF QuietInv, IdentityInv, IdentityTypeOK
<1>3. h.event # "create"
  BY DEF Hook
<1> HIDE DEF h
<1>4. ~Exists(n)'
  BY <1>1, <1>2 DEF Exists
<1>5. \A m \in Names \ changed : passwd'[m] = passwd[m]
  BY <1>1, <1>2
<1>6. \A g \in hooks : {g.name, g.old} \cap changed = {}
  BY <1>1 DEF HookOn
<1>7. changed \in SUBSET Names /\ \A m \in changed : ~Exists(m)'
  BY <1>4
<1> HIDE DEF changed
<1> QED
  BY <1>1, <1>3, <1>5, <1>6, <1>7, QuietAccountStep

LEMMA RenameQuiet ==
    ASSUME QuietInv, NEW n \in Names, NEW m \in Names, Rename(n, m)
    PROVE  (OwnersDated /\ Quiet)'
<1> DEFINE h == Hook("modify", m, n)
           changed == {n, m}
<1>1. /\ Exists(n) /\ ~Exists(m) /\ ~HookOn(n) /\ ~HookOn(m) /\ now' = now + 1
      /\ passwd' = [passwd EXCEPT ![n] = NoOne, ![m] = passwd[n]]
      /\ UNCHANGED <<snapshots, underway, spool, up, unheard>>
      /\ hooks' = hooks \cup {h} /\ faults' = faults
  BY DEF Rename, Tick
<1>2. now \in Nat /\ passwd \in [Names -> Holders \cup {NoOne}]
  BY DEF QuietInv, IdentityInv, IdentityTypeOK
<1>3. h.event = "modify" /\ h.name = m
  BY DEF Hook
<1> HIDE DEF h
<1>4. n # m /\ ~Exists(n)' /\ Holder(m)' = Holder(n)
  BY <1>1, <1>2 DEF Exists, Holder
<1>5. Holder(n) \in Names \X Nat /\ Holder(n)[2] < now
  BY <1>1, <1>2 DEF QuietInv, OwnersDated, Holder, Exists, Holders
<1>6. Holder(m)'[2] < now'
  BY <1>1, <1>2, <1>4, <1>5
<1>7. \A k \in Names \ changed : passwd'[k] = passwd[k]
  BY <1>1, <1>2
<1>8. \A g \in hooks : {g.name, g.old} \cap changed = {}
  BY <1>1 DEF HookOn
<1>9. /\ changed \in SUBSET Names /\ h.event # "create"
      /\ \A k \in changed : Exists(k)' =>
           /\ Holder(k)'[2] < now' /\ Holder(k)' \in Names \X Nat
           /\ Holder(k)'[2] = now \/ (h.event = "modify" /\ h.name = k)
  BY <1>3, <1>4, <1>5, <1>6
<1> HIDE DEF changed
<1> QED
  BY <1>1, <1>7, <1>8, <1>9, QuietAccountStep

LEMMA LandQuiet ==
    ASSUME QuietInv, NEW b \in underway, Land(b)
    PROVE  (OwnersDated /\ Quiet)'
<1>1. PICK owner \in {b.owner} \cup {passwd[n].owner : n \in {b.name} \cap Accounts} :
        /\ snapshots' = snapshots \cup {[name |-> b.name, at |-> now, owner |-> owner]}
        /\ unheard' = unheard \cup (IF owner = b.owner THEN ChangedHands(b) ELSE {})
  BY DEF Land
<1> DEFINE x == [name |-> b.name, at |-> now, owner |-> owner]
<1>2. /\ now' = now + 1 /\ snapshots' = snapshots \cup {x} /\ unheard \subseteq unheard'
      /\ underway' \subseteq underway /\ UNCHANGED <<passwd, hooks, spool, up, faults>>
  BY <1>1 DEF Land, Tick
<1>3. /\ now \in Nat /\ passwd \in [Names -> Holders \cup {NoOne}]
      /\ \A h \in hooks : h.at \in Nat /\ h.at < now
      /\ snapshots \subseteq [name : Names, at : Nat, owner : Names \X Nat]
      /\ b.name \in Names /\ b.owner \in Names \X Nat /\ b.owner[2] < now
  BY DEF QuietInv, IdentityInv, IdentityTypeOK, Clock, Events, OwnersDated
<1>4. x.name = b.name /\ x.at = now /\ x.owner = owner
  OBVIOUS
<1> HIDE DEF x
<1>5. \A m : (Exists(m)' <=> Exists(m)) /\ Holder(m)' = Holder(m)
  BY <1>2 DEF Exists, Holder
<1>6. \A m \in Names : Exists(m) => Holder(m)[2] \in Nat /\ Holder(m)[2] < now /\ Holder(m)[2] < now'
  <2> SUFFICES ASSUME NEW m \in Names, Exists(m)
               PROVE  Holder(m)[2] \in Nat /\ Holder(m)[2] < now /\ Holder(m)[2] < now'
    OBVIOUS
  <2>1. Holder(m)[2] \in Nat /\ Holder(m)[2] < now
    BY <1>3 DEF QuietInv, OwnersDated, Holder, Exists, Holders
  <2> QED
    BY <1>2, <1>3, <2>1
<1>7. \A s \in snapshots : s.owner[2] < now'
  <2> SUFFICES ASSUME NEW s \in snapshots PROVE s.owner[2] < now'
    OBVIOUS
  <2>1. s.owner[2] \in Nat /\ s.owner[2] < now
    BY <1>3 DEF QuietInv, OwnersDated
  <2> QED
    BY <1>2, <1>3, <2>1
<1>8. \A w \in underway' : w.owner[2] < now'
  <2> SUFFICES ASSUME NEW w \in underway PROVE w.owner[2] < now'
    BY <1>2
  <2>1. w.owner[2] \in Nat /\ w.owner[2] < now
    BY DEF QuietInv, OwnersDated, IdentityInv, IdentityTypeOK
  <2> QED
    BY <1>2, <1>3, <2>1
<1>9. x.owner[2] < now'
  <2>1. CASE owner = b.owner
    <3>1. b.owner[2] \in Nat /\ b.owner[2] < now
      BY <1>3
    <3> QED
      BY <1>2, <1>3, <1>4, <2>1, <3>1
  <2>2. CASE owner # b.owner
    <3>1. Exists(b.name) /\ owner = Holder(b.name)
      BY <2>2 DEF Accounts, Holder
    <3> QED
      BY <1>3, <1>4, <1>6, <3>1
  <2> QED
    BY <2>1, <2>2
<1>10. OwnersDated'
  <2>1. \A m \in Names : Exists(m)' => Holder(m)'[2] < now'
    BY <1>5, <1>6
  <2>2. \A s \in snapshots' : s.owner[2] < now'
    BY <1>2, <1>7, <1>9
  <2> QED
    BY <1>8, <2>1, <2>2 DEF OwnersDated
<1>11. ASSUME NEW h \in hooks, h.event = "create", Begins(h) PROVE Begins(h)'
  <2>1. \A s \in Own(h.name)' : s \in Own(h.name) \/ s = x
    BY <1>2, <1>5 DEF Own
  <2>2. x.at >= h.at
    BY <1>3, <1>4
  <2> QED
    BY <1>11, <2>1, <2>2 DEF Begins
<1>12. up
  BY DEF QuietInv, Working
<1>13. Quiet'
  BY <1>2, <1>11, <1>12 DEF QuietInv, Quiet
<1> QED
  BY <1>10, <1>13

LEMMA WorkingStep ==
    ASSUME QuietInv, [IdentityNext]_identityVars
    PROVE  Working'
<1>1. CASE Stop
  BY <1>1 DEF Stop, Working
<1>2. CASE \E n \in Names : Backup(n) \/ AskRestore(n)
  BY <1>2 DEF Backup, AskRestore, BeginWork, Working
<1>3. CASE \E refused \in SUBSET spool, stuck \in SUBSET spool :
             \/ \E h \in hooks : ServeHook(h, refused, stuck)
             \/ SchedulePass(refused, stuck)
             \/ \E readable \in BOOLEAN : Start(refused, stuck, readable)
  BY <1>3 DEF ServeHook, SchedulePass, Start, Working
<1>4. CASE \E p \in passes :
             \/ PassFails(p) \/ PassEnds(p)
             \/ \E n \in p.todo :
                  \/ WriteBack(p, n) \/ NoteAfresh(p, n)
                  \/ \E m \in Names : CarryRename(p, m, n)
  <2>1. up /\ up' = up
    BY <1>4 DEF QuietInv, Working, PassFails, PassEnds, WriteBack, NoteAfresh, CarryRename
  <2> QED
    BY <2>1 DEF Working
<1>5. CASE \E b \in underway : Land(b) \/ QueueRestore(b)
  <2>1. up /\ up' = up
    BY <1>5 DEF QuietInv, Working, Land, QueueRestore
  <2> QED
    BY <2>1 DEF Working
<1>6. CASE \/ UNCHANGED identityVars
           \/ \E n \in Names, u \in Uids : Create(n, u) \/ CreateQuietly(n, u)
           \/ \E n \in Names : Terminate(n)
           \/ \E n, m \in Names : Rename(n, m)
           \/ \E h \in hooks : ServeCreate(h) \/ ServeUnanswered(h) \/ NotTaken(h) \/ SpoolFails(h)
  <2>1. UNCHANGED <<up, passes, underway>>
    BY <1>6 DEF identityVars, Create, CreateQuietly, Terminate, Rename, ServeCreate,
                ServeUnanswered, NotTaken, SpoolFails
  <2> QED
    BY <2>1 DEF QuietInv, Working
<1> QED
  BY <1>1, <1>2, <1>3, <1>4, <1>5, <1>6 DEF IdentityNext

\* Work that is begun, and requests that are stamped.
LEMMA WorkQuiet ==
    ASSUME QuietInv, \/ \E n \in Names : Backup(n) \/ AskRestore(n)
                     \/ \E b \in underway : QueueRestore(b)
    PROVE  (OwnersDated /\ Quiet)'
<1>1. /\ UNCHANGED <<passwd, snapshots, hooks, spool, up, faults>> /\ now' = now + 1
      /\ unheard \subseteq unheard'
  BY DEF Backup, AskRestore, BeginWork, QueueRestore, Tick
<1>2. underway' \subseteq underway \cup {[kind |-> k, name |-> n, at |-> now, owner |-> Holder(n)] :
                                       k \in {"backup", "restore"}, n \in Accounts}
  <2>1. CASE \E n \in Names : Backup(n) \/ AskRestore(n)
    <3>1. PICK n \in Names, kind \in {"backup", "restore"} : BeginWork(kind, n)
      BY <2>1 DEF Backup, AskRestore
    <3> QED
      BY <3>1 DEF BeginWork, Accounts, Holder
  <2>2. CASE \E b \in underway : QueueRestore(b)
    BY <2>2 DEF QueueRestore
  <2> QED
    BY <2>1, <2>2
<1> QED
  BY <1>1, <1>2, QuietStoreStep

\* The hooks, the passes and the service.
LEMMA ServiceQuiet ==
    ASSUME QuietInv,
           \/ \E h \in hooks : ServeCreate(h) \/ ServeUnanswered(h) \/ NotTaken(h) \/ SpoolFails(h)
           \/ \E refused \in SUBSET spool, stuck \in SUBSET spool :
                \/ \E h \in hooks : ServeHook(h, refused, stuck)
                \/ SchedulePass(refused, stuck)
                \/ \E readable \in BOOLEAN : Start(refused, stuck, readable)
           \/ \E p \in passes :
                \/ PassFails(p) \/ PassEnds(p)
                \/ \E n \in p.todo :
                     \/ WriteBack(p, n) \/ NoteAfresh(p, n)
                     \/ \E m \in Names : CarryRename(p, m, n)
           \/ Stop \/ UNCHANGED identityVars
    PROVE  (OwnersDated /\ Quiet)'
<1>i. faults \in Nat /\ up \in BOOLEAN
  BY DEF QuietInv, IdentityInv, IdentityTypeOK
<1> DEFINE Outcome ==
      faults' = 0 =>
        /\ faults = 0 /\ unheard \subseteq unheard'
        /\ \A h \in hooks \ hooks' : h.event = "modify" => spool' = {} \/ h.name \in unheard'
        /\ \/ spool' = {}
           \/ /\ up' => up
              /\ \A k \in spool' \ spool : ~up /\ k \in hooks /\ k.event \in {"create", "remove"}
<1> DEFINE Shape ==
      /\ UNCHANGED <<passwd, snapshots>> /\ hooks' \subseteq hooks /\ (now' = now \/ now' = now + 1)
      /\ underway' \subseteq underway
<1> SUFFICES Shape /\ Outcome
  BY QuietStoreStep
<1>q. faults = 0 /\ up => spool = {}
  BY DEF QuietInv, Quiet
<1>1. CASE \E h \in hooks : ServeCreate(h) \/ ServeUnanswered(h) \/ NotTaken(h) \/ SpoolFails(h)
  <2>1. Shape
    BY <1>1 DEF ServeCreate, ServeUnanswered, NotTaken, SpoolFails, Refuses, Tick
  <2>2. Outcome
    <3>1. CASE \E h \in hooks : ServeCreate(h)
      BY <3>1 DEF ServeCreate
    <3>2. CASE \E h \in hooks : ServeUnanswered(h) \/ SpoolFails(h)
      BY <1>i, <3>2 DEF ServeUnanswered, SpoolFails
    <3>3. CASE \E h \in hooks : NotTaken(h)
      <4>1. PICK h \in hooks : NotTaken(h)
        BY <3>3
      <4>2. CASE up
        BY <1>i, <4>1, <4>2 DEF NotTaken
      <4>3. CASE ~up
        BY <4>1, <4>3 DEF NotTaken, Refuses, Spooled
      <4> QED
        BY <4>2, <4>3
    <3> QED
      BY <1>1, <3>1, <3>2, <3>3
  <2> QED
    BY <2>1, <2>2
<1>2. CASE \E refused \in SUBSET spool, stuck \in SUBSET spool :
             \/ \E h \in hooks : ServeHook(h, refused, stuck)
             \/ SchedulePass(refused, stuck)
             \/ \E readable \in BOOLEAN : Start(refused, stuck, readable)
  <2> SUFFICES ASSUME NEW refused \in SUBSET spool, NEW stuck \in SUBSET spool,
                      \/ \E h \in hooks : ServeHook(h, refused, stuck)
                      \/ SchedulePass(refused, stuck)
                      \/ \E readable \in BOOLEAN : Start(refused, stuck, readable)
               PROVE  Shape /\ Outcome
    BY <1>2
  <2>1. Shape
    BY DEF ServeHook, SchedulePass, Start, Tick
  <2>2. /\ hooks' = hooks /\ unheard \subseteq unheard' /\ spool' = refused \cup stuck
        /\ \/ faults' = faults /\ refused \cup stuck = {}
           \/ faults' = faults + 1
    BY <1>i DEF ServeHook, SchedulePass, Start, BeginPass, Replays
  <2> QED
    BY <1>i, <2>1, <2>2
<1>3. CASE \E p \in passes :
             \/ PassFails(p) \/ PassEnds(p)
             \/ \E n \in p.todo :
                  \/ WriteBack(p, n) \/ NoteAfresh(p, n)
                  \/ \E m \in Names : CarryRename(p, m, n)
  <2>1. PICK p \in passes :
             \/ PassFails(p) \/ PassEnds(p)
             \/ \E n \in p.todo :
                  \/ WriteBack(p, n) \/ NoteAfresh(p, n)
                  \/ \E m \in Names : CarryRename(p, m, n)
    BY <1>3
  <2>2. Shape
    BY <2>1 DEF PassFails, PassEnds, WriteBack, NoteAfresh, CarryRename, Refuses, Tick
  <2>3. up
    BY DEF QuietInv, Working
  <2>4. CASE PassFails(p)
    <3>1. p.by \in hooks => faults' = faults + 1
      BY <2>4 DEF PassFails
    <3>2. p.by \notin hooks =>
            hooks' = hooks /\ spool' = spool /\ unheard' = unheard /\ (faults' = faults \/ faults' = faults + 1)
      BY <1>i, <2>4 DEF PassFails, Refuses
    <3>3. up' = up
      BY <2>4 DEF PassFails
    <3> QED
      BY <2>2, <1>i, <3>1, <3>2, <3>3
  <2>5. CASE PassEnds(p)
    <3>1. UNCHANGED <<spool, up, faults>> /\ unheard \subseteq unheard'
      BY <2>5 DEF PassEnds
    <3> QED
      BY <2>2, <1>q, <2>3, <3>1
  <2>6. CASE \E n \in p.todo :
               \/ WriteBack(p, n) \/ NoteAfresh(p, n)
               \/ \E m \in Names : CarryRename(p, m, n)
    <3>1. UNCHANGED <<hooks, spool, up, faults>> /\ unheard \subseteq unheard'
      BY <2>6 DEF WriteBack, NoteAfresh, CarryRename
    <3> QED
      BY <2>2, <3>1
  <2> QED
    BY <2>1, <2>2, <2>4, <2>5, <2>6
<1>4. CASE Stop \/ UNCHANGED identityVars
  BY <1>4 DEF Stop, identityVars
<1> QED
  BY <1>1, <1>2, <1>3, <1>4

LEMMA QuietStep ==
    ASSUME QuietInv, [IdentityNext]_identityVars
    PROVE  QuietInv'
<1>1. IdentityInv'
  BY IdentityInvStep DEF QuietInv
<1>2. (OwnersDated /\ Quiet)'
  BY CreateQuiet, TerminateQuiet, RenameQuiet, WorkQuiet, ServiceQuiet, LandQuiet DEF IdentityNext
<1> QED
  BY <1>1, <1>2, WorkingStep DEF QuietInv

LEMMA QuietInitially == IdentityInit => QuietInv
<1> SUFFICES ASSUME IdentityInit PROVE QuietInv
  OBVIOUS
<1>1. IdentityInv
  BY IdentityInitially
<1>2. now = 1 /\ snapshots = {} /\ hooks = {} /\ spool = {} /\ passes = {} /\ underway = {}
  BY DEF IdentityInit
<1>3. \A n \in Names : Exists(n) => Holder(n)[2] = 0
  BY DEF IdentityInit, Exists, Holder
<1>4. OwnersDated
  BY <1>2, <1>3 DEF OwnersDated
<1>5. Quiet /\ Working
  BY <1>2 DEF Quiet, Working
<1> QED
  BY <1>1, <1>4, <1>5 DEF QuietInv

LEMMA QuietHolds == IdentitySpec => []QuietInv
<1>1. QuietInv /\ [IdentityNext]_identityVars => QuietInv'
  BY QuietStep
<1> QED
  BY <1>1, QuietInitially, PTL DEF IdentitySpec

-----------------------------------------------------------------------------
\* What a customer was shown of their own stays in sight.

\* What the holder of a name is shown of it is what a look leaves in sight
InSight ==
  \A n \in Names, s \in snapshots : Exists(n) /\ s.name = n => (s \in Shown(n) <=> Seen(store, n, s))

LEMMA ShownIsSeen == IdentityInv => InSight
<1> SUFFICES ASSUME IdentityInv, NEW n \in Names, Exists(n), NEW s \in snapshots, s.name = n
             PROVE  s \in Shown(n) <=> Seen(store, n, s)
  BY DEF InSight
<1> DEFINE noted == noteIdentity(store, n, now)
           uid == passwd[n].uid
<1>1. /\ IdentityTypeOK /\ store \in Stores /\ now \in Nat /\ Known(store, n)
      /\ s.at \in Nat /\ s.at < now /\ uid \in Uids /\ store.ids[n] \in Identities
      /\ store.ids[n] # NoOne
  BY DEF IdentityInv, IdentityTypeOK, ItemsKnown, Clock, Items, Known, Stores, Exists, Holders
<1>2. /\ Known(noted, n)
      /\ noted.ids[n] = IF store.ids[n].retired \/ store.ids[n].uid # uid
                        THEN Identity(uid, now, TRUE) ELSE store.ids[n]
  BY <1>1, NotedIs
<1>3. Identity(uid, now, TRUE).recycled /\ Identity(uid, now, TRUE).since = now
  BY <1>1, IdentityIs
<1>4. s \in Shown(n) <=> s.at >= visibleSince(noted, n)
  BY DEF Shown, UserSnapshots
<1> HIDE DEF noted, uid
<1>5. CASE store.ids[n].retired \/ store.ids[n].uid # uid
  <2>1. visibleSince(noted, n) = now
    BY <1>2, <1>3, <1>5 DEF visibleSince
  <2>2. ~Seen(store, n, s)
    BY <1>5 DEF Seen, Agrees, uid
  <2> QED
    BY <1>1, <1>4, <2>1, <2>2
<1>6. CASE ~(store.ids[n].retired \/ store.ids[n].uid # uid)
  <2>1. noted.ids[n] = store.ids[n] /\ Agrees(store.ids, n)
    BY <1>1, <1>2, <1>6 DEF Agrees, uid
  <2>2. CASE store.ids[n].recycled
    <3>1. visibleSince(noted, n) = store.ids[n].since
      BY <1>2, <2>1, <2>2 DEF visibleSince
    <3> QED
      BY <1>4, <2>1, <2>2, <3>1 DEF Seen
  <2>3. CASE ~store.ids[n].recycled
    <3>1. visibleSince(noted, n) = 0
      BY <1>2, <2>1, <2>3 DEF visibleSince
    <3> QED
      BY <1>1, <1>4, <2>1, <2>3, <3>1 DEF Seen
  <2> QED
    BY <2>2, <2>3
<1> QED
  BY <1>5, <1>6

\* What is shown depends on the record of the name alone.
LEMMA SeenSame ==
    ASSUME NEW st, NEW nx, NEW n, NEW s, nx.ids[n] = st.ids[n], Seen(st, n, s)
    PROVE  Seen(nx, n, s)
BY DEF Seen, Agrees

\* A look at any name keeps what its holder is shown of theirs in sight.
LEMMA LookSeen ==
    ASSUME IdentityInv, NEW n \in Names, NEW m \in Names, Exists(m),
           NEW s \in snapshots, Seen(store, n, s)
    PROVE  Seen(noteIdentity(store, m, now), n, s)
<1>1. IdentityTypeOK /\ Clock /\ store \in Stores /\ Dated(store)
  BY DEF IdentityInv, IdentityTypeOK
<1>2. CASE m = n
  BY <1>1, <1>2, NotedKeeps
<1>3. CASE m # n
  <2>1. noteIdentity(store, m, now).ids[n] = store.ids[n]
    BY <1>3, LookIs
  <2> QED
    BY <2>1, SeenSame
<1> QED
  BY <1>2, <1>3

\* Nor does a pass: a record it reads and writes back is as it was, or the
\* name is among the unheard.
LEMMA PassSeen ==
    ASSUME IdentityInv, NEW n \in Names, n \notin unheard', NEW s \in snapshots, Seen(store, n, s),
           NEW p \in passes, NEW k \in p.todo,
           \/ WriteBack(p, k) \/ NoteAfresh(p, k)
           \/ \E m \in Names : CarryRename(p, m, k)
    PROVE  Seen(store', n, s)
<1>1. store \in Stores /\ k \in Names /\ p.known \in [Names -> Identities \cup {NoOne}]
  BY DEF IdentityInv, IdentityTypeOK
<1>2. CASE WriteBack(p, k)
  <2>1. store' = [store EXCEPT !.ids[k] = p.known[k]]
    BY <1>2 DEF WriteBack
  <2>2. k = n => p.known[k] = store.ids[n]
    BY <1>2 DEF WriteBack
  <2>3. store'.ids[n] = store.ids[n]
    BY <1>1, <2>1, <2>2 DEF Stores
  <2> QED
    BY <2>3, SeenSame
<1>3. CASE NoteAfresh(p, k)
  <2>1. Exists(k) /\ store' = noteIdentity(store, k, now)
    BY <1>3 DEF NoteAfresh
  <2> QED
    BY <1>1, <2>1, LookSeen
<1>4. CASE \E m \in Names : CarryRename(p, m, k)
  <2>1. PICK m \in Names : CarryRename(p, m, k)
    BY <1>4
  <2>2. /\ p.known[k] = NoOne /\ store' = renamed(store, p, m, k)
        /\ \A o \in {k, m} : o = n => store.ids[o] = p.known[o] /\ ~(o = m /\ Exists(m))
    BY <2>1 DEF CarryRename, renamedFrom
  <2>3. n # k
    BY <2>2 DEF Seen, Agrees
  <2>4. n # m
    BY <2>2 DEF Seen
  <2>5. store'.ids[n] = store.ids[n]
    BY <1>1, <2>2, <2>3, <2>4 DEF renamed, Stores
  <2> QED
    BY <2>5, SeenSame
<1> QED
  BY <1>2, <1>3, <1>4

\* The steps that change the store, one by one.
LEMMA SeenStays ==
    ASSUME QuietInv, IdentityNext, faults' = 0, NEW n \in Names, Exists(n), passwd'[n] = passwd[n],
           ~HookOn(n), n \notin unheard', NEW s \in Own(n), Seen(store, n, s)
    PROVE  store' = store \/ Seen(store', n, s)
<1>1. /\ IdentityInv /\ IdentityTypeOK /\ Clock /\ store \in Stores /\ Dated(store)
      /\ faults \in Nat /\ now \in Nat /\ s \in snapshots /\ s.name = n
      /\ \A x \in Items : Known(store, x.name)
  BY DEF QuietInv, IdentityInv, IdentityTypeOK, ItemsKnown, Own
<1>h. \A h \in hooks : h.name # n
  BY DEF HookOn
<1>2. CASE \E m \in Names : Backup(m) \/ AskRestore(m)
  <2>1. PICK m \in Names : Exists(m) /\ store' = noteIdentity(store, m, now)
    BY <1>2 DEF Backup, AskRestore, BeginWork
  <2> QED
    BY <1>1, <2>1, LookSeen
<1>3. CASE \E h \in hooks : ServeCreate(h)
  <2>1. PICK h \in hooks : ServeCreate(h)
    BY <1>3
  <2>2. store' = AccountCreated(store, h.name, now) /\ h.name \in Names /\ h.name # n
    BY <1>1, <1>h, <2>1 DEF ServeCreate, IdentityTypeOK, Events
  <2>3. store'.ids[n] = store.ids[n]
    BY <1>1, <2>2, CreatedIs
  <2> QED
    BY <2>3, SeenSame
<1>4. CASE \E refused \in SUBSET spool, stuck \in SUBSET spool :
             (\E h \in hooks : ServeHook(h, refused, stuck)) \/ SchedulePass(refused, stuck)
  <2>1. PICK refused \in SUBSET spool, stuck \in SUBSET spool :
             (\E h \in hooks : ServeHook(h, refused, stuck)) \/ SchedulePass(refused, stuck)
    BY <1>4
  <2>2. up /\ refused = {} /\ faults = 0
    BY <1>1, <2>1 DEF ServeHook, SchedulePass, BeginPass, Replays
  <2>3. spool = {}
    BY <2>2 DEF QuietInv, Quiet
  <2>4. PICK st : /\ store' = ReplayHookSpool(st, {})
                  /\ st = store \/ \E h \in hooks : st = AccountRemoved(store, h.name)
    BY <2>1, <2>2 DEF ServeHook, SchedulePass, BeginPass
  <2>5. st \in Stores /\ Dated(st) /\ (\A x \in Items : Known(st, x.name)) /\ st.ids[n] = store.ids[n]
    <3>1. CASE st = store
      BY <1>1, <3>1
    <3>2. CASE \E h \in hooks : st = AccountRemoved(store, h.name)
      <4>1. PICK h \in hooks : st = AccountRemoved(store, h.name)
        BY <3>2
      <4>2. h.name \in Names /\ h.name # n
        BY <1>1, <1>h DEF IdentityTypeOK, Events
      <4>3. st \in Stores /\ st.ids[n] = store.ids[n]
        BY <1>1, <4>1, <4>2, RemovedIs
      <4>4. \A m \in Names : /\ Known(st, m) <=> Known(store, m)
                             /\ Known(st, m) => st.ids[m].since = store.ids[m].since
        <5> SUFFICES ASSUME NEW m \in Names
                     PROVE  /\ Known(st, m) <=> Known(store, m)
                            /\ Known(st, m) => st.ids[m].since = store.ids[m].since
          OBVIOUS
        <5>1. CASE m = h.name /\ Known(store, m)
          <6>1. st.ids[m] \in Identities /\ st.ids[m].since = store.ids[m].since
            BY <1>1, <4>1, <4>2, <5>1, RemovedIs
          <6> QED
            BY <5>1, <6>1, IdentityAssumption DEF Known
        <5>2. CASE m # h.name \/ ~Known(store, m)
          <6>1. st.ids[m] = store.ids[m]
            BY <1>1, <4>1, <4>2, <5>2, RemovedIs
          <6> QED
            BY <6>1 DEF Known
        <5> QED
          BY <5>1, <5>2
      <4>5. \A x \in Items : x.name \in Names
        BY <1>1 DEF Items, IdentityTypeOK
      <4> QED
        BY <1>1, <4>3, <4>4, <4>5 DEF Dated
    <3> QED
      BY <2>4, <3>1, <3>2
  <2>6. Seen(st, n, s)
    BY <2>5, SeenSame
  <2>7. ReplayedTo(st, store', {}, {})
    BY <1>1, <2>4, <2>5, ReplayKeeps
  <2> QED
    BY <1>1, <2>3, <2>6, <2>7 DEF ReplayedTo
<1>5. CASE \E refused \in SUBSET spool, stuck \in SUBSET spool, readable \in BOOLEAN :
             Start(refused, stuck, readable)
  <2> DEFINE rep == ReplayHookSpool(store, {})
  <2>1. /\ store' = rep \/ store' = BackfillIdentities(rep, now)
        /\ faults = 0 /\ unheard \subseteq unheard'
    <3>1. PICK refused \in SUBSET spool, stuck \in SUBSET spool, readable \in BOOLEAN :
                 Start(refused, stuck, readable)
      BY <1>5
    <3>2. refused = {} /\ faults = 0
      BY <1>1, <3>1 DEF Start
    <3> QED
      BY <3>1, <3>2 DEF Start
  <2>2. ReplayedTo(store, rep, {}, {})
    BY <1>1, ReplayKeeps
  <2> HIDE DEF rep
  <2>3. \A k \in spool : k.name = n => k.event = "create" /\ s.at >= k.at
    <3>1. ASSUME NEW k \in spool, k.name = n PROVE Begins(k)
      BY <1>h, <2>1, <3>1 DEF QuietInv, Quiet
    <3> QED
      BY <3>1 DEF Begins
  <2>4. rep \in Stores /\ Seen(rep, n, s)
    BY <1>1, <2>2, <2>3 DEF ReplayedTo
  <2>5. BackfillIdentities(rep, now).ids[n] = rep.ids[n]
    <3>1. Known(rep, n)
      BY <2>4 DEF Seen, Agrees, Known
    <3> QED
      BY <1>1, <2>4, <3>1, BackfillIs
  <2>6. Seen(BackfillIdentities(rep, now), n, s)
    BY <2>4, <2>5, SeenSame
  <2> QED
    BY <2>1, <2>4, <2>6
<1>6. CASE \E p \in passes :
             \E k \in p.todo : \/ WriteBack(p, k) \/ NoteAfresh(p, k)
                               \/ \E m \in Names : CarryRename(p, m, k)
  BY <1>1, <1>6, PassSeen
<1>7. CASE \/ \E m \in Names, u \in Uids : Create(m, u) \/ CreateQuietly(m, u)
           \/ \E m \in Names : Terminate(m)
           \/ \E m, k \in Names : Rename(m, k)
           \/ \E h \in hooks : NotTaken(h) \/ SpoolFails(h)
           \/ \E p \in passes : PassFails(p) \/ PassEnds(p)
           \/ \E b \in underway : Land(b) \/ QueueRestore(b)
           \/ Stop
  BY <1>7 DEF Create, CreateQuietly, Terminate, Rename, NotTaken, SpoolFails, PassFails, PassEnds,
              Land, QueueRestore, Stop
<1>8. CASE \E h \in hooks : ServeUnanswered(h)
  BY <1>1, <1>8 DEF ServeUnanswered
<1> QED
  BY <1>2, <1>3, <1>4, <1>5, <1>6, <1>7, <1>8 DEF IdentityNext

\* A backup of theirs that the holder of a name is shown stays in sight while
\* they hold the name, every event on it is heard in its turn, and nothing
\* fails: no replay of the spool, no hook of another name, no reconciliation
\* and no look moves the boundary past it.
THEOREM OwnBackupsStay == IdentitySpec => OwnBackupsStayVisible
<1> DEFINE Stays(n) ==
             /\ faults' = 0 /\ Exists(n) /\ passwd'[n] = passwd[n]
             /\ ~HookOn(n) /\ n \notin unheard'
             => \A s \in Shown(n) : s.owner = Holder(n) => s \in Shown(n)'
<1>1. QuietInv => IdentityInv
  BY DEF QuietInv
<1>2. QuietInv /\ InSight /\ InSight' /\ [IdentityNext]_identityVars
        => [\A n \in Names : Stays(n)]_identityVars
  <2> SUFFICES ASSUME QuietInv, InSight, InSight', IdentityNext, NEW n \in Names,
                      faults' = 0, Exists(n), passwd'[n] = passwd[n], ~HookOn(n), n \notin unheard',
                      NEW s \in Shown(n), s.owner = Holder(n)
               PROVE  s \in Shown(n)'
    OBVIOUS
  <2>1. s \in snapshots /\ s.name = n /\ s \in Own(n)
    BY DEF Shown, UserSnapshots, Own
  <2>2. Seen(store, n, s)
    BY <2>1 DEF InSight
  <2>3. store' = store \/ Seen(store', n, s)
    BY <2>1, <2>2, SeenStays
  <2>4. snapshots \subseteq snapshots'
    BY DEF IdentityNext, Create, CreateQuietly, Terminate, Rename, Backup, AskRestore, BeginWork,
           ServeCreate, ServeUnanswered, NotTaken, SpoolFails, ServeHook, SchedulePass, Start, PassFails,
           PassEnds, WriteBack, NoteAfresh, CarryRename, Land, QueueRestore, Stop
  <2>5. Exists(n)' /\ Seen(store, n, s)'
    BY <2>2, <2>3 DEF Seen, Agrees, Exists
  <2> QED
    BY <2>1, <2>4, <2>5 DEF InSight
<1> QED
  BY <1>1, <1>2, QuietHolds, ShownIsSeen, PTL DEF IdentitySpec, OwnBackupsStayVisible
=============================================================================
