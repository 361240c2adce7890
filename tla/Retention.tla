----------------------------- MODULE Retention -----------------------------
(***************************************************************************)
(* Retention of one repository (internal/node/retention.go): the only part *)
(* of the program that deletes backups.  A plan is taken and recorded, an  *)
(* operator approves it, and from then on the scheduler's sweep and the    *)
(* operator's button delete what the schedules do not keep.                *)
(*                                                                         *)
(* The repository's record is read whole and written back whole, with no   *)
(* lock, by everyone who changes it.  A keep policy is five counts that    *)
(* are treated alike; here it is one, and 0 keeps nothing.  The backups    *)
(* are those of one account, numbered as they were taken.                  *)
(***************************************************************************)
EXTENDS Integers, FiniteSets, FiniteSetsExt

CONSTANTS
  Policies,      \* schedules that may write to the repository
  MaxKeep,       \* bound: the largest keep count
  MaxSnapshots,  \* bound: backups taken
  MaxEdits       \* bound: schedules edited

ASSUME RetentionAssumption ==
  /\ IsFiniteSet(Policies)
  /\ {MaxKeep, MaxSnapshots, MaxEdits} \subseteq Nat

VARIABLES
  keep,      \* policy -> its keep count, or -1 while it is off or writes elsewhere
  snaps,     \* the backups the repository holds
  complete,  \* those with a completion receipt
  taken,     \* backups taken so far
  repo,      \* the repository's record
  run,       \* sweep, page -> what that caller of PlanRetention or ApplyRetention is at
  operator,  \* the approval or withdrawal being handled
  agreed,    \* the keep policies an operator has approved, ever
  edits      \* schedules edited so far

vars == <<keep, snaps, complete, taken, repo, run, operator, agreed, edits>>

Callers == {"sweep", "page"}
Keeps == 0..MaxKeep

\* approved and planned are RetentionApprovedKeeps and PlannedKeeps, 0 while
\* there is no approval or no plan; planOf is the keep policy the plan on
\* record was computed with.  When any of it happened is left out, so a sweep
\* may come at any time here, where the code waits for most of a day
Repository == [approved : Keeps, planned : Keeps, planOf : Keeps]

NoRecord == [approved |-> 0, planned |-> 0, planOf |-> 0]

\* since is how many schedules had been edited when the call began; write says
\* what recordRetention is to change and copy is what it read
Runs == [at : {"idle", "begun", "previewed", "done", "recording"}, apply : BOOLEAN,
         keeps : Keeps, since : 0..MaxEdits, remove : SUBSET (1..MaxSnapshots),
         write : {"none", "planned", "applied", "attempted"}, copy : Repository]

NoRun == [at |-> "idle", apply |-> FALSE, keeps |-> 0, since |-> 0, remove |-> {},
          write |-> "none", copy |-> NoRecord]

Idle == [at |-> "idle", copy |-> NoRecord]

-----------------------------------------------------------------------------
\* Mutant: the least generous of them
MergedRetentionLeast ==
  LET on == {q \in Policies : keep[q] >= 0}
  IN  IF on = {} THEN 0 ELSE Min({keep[p] : p \in on})

\* The most generous of the enabled schedules that write here
MergedRetention == Max({0} \cup {keep[p] : p \in {q \in Policies : keep[q] >= 0}})

\* A keep policy that would delete everything is refused
retentionFor == MergedRetention # 0

RetentionApprovalCovers == repo.approved # 0 /\ repo.approved = MergedRetention

\* restic's answer to "keep the last k"
Expired(k) == {s \in snaps : Cardinality({t \in snaps : t >= s}) > k}

\* What a preview finds safe to remove: nothing from a group that holds an
\* unverified backup
SafeToRemove(k) == IF snaps \subseteq complete THEN Expired(k) ELSE {}

-----------------------------------------------------------------------------
\* PlanRetention and ApplyRetention

Begun(apply) == [NoRun EXCEPT !.at = "begun", !.apply = apply,
                              !.keeps = MergedRetention,
                              !.since = IF apply THEN edits ELSE 0]

PlanRetention(c) ==
  /\ retentionFor
  /\ run' = [run EXCEPT ![c] = Begun(FALSE)]

\* Mutant: any approval will do
ApplyRetentionOnceApproved(c) ==
  /\ repo.approved # 0 /\ retentionFor
  /\ run' = [run EXCEPT ![c] = Begun(TRUE)]

\* Only what was approved is applied
ApplyRetention(c) ==
  /\ repo.approved # 0 /\ retentionFor
  /\ repo.approved = MergedRetention
  /\ run' = [run EXCEPT ![c] = Begun(TRUE)]

\* The dry run that every forget begins with
Preview(c) ==
  /\ run[c].at = "begun"
  /\ run' = [run EXCEPT
       ![c] = IF run[c].apply
              THEN [@ EXCEPT !.at = "previewed", !.remove = SafeToRemove(run[c].keeps), !.write = "applied"]
              ELSE [@ EXCEPT !.at = "done", !.write = "planned"]]
  /\ UNCHANGED <<keep, snaps, complete, taken, repo, operator, agreed, edits>>

\* Mutant: the policy is run again instead of the list it gave
ForgetAgain(c) ==
  /\ run[c].at = "previewed"
  /\ snaps' = snaps \ Expired(run[c].keeps)
  /\ run' = [run EXCEPT ![c].at = "done", ![c].since = 0]
  /\ UNCHANGED <<keep, complete, taken, repo, operator, agreed, edits>>

\* The very backups the preview named are removed
ForgetPreviewed(c) ==
  /\ run[c].at = "previewed"
  /\ snaps' = snaps \ run[c].remove
  /\ run' = [run EXCEPT ![c].at = "done", ![c].since = 0]
  /\ UNCHANGED <<keep, complete, taken, repo, operator, agreed, edits>>

\* restic fails: in the preview, part of the way through the removal, or in the
\* prune that follows one
RunFails(c) ==
  /\ run[c].at = "begun" \/ run[c].remove # {}
  /\ \E gone \in SUBSET run[c].remove : snaps' = snaps \ gone
  /\ run' = [run EXCEPT ![c] = [NoRun EXCEPT !.at = "done", !.write = "attempted"]]
  /\ UNCHANGED <<keep, complete, taken, repo, operator, agreed, edits>>

\* recordRetention reads the record ...
RecordReads(c) ==
  /\ run[c].at = "done"
  /\ run' = [run EXCEPT ![c].at = "recording", ![c].copy = repo, ![c].remove = {}, ![c].since = 0]
  /\ UNCHANGED <<keep, snaps, complete, taken, repo, operator, agreed, edits>>

\* ... and writes it back: a plan with the policy it was taken under, an
\* application with the plan it carried out, a failure with neither
RecordWrites(c) ==
  /\ run[c].at = "recording"
  /\ repo' = CASE run[c].write = "planned" ->
                    [run[c].copy EXCEPT !.planned = run[c].keeps, !.planOf = run[c].keeps]
               [] run[c].write = "applied" ->
                    [run[c].copy EXCEPT !.planOf = run[c].keeps]
               [] run[c].write = "attempted" -> run[c].copy
  /\ run' = [run EXCEPT ![c] = NoRun]
  /\ UNCHANGED <<keep, snaps, complete, taken, operator, agreed, edits>>

\* sweepRetention: the repository is planned, or has its approved retention
\* applied
Sweep ==
  /\ run["sweep"].at = "idle"
  /\ \/ ~RetentionApprovalCovers /\ PlanRetention("sweep")
     \/ RetentionApprovalCovers /\ ApplyRetention("sweep")
  /\ UNCHANGED <<keep, snaps, complete, taken, repo, operator, agreed, edits>>

\* handlePlanRetention and handleRunRetention, whatever the queue is doing
PressPlanOrRun ==
  /\ run["page"].at = "idle"
  /\ PlanRetention("page") \/ ApplyRetention("page")
  /\ UNCHANGED <<keep, snaps, complete, taken, repo, operator, agreed, edits>>

-----------------------------------------------------------------------------
\* The operator

\* ApproveRetention reads the record: there is a plan, and it was taken under
\* the policy in force
ApproveReads ==
  /\ operator.at = "idle"
  /\ repo.planned # 0 /\ retentionFor
  /\ repo.planned = MergedRetention
  /\ operator' = [at |-> "writing", copy |-> [repo EXCEPT !.approved = repo.planned]]
  /\ UNCHANGED <<keep, snaps, complete, taken, repo, run, agreed, edits>>

\* WithdrawRetention reads the record
WithdrawReads ==
  /\ operator.at = "idle" /\ repo.approved # 0
  /\ operator' = [at |-> "writing", copy |-> [repo EXCEPT !.approved = 0]]
  /\ UNCHANGED <<keep, snaps, complete, taken, repo, run, agreed, edits>>

OperatorWrites ==
  /\ operator.at = "writing"
  /\ repo' = operator.copy /\ operator' = Idle
  /\ agreed' = agreed \cup ({operator.copy.approved} \ {0})
  /\ UNCHANGED <<keep, snaps, complete, taken, run, edits>>

\* A schedule is made, edited, switched off or pointed elsewhere
EditPolicy(p) ==
  /\ edits < MaxEdits /\ edits' = edits + 1
  /\ \E k \in -1..MaxKeep : k # keep[p] /\ keep' = [keep EXCEPT ![p] = k]
  /\ UNCHANGED <<snaps, complete, taken, repo, run, operator, agreed>>

-----------------------------------------------------------------------------
\* Backups

\* A backup lands, unverified; the sweep shares the worker's goroutine
BackupLands ==
  /\ taken < MaxSnapshots /\ run["sweep"].at = "idle"
  /\ taken' = taken + 1 /\ snaps' = snaps \cup {taken + 1}
  /\ UNCHANGED <<keep, complete, repo, run, operator, agreed, edits>>

\* recordCompletion: its source was read in full; else it stays unverified
RecordCompletion ==
  /\ run["sweep"].at = "idle" /\ taken \in snaps \ complete
  /\ complete' = complete \cup {taken}
  /\ UNCHANGED <<keep, snaps, taken, repo, run, operator, agreed, edits>>

-----------------------------------------------------------------------------
Init ==
  /\ keep = [p \in Policies |-> -1]
  /\ snaps = {} /\ complete = {} /\ taken = 0
  /\ repo = NoRecord
  /\ run = [c \in Callers |-> NoRun] /\ operator = Idle /\ agreed = {}
  /\ edits = 0

Next ==
  \/ Sweep \/ PressPlanOrRun
  \/ \E c \in Callers : \/ Preview(c) \/ ForgetPreviewed(c) \/ RunFails(c)
                        \/ RecordReads(c) \/ RecordWrites(c)
  \/ ApproveReads \/ WithdrawReads \/ OperatorWrites
  \/ \E p \in Policies : EditPolicy(p)
  \/ BackupLands \/ RecordCompletion

Spec == Init /\ [][Next]_vars

-----------------------------------------------------------------------------
\* Properties

TypeOK ==
  /\ keep \in [Policies -> -1..MaxKeep]
  /\ taken \in 0..MaxSnapshots /\ snaps \subseteq 1..taken /\ complete \subseteq 1..taken
  /\ repo \in Repository /\ run \in [Callers -> Runs]
  /\ \A c \in Callers : run[c].at \in {"begun", "previewed"} => run[c].keeps # 0
  /\ operator \in [at : {"idle", "writing"}, copy : Repository]
  /\ agreed \subseteq 1..MaxKeep /\ edits \in 0..MaxEdits

\* The newest backup known to be whole is never removed, whatever lands, is
\* edited or is withdrawn while a run is under way: a preview decides on what
\* it saw, and only what it named goes (ForgetPlanned: "Re-running a policy
\* could let an incomplete backup arriving between these steps evict a
\* known-good one").
KnownGoodStays ==
  [][\A s \in snaps \cap complete : s = Max(snaps \cap complete) => s \in snaps']_vars

\* What is being applied is a policy an operator approved: an edit since the
\* approval, a record written back late or a failed attempt never puts
\* another one in its place (ApplyRetention: "a policy they have not seen
\* does not run").
AppliesWhatWasApproved == \A c \in Callers : run[c].apply => run[c].keeps \in agreed

\* No backup is named for removal that some enabled schedule keeps, unless the
\* schedules were edited since the call began (MergedRetention: "Keeping too
\* much is the right way for this to be wrong").
MostGenerousIsKept ==
  [][\A c \in Callers :
       run[c].at = "begun" /\ run[c].since = edits
         => \A s \in run'[c].remove, p \in Policies :
              Cardinality({t \in snaps : t >= s}) > keep[p]]_vars

\* "PlannedKeeps is the keep policy the plan was taken under, which is what an
\* operator approves when they approve the plan" (RetentionState).
PlanIsOfItsPolicy == repo.planned # 0 => repo.planOf = repo.planned
=============================================================================
