---------------------------- MODULE Termination ----------------------------
(* Removing a cPanel account safely, and forgetting it afterwards.          *)
(*                                                                          *)
(* One account name and the customers who hold it in turn.  A blocking hook *)
(* asks, from the job history alone, whether every promised copy exists; an *)
(* operator can have the missing ones made first; and what a customer who   *)
(* has gone leaves behind is removed one destination at a time.  Schedules  *)
(* here are for all accounts; the ones that name accounts are in Identity.  *)
(* Protection is on, except where RemovePre says that nothing was asked.     *)
EXTENDS Naturals, FiniteSetsExt

CONSTANTS
    Repos,       \* numbered in the order the store lists them
    Plans,       \* ways the schedules may be set up: functions from 1..n
    Steady,      \* those of them nobody edits, and after which nothing is forgotten
    Keep,        \* KeepDeletedAccountsFor, in ticks
    MaxClock, MaxJobs, MaxEdits, MaxHolders, MaxForgets, MaxCrashes

Schedules == [repos : SUBSET Repos, on : BOOLEAN, full : BOOLEAN, every : Nat \ {0}, alert : Nat]

ASSUME TerminationAssumption ==
    /\ Steady \subseteq Plans /\ IsFiniteSet(Repos) /\ Repos \subseteq Nat
    /\ \A plan \in Plans : /\ plan \in [DOMAIN plan -> Schedules]
                           /\ IsFiniteSet(DOMAIN plan) /\ DOMAIN plan \subseteq Nat
    /\ {Keep, MaxClock, MaxJobs, MaxEdits, MaxHolders, MaxForgets, MaxCrashes} \subseteq Nat

VARIABLES
    clock,
    policy,     \* the schedules, in the order the store lists them
    holder, present, \* which customer has had the name last, and has it still
    identity,   \* the service's record of the name: none, live or retired
    retiredAt,
    leaving,    \* cPanel is removing it: no, asked and allowed, or unasked
    pending, running, \* jobs of the account
    history,    \* jobs that succeeded, and, which no record says, whose they were
    copies,     \* what is really at the destinations
    prepared,   \* the last preparation, while nothing has gone wrong with it
    forget,     \* ForgetAccountBackups, as far as it has come
    overlap,    \* a backup was under way during it
    jobs, edits, forgets, crashes

account == <<holder, present, identity, retiredAt, leaving>>
queue == <<pending, running, history, jobs>>
forgetting == <<forget, overlap, forgets>>
removalVars == <<clock, policy, account, queue, copies, prepared, forgetting, edits, crashes>>

Policies == DOMAIN policy
NoJob == [policy |-> 0, repos |-> {}, complete |-> FALSE, holder |-> 0, listed |-> FALSE]
NothingPrepared == [at |-> 0, missing |-> {}, cover |-> {}, left |-> {}]
NotForgetting == [on |-> FALSE, todo |-> {}]

RemovalInit ==
    /\ clock = 0 /\ policy \in Plans
    /\ holder = 1 /\ present = TRUE /\ identity = "live" /\ retiredAt = 0 /\ leaving = "no"
    /\ pending = {} /\ running = NoJob /\ history = {} /\ copies = {}
    /\ prepared = NothingPrepared /\ forget = NotForgetting /\ overlap = FALSE
    /\ jobs = 0 /\ crashes = 0
    /\ edits = IF policy \in Steady THEN MaxEdits ELSE 0
    /\ forgets = IF policy \in Steady THEN MaxForgets ELSE 0

--------------------------------------------------------------------------
(* Which copies are promised, and which of them are missing.               *)

fullAccountPolicy(p) == policy[p].on /\ policy[p].repos # {} /\ policy[p].full

\* How old a copy may be: twice the interval unless the schedule says.
policyFreshness(p) == IF policy[p].alert > 0 THEN policy[p].alert ELSE 2 * policy[p].every

FullPolicies == {p \in Policies : fullAccountPolicy(p)}

\* Mutant: any schedule may be run to prepare a removal.
EveryPolicy == {p \in Policies : policy[p].repos # {}}

\* What can make a copy that counts.
Candidates == FullPolicies

Promised == UNION {policy[p].repos : p \in FullPolicies}

\* The strictest schedule that writes to a repository decides.
Due(r) ==
    LET dues == {policyFreshness(p) : p \in {q \in FullPolicies : r \in policy[q].repos}}
    IN  CHOOSE d \in dues : \A e \in dues : d <= e

\* Mutant: whether a job took the whole account is read off its schedule now.
CountsBySchedule(j) == j.policy \in FullPolicies

\* A job counts that took the whole account, for a schedule that still does.
Counts(j) == j.complete /\ j.policy \in FullPolicies

Missing ==
    {r \in Promised : \A j \in history : Counts(j) /\ r \in j.repos => clock > j.at + Due(r)}

AccountRemovalSafety == Promised # {} /\ Missing = {}

--------------------------------------------------------------------------
(* The fewest schedules that make every missing copy.                      *)

Helps(p, wanted) == policy[p].repos \cap wanted
Uncovered(wanted, chosen) == wanted \ UNION {policy[p].repos : p \in chosen}

\* Always the schedule that adds most, the first of them.
Gain(p, open) == Cardinality(Helps(p, open))

Most(candidates, open) ==
    CHOOSE p \in candidates : \A q \in candidates :
        Gain(p, open) > Gain(q, open) \/ (Gain(p, open) = Gain(q, open) /\ p <= q)

greedyPolicyCover(wanted, candidates) ==
    LET cover[chosen \in SUBSET candidates] ==
            LET open == Uncovered(wanted, chosen)
            IN  IF open = {} THEN chosen
                ELSE IF \A p \in candidates : Gain(p, open) = 0 THEN {}
                ELSE cover[chosen \cup {Most(candidates, open)}]
    IN  cover[{}]

\* What to try next: the schedules for the uncovered repository that has the
\* fewest, or none where nothing smaller than the best can come of it.
Options(wanted, candidates, chosen, best) ==
    LET open == Uncovered(wanted, chosen)
        available(r) == {p \in candidates \ chosen : r \in policy[p].repos}
        pick == CHOOSE r \in open : \A s \in open : Cardinality(available(r)) <= Cardinality(available(s))
    IN  IF open = {} \/ Cardinality(chosen) + 1 >= Cardinality(best) \/ \E r \in open : available(r) = {}
        THEN {} ELSE available(pick)

\* Where a call of search begins, if it does not end there.
Call(wanted, candidates, chosen, best) ==
    [chosen |-> chosen, todo |-> Options(wanted, candidates, chosen, best),
     best |-> IF Uncovered(wanted, chosen) = {} /\ Cardinality(chosen) < Cardinality(best)
              THEN chosen ELSE best]

Searches(candidates) ==
    [chosen : SUBSET candidates, todo : SUBSET candidates, best : SUBSET candidates]

\* Branch and bound from the greedy answer: each schedule still to try in its
\* turn, with the best that has been found so far.
SearchCover(wanted, candidates, greedy) ==
    LET search[at \in Searches(candidates)] ==
            IF at.todo = {} THEN at.best
            ELSE LET p == Min(at.todo)
                     found == search[Call(wanted, candidates, at.chosen \cup {p}, at.best)]
                 IN  search[[at EXCEPT !.todo = @ \ {p}, !.best = found]]
    IN  search[Call(wanted, candidates, {}, greedy)]

\* Mutant: the greedy answer is taken as it is.
GreedyCover(wanted, candidates) == greedyPolicyCover(wanted, candidates)

minimumPolicyCover(wanted, candidates) ==
    LET useful == {p \in candidates : Helps(p, wanted) # {}}
    IN  SearchCover(wanted, useful, greedyPolicyCover(wanted, useful))

--------------------------------------------------------------------------
(* Queueing: never beside other work of the account.                       *)

\* Work the store knows of.
RunningJobFor == pending # {} \/ running.listed

PutJobs(chosen) ==
    /\ ~RunningJobFor /\ jobs < MaxJobs
    /\ jobs' = jobs + Cardinality(chosen) /\ pending' = chosen
    /\ UNCHANGED <<running, history>>

\* A schedule fires, or somebody asks for a backup.
QueueBackup ==
    /\ present /\ \E p \in Policies : policy[p].repos # {} /\ PutJobs({p})
    /\ UNCHANGED <<clock, policy, account, copies, prepared, forgetting, edits, crashes>>

\* The decision is made before the lock is taken.  What happens between the
\* two might as well happen before, or just after, this step.
QueueRemovalPreparation ==
    /\ present /\ Missing # {}
    /\ LET cover == minimumPolicyCover(Missing, Candidates)
       IN  /\ PutJobs(cover)
           /\ prepared' = [at |-> clock, missing |-> Missing, cover |-> cover, left |-> cover]
    /\ UNCHANGED <<clock, policy, account, copies, forgetting, edits, crashes>>

\* Every promised copy, whatever exists already.
QueueSuspensionBackup ==
    /\ present /\ Promised # {} /\ PutJobs(minimumPolicyCover(Promised, Candidates))
    /\ UNCHANGED <<clock, policy, account, copies, prepared, forgetting, edits, crashes>>

\* The schedule that makes most copies, a full one before any other.
QueueInitialBackup(p) ==
    LET eligible == {q \in Policies : policy[q].on /\ policy[q].repos # {}}
        better(a, b) ==
           \/ policy[a].full /\ ~policy[b].full
           \/ /\ policy[a].full = policy[b].full
              /\ Cardinality(policy[a].repos) > Cardinality(policy[b].repos)
    IN  /\ p \in eligible
        /\ \A q \in eligible : ~better(q, p) /\ (q < p => better(p, q))

--------------------------------------------------------------------------
(* A backup: what the schedule says when it begins is what it takes.       *)

\* A name nothing is recorded for is written down when it is first seen.
noteIdentity == IF identity = "none" THEN "live" ELSE identity

runBackup(p) ==
    /\ p \in pending /\ running = NoJob /\ pending' = pending \ {p}
    /\ IF present
       THEN /\ running' = [policy |-> p, repos |-> policy[p].repos, complete |-> policy[p].full,
                           holder |-> holder, listed |-> TRUE]
            /\ identity' = noteIdentity
            /\ overlap' = (overlap \/ forget.on) /\ UNCHANGED prepared
       ELSE /\ prepared' = NothingPrepared /\ UNCHANGED <<running, identity, overlap>>
    /\ UNCHANGED <<clock, policy, holder, present, retiredAt, leaving, history, jobs, copies, forget, forgets, edits, crashes>>

\* The newest of each kind is enough to know; which older ones stay is for
\* Retention.
Copied(written, whole) ==
    LET made == {[repo |-> r, at |-> IF running.complete /\ r \in whole THEN clock ELSE 0,
                  whole |-> running.complete /\ r \in whole, holder |-> running.holder] : r \in written}
    IN  made \cup {c \in copies : \A m \in made :
                     <<m.repo, m.whole, m.holder>> # <<c.repo, c.whole, c.holder>>}

\* RunJob and what is recorded of it: a job succeeds when every target does
\* and none is incomplete (Rollup).
RunJob ==
    /\ running # NoJob /\ running' = NoJob
    /\ \E written \in SUBSET running.repos : \E whole \in SUBSET written :
          /\ copies' = Copied(written, whole)
          /\ IF whole = running.repos
             THEN /\ history' = history \cup {[policy |-> running.policy, at |-> clock, repos |-> whole,
                                               complete |-> running.complete, holder |-> running.holder]}
                  /\ prepared' = [prepared EXCEPT !.left = IF running.listed THEN @ \ {running.policy} ELSE @]
             ELSE prepared' = NothingPrepared /\ UNCHANGED history
    /\ UNCHANGED <<clock, policy, account, pending, jobs, forgetting, edits, crashes>>

\* The process dies; RecoverFromRestart fails what was running, and a forget
\* that was under way is not taken up again.
Crash ==
    /\ crashes < MaxCrashes /\ crashes' = crashes + 1
    /\ \E written \in SUBSET running.repos : copies' = Copied(written, written)
    /\ running' = NoJob /\ forget' = NotForgetting
    /\ prepared' = IF running = NoJob THEN prepared ELSE NothingPrepared
    /\ UNCHANGED <<clock, policy, account, pending, history, jobs, overlap, forgets, edits>>

--------------------------------------------------------------------------
(* Removal and what follows.                                               *)

\* The pre-removal hook.  A refusal stops cPanel; a service that cannot be
\* reached, or whose protection is switched off, does not.
RemovePre ==
    /\ present /\ leaving = "no"
    /\ leaving' \in (IF AccountRemovalSafety THEN {"allowed"} ELSE {}) \cup {"unasked"}
    /\ UNCHANGED <<clock, policy, holder, present, identity, retiredAt, queue, copies, prepared,
                   forgetting, edits, crashes>>

\* cPanel removes the account, and the post-removal hook retires the name.
AccountRemoved ==
    /\ leaving # "no" /\ leaving' = "no" /\ present' = FALSE
    /\ identity' = "retired" /\ retiredAt' = clock
    /\ UNCHANGED <<clock, policy, holder, queue, copies, prepared, forgetting, edits, crashes>>

\* The name is given to somebody else, who gets a first backup at once.
AccountCreated ==
    /\ ~present /\ holder < MaxHolders /\ holder' = holder + 1 /\ present' = TRUE
    /\ identity' = "live" /\ retiredAt' = 0
    /\ \/ \E p \in Policies : QueueInitialBackup(p) /\ PutJobs({p})
       \/ RunningJobFor /\ UNCHANGED queue
       \/ (\A p \in Policies : ~QueueInitialBackup(p)) /\ UNCHANGED queue
    /\ UNCHANGED <<clock, policy, leaving, copies, prepared, forgetting, edits, crashes>>

--------------------------------------------------------------------------
(* Forgetting an account that is gone.                                     *)

BeginForget ==
    /\ ~forget.on /\ identity = "retired" /\ forgets < MaxForgets /\ forgets' = forgets + 1
    /\ forget' = [on |-> TRUE, todo |-> Repos]
    /\ overlap' = (overlap \/ running # NoJob)

\* An operator asks; that the name is retired is all that is looked at.
handleForgetAccount ==
    /\ BeginForget
    /\ UNCHANGED <<clock, policy, account, queue, copies, prepared, edits, crashes>>

\* The sweep waits for work to end and asks cPanel who is there.
sweepDeletedAccounts ==
    /\ clock >= retiredAt + Keep /\ ~RunningJobFor /\ ~present /\ BeginForget
    /\ UNCHANGED <<clock, policy, account, queue, copies, prepared, edits, crashes>>

\* Mutant: a destination that cannot be read is passed over.
ForgetFailsOn(r) == forget' = [forget EXCEPT !.todo = @ \ {r}]

\* A destination that cannot be read ends it, records and all left as they are.
ForgetFails(r) == forget' = NotForgetting

\* One destination: whatever is stored under the name there is removed.
ForgetSnapshots ==
    /\ forget.on
    /\ \E r \in forget.todo : (\A q \in forget.todo : r <= q) /\
          \/ /\ copies' = {c \in copies : c.repo # r}
             /\ forget' = [forget EXCEPT !.todo = @ \ {r}]
          \/ UNCHANGED copies /\ ForgetFails(r)
    /\ UNCHANGED <<clock, policy, account, queue, prepared, overlap, forgets, edits, crashes>>

\* The records last, in one transaction; a backup under way goes on, and its
\* record comes back when it ends.
ForgetAccount ==
    /\ forget.on /\ forget.todo = {} /\ forget' = NotForgetting
    /\ identity' = "none" /\ retiredAt' = 0 /\ history' = {} /\ pending' = {}
    /\ prepared' = NothingPrepared /\ running' = [running EXCEPT !.listed = FALSE]
    /\ UNCHANGED <<clock, policy, holder, present, leaving, jobs, copies, overlap,
                   forgets, edits, crashes>>

--------------------------------------------------------------------------
(* Around it.                                                              *)

handleSaveSchedule ==
    /\ edits < MaxEdits /\ edits' = edits + 1
    /\ \E p \in Policies :
          \/ policy' = [policy EXCEPT ![p].on = ~@]
          \/ policy' = [policy EXCEPT ![p].full = ~@]
          \/ \E r \in policy[p].repos : policy' = [policy EXCEPT ![p].repos = {r}]
    /\ prepared' = NothingPrepared
    /\ UNCHANGED <<clock, account, queue, copies, forgetting, crashes>>

Tick ==
    /\ clock < MaxClock /\ clock' = clock + 1
    /\ UNCHANGED <<policy, account, queue, copies, prepared, forgetting, edits, crashes>>

RemovalNext ==
    \/ QueueBackup \/ QueueRemovalPreparation \/ QueueSuspensionBackup
    \/ \E p \in Policies : runBackup(p)
    \/ RunJob \/ Crash
    \/ RemovePre \/ AccountRemoved \/ AccountCreated
    \/ handleForgetAccount \/ sweepDeletedAccounts \/ ForgetSnapshots \/ ForgetAccount
    \/ handleSaveSchedule \/ Tick

RemovalSpec == RemovalInit /\ [][RemovalNext]_removalVars

--------------------------------------------------------------------------
(* Properties.                                                             *)

\* A preparation finds a set of schedules to queue, all of them for whole
\* accounts, that reaches every missing copy, and no smaller set does.
CoverIsSmallest ==
    prepared.missing # {} =>
       /\ prepared.cover \subseteq FullPolicies /\ Uncovered(prepared.missing, prepared.cover) = {}
       /\ \A S \in SUBSET FullPolicies :
             Uncovered(prepared.missing, S) = {} => Cardinality(S) >= Cardinality(prepared.cover)

\* Once everything a preparation queued has succeeded, with the schedules left
\* alone, no copy it was made for blocks the removal until its time is up.
PreparationSuffices ==
    prepared.cover # {} /\ prepared.left = {} =>
       \A r \in prepared.missing : clock <= prepared.at + Due(r) => r \notin Missing

\* When the hook lets whoever holds the name go, every destination the
\* schedules promise really holds a whole copy of theirs that is recent enough,
\* however the schedules were changed while it was made.  Where one does not, a
\* former holder's job of that age has been taken for theirs, or the name was
\* being forgotten while a backup of it ran.
AllowedHasCopies ==
    [][leaving' = "allowed" /\ leaving = "no" /\ ~overlap =>
          \A r \in Promised :
             \/ \E c \in copies :
                   c.repo = r /\ c.whole /\ c.holder = holder /\ clock <= c.at + Due(r)
             \/ \E j \in history :
                   j.complete /\ r \in j.repos /\ j.holder < holder /\ clock <= j.at + Due(r)]_removalVars

\* An account that has been forgotten has left nothing at any destination, or
\* a backup was running beside it: what could not be removed is still on record.
ForgottenLeavesNothing ==
    identity = "none" /\ ~overlap => copies = {}
==========================================================================
