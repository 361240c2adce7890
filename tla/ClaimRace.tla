------------------------------ MODULE ClaimRace ------------------------------
(* ClaimNextJob statement by statement, for the claims of one server.       *)
(*                                                                          *)
(* FleetQueue makes a claim one step.  In the database it is a transaction  *)
(* of several statements under READ COMMITTED: each statement sees what was *)
(* committed when it began, rows another transaction holds are skipped, and *)
(* a row that changed since the statement began is looked at again before   *)
(* it is locked.  Two requests are open at once when several controllers    *)
(* share the database, or when an agent gave up on a poll still being       *)
(* served.                                                                  *)
EXTENDS Naturals, FiniteSets

CONSTANTS
    Jobs, Accounts,
    Requests,        \* polls being served at once
    NoJob,
    AccountOf,       \* [Jobs -> Accounts]
    CreatedAt,       \* [Jobs -> Nat]
    MaxConcurrency,  \* servers.max_concurrency; 0 is no limit
    MaxReclaims      \* bound on leases that run out

VARIABLES
    status,    \* [Jobs -> {"pending", "running", "done"}], the committed rows
    tx,        \* [Requests -> where its transaction is]
    holders,   \* [Jobs -> SUBSET Requests], the requests a job was handed to
    reclaims

vars == <<status, tx, holders, reclaims>>

NoRows == [j \in Jobs |-> "done"]
NoTx == [at |-> "none", sees |-> NoRows, job |-> NoJob]

Transactions == [at: {"none", "counted", "selecting", "updated"},
                 sees: [Jobs -> {"pending", "running", "done"}],
                 job: Jobs \cup {NoJob}]

Running(rows) == {j \in Jobs : rows[j] = "running"}

(* The first statement: the limit is compared with what is committed.       *)
CountRunning(c) ==
    /\ tx[c].at = "none"
    /\ ~ (MaxConcurrency > 0 /\ Cardinality(Running(status)) >= MaxConcurrency)
    /\ tx' = [tx EXCEPT ![c] = [at |-> "counted", sees |-> NoRows, job |-> NoJob]]
    /\ UNCHANGED <<status, holders, reclaims>>

(* The UPDATE begins and takes its snapshot.                                *)
BeginUpdate(c) ==
    /\ tx[c].at = "counted"
    /\ tx' = [tx EXCEPT ![c] = [at |-> "selecting", sees |-> status, job |-> NoJob]]
    /\ UNCHANGED <<status, holders, reclaims>>

Locked(j) == \E c \in Requests : tx[c].job = j

(* What the subquery finds in the snapshot, less what is locked and what is *)
(* no longer pending.                                                       *)
Candidates(rows) ==
    {j \in Jobs : /\ rows[j] = "pending"
                  /\ ~ \E k \in Running(rows) : AccountOf[k] = AccountOf[j]
                  /\ ~ Locked(j)
                  /\ status[j] = "pending"}

LockRow(c) ==
    /\ tx[c].at = "selecting"
    /\ \/ \E j \in Candidates(tx[c].sees) :
            /\ \A k \in Candidates(tx[c].sees) : CreatedAt[j] <= CreatedAt[k]
            /\ tx' = [tx EXCEPT ![c] = [at |-> "updated", sees |-> NoRows, job |-> j]]
       \/ /\ Candidates(tx[c].sees) = {}
          /\ tx' = [tx EXCEPT ![c] = NoTx]
    /\ UNCHANGED <<status, holders, reclaims>>

Commit(c) ==
    /\ tx[c].at = "updated"
    /\ status' = [status EXCEPT ![tx[c].job] = "running"]
    /\ holders' = [holders EXCEPT ![tx[c].job] = holders[tx[c].job] \cup {c}]
    /\ tx' = [tx EXCEPT ![c] = NoTx]
    /\ UNCHANGED reclaims

(* A statement failed or the connection is gone: inTx rolls back.           *)
Rollback(c) ==
    /\ tx[c].at # "none"
    /\ tx' = [tx EXCEPT ![c] = NoTx]
    /\ UNCHANGED <<status, holders, reclaims>>

(* The holder's report, a transaction of one row.                           *)
ApplyReport(j) ==
    /\ status[j] = "running"
    /\ status' = [status EXCEPT ![j] = "done"]
    /\ holders' = [holders EXCEPT ![j] = {}]
    /\ UNCHANGED <<tx, reclaims>>

(* The lease ran out: whoever held the job no longer does.                  *)
ReclaimExpiredLeases(j) ==
    /\ status[j] = "running"
    /\ reclaims < MaxReclaims
    /\ status' = [status EXCEPT ![j] = "pending"]
    /\ holders' = [holders EXCEPT ![j] = {}]
    /\ reclaims' = reclaims + 1
    /\ UNCHANGED tx

Init ==
    /\ status = [j \in Jobs |-> "pending"]
    /\ tx = [c \in Requests |-> NoTx]
    /\ holders = [j \in Jobs |-> {}]
    /\ reclaims = 0

Next ==
    \/ \E c \in Requests : \/ CountRunning(c) \/ BeginUpdate(c) \/ LockRow(c)
                           \/ Commit(c) \/ Rollback(c)
    \/ \E j \in Jobs : ApplyReport(j) \/ ReclaimExpiredLeases(j)

Spec == Init /\ [][Next]_vars

-----------------------------------------------------------------------------
(* ClaimNextJob's row locks: whatever the overlap, a job is being claimed   *)
(* or held by one request at most, so no two agents are handed it.          *)
HandedToOne ==
    \A j \in Jobs : \A c, d \in Requests :
        (/\ c \in holders[j] \/ tx[c].job = j
         /\ d \in holders[j] \/ tx[d].job = j) => c = d

(* The inductive invariant: a row is locked only while it is pending, and   *)
(* held only while it is running, so a locked row has no holder.            *)
RowTypes ==
    /\ status \in [Jobs -> {"pending", "running", "done"}]
    /\ tx \in [Requests -> Transactions]
    /\ holders \in [Jobs -> SUBSET Requests]
    /\ \A c \in Requests : tx[c].at = "updated" => tx[c].job # NoJob

LockedIsPending == \A c \in Requests : tx[c].job # NoJob => status[tx[c].job] = "pending"

HeldIsRunning == \A j \in Jobs : holders[j] # {} => status[j] = "running"

OneLock ==
    \A c, d \in Requests : tx[c].job # NoJob /\ tx[c].job = tx[d].job => c = d

OneHolder == \A j \in Jobs : \A c, d \in holders[j] : c = d

ClaimInv == RowTypes /\ LockedIsPending /\ HeldIsRunning /\ OneLock /\ OneHolder

(* One running job per account, whatever the policy.                        *)
OneRunningPerAccount ==
    \A j, k \in Running(status) : AccountOf[j] = AccountOf[k] => j = k

(* No more running than the operator sized the staging volume for.          *)
WithinLimit ==
    MaxConcurrency > 0 => Cardinality(Running(status)) <= MaxConcurrency

(* Claims that do not overlap keep to both.  The inductive invariant: no    *)
(* job has started since the open claim began, so the limit it compared is  *)
(* not reached and its snapshot shows every backup that runs.               *)
OneClaimAtATime == \A c, d \in Requests : c = d

ClaimSeesAll ==
    \A c \in Requests :
        /\ tx[c].at # "none" /\ MaxConcurrency > 0 =>
              Cardinality(Running(status)) < MaxConcurrency
        /\ tx[c].at = "selecting" => Running(status) \subseteq Running(tx[c].sees)
        /\ tx[c].at = "updated" =>
              \A k \in Running(status) : AccountOf[k] # AccountOf[tx[c].job]

SerialInv == ClaimInv /\ ClaimSeesAll /\ OneRunningPerAccount /\ WithinLimit
=============================================================================
