------------------------------ MODULE Identity ------------------------------
(***************************************************************************)
(* Whose backups a cPanel name may read (internal/node/identity.go), and   *)
(* the lifecycle hooks that say a name has changed hands                   *)
(* (cmd/agent/hook.go, internal/hookspool, internal/webui/lifecycle.go).   *)
(*                                                                         *)
(* Snapshots are filed under the account's NAME.  A customer is known here *)
(* by the name and the moment cPanel made their account under, which no    *)
(* code sees: the code tells customers apart by uid and by the boundary    *)
(* the hooks record, and the properties compare its answer with the truth. *)
(* Every step that reads the clock advances it, as nanosecond clocks do.   *)
(*                                                                         *)
(* No lock is held over a pass, a backup or a request: what each reads and *)
(* what it later writes are steps of their own, with anything in between.  *)
(* One look at a name (noteIdentity), one event recorded (AccountCreated,  *)
(* AccountRemoved) and one replay of the spool are single steps.           *)
(***************************************************************************)
EXTENDS Naturals, FiniteSets

CONSTANTS
  Names,       \* cPanel user names
  Uids,        \* unix uids; Linux hands a deleted account's uid out again
  MaxTime,     \* bound: steps that read the clock
  MaxRestores, \* bound: restores asked for
  MaxBusy,     \* bound: passes, backups and restore requests at one time
  MaxFaults,   \* bound: hooks the running service fails, replays that fail,
               \* account lists that cannot be read, accounts without a hook
  NoOne        \* a model value: no account, no record, no pass

Identities == [uid : Uids, since : Nat, recycled : BOOLEAN, retired : BOOLEAN]

\* What a hook says: a create, a remove, or a modify that renamed `old`
Events == [event : {"create", "remove", "modify"}, name : Names, old : Names, at : Nat]

\* Whom a name means: a customer is the name and the moment it was made under
Holders == [uid : Uids, owner : Names \X Nat]

ASSUME IdentityAssumption ==
  /\ MaxTime \in Nat /\ MaxRestores \in Nat /\ MaxBusy \in Nat /\ MaxFaults \in Nat
  /\ IsFiniteSet(Names) /\ Names # {} /\ Uids # {}
  /\ NoOne \notin Identities /\ NoOne \notin Holders /\ NoOne \notin Events

VARIABLES
  now,       \* the clock
  passwd,    \* name -> [uid, owner], the accounts on the server now
  store,     \* the state file: [ids, policy, backfilled]
  snapshots, \* what the repository holds: [name, at, owner]
  restores,  \* restore records: [name, since, at, owner]
  underway,  \* backups and restore requests begun: [kind, name, at, owner]
  hooks,     \* hook processes cPanel has started: [event, name, old, at]
  spool,     \* events hooks wrote down: the same records
  up,        \* the service is running
  passes,    \* reconciliations between their reads and their last write
  unheard,   \* names with an event the service never recorded, recorded out
             \* of turn, or recorded and then wrote over, or that changed
             \* hands under a backup or a request
  faults     \* faults so far

identityVars == <<now, passwd, store, snapshots, restores, underway, hooks, spool, up,
                  passes, unheard, faults>>

-----------------------------------------------------------------------------
\* What the store's records are made of

Stores == [ids : [Names -> Identities \cup {NoOne}],
           policy : [accounts : SUBSET Names, enabled : BOOLEAN], backfilled : BOOLEAN]

\* time.Now() as this step reads it
Tick == now < MaxTime /\ now' = now + 1

Exists(n) == passwd[n] # NoOne
HookOn(n) == \E h \in hooks : n \in {h.name, h.old}

\* nodestore.Identity for a name with no record is an error
Known(st, n) == st.ids[n] # NoOne

Identity(uid, since, recycled) ==
  [uid |-> uid, since |-> since, recycled |-> recycled, retired |-> FALSE]

\* Mutant: a record that matches is dated again each time it is seen
noteIdentityRedated(st, n, t) ==
  LET uid == passwd[n].uid
      old == st.ids[n]
  IN [st EXCEPT !.ids[n] =
        IF ~Known(st, n) THEN Identity(uid, t, st.backfilled)
        ELSE IF old.retired \/ old.uid # uid THEN Identity(uid, t, TRUE)
        ELSE [old EXCEPT !.since = t]]

\* noteIdentity: which unix account a name means, as it is seen at t
noteIdentity(st, n, t) ==
  LET uid == passwd[n].uid
      old == st.ids[n]
  IN [st EXCEPT !.ids[n] =
        IF ~Known(st, n) THEN Identity(uid, t, st.backfilled)
        ELSE IF old.retired \/ old.uid # uid THEN Identity(uid, t, TRUE)
        ELSE old]

\* AccountCreated: a boundary already at or after this one is left alone;
\* a name that is not an account (ErrNoSuchAccount) records nothing
AccountCreated(st, n, at) ==
  IF ~Exists(n) \/ (Known(st, n) /\ st.ids[n].recycled /\ st.ids[n].since >= at)
  THEN st
  ELSE [st EXCEPT !.ids[n] = Identity(passwd[n].uid, at, TRUE)]

\* Mutant: the identity of a removed account is left as it was
AccountRemovedUnretired(st, n) ==
  LET kept == st.policy.accounts \ {n}
  IN [st EXCEPT
        !.policy = IF kept = @.accounts THEN @
                   ELSE [accounts |-> kept, enabled |-> @.enabled /\ kept # {}]]

\* Mutant: a policy that lost its only name stays enabled
AccountRemovedWidening(st, n) ==
  [st EXCEPT
     !.ids[n] = IF Known(st, n) THEN [@ EXCEPT !.retired = TRUE] ELSE @,
     !.policy.accounts = @ \ {n}]

\* AccountRemoved: retire the identity and take the name out of the named
\* policy, disabling one that lost its only name because an empty list means
\* every account.  (The name's baskets, which are filed under a snapshot and
\* reached only through it, are not part of this model.)
AccountRemoved(st, n) ==
  LET kept == st.policy.accounts \ {n}
  IN [st EXCEPT
        !.ids[n] = IF Known(st, n) THEN [@ EXCEPT !.retired = TRUE] ELSE @,
        !.policy = IF kept = @.accounts THEN @
                   ELSE [accounts |-> kept, enabled |-> @.enabled /\ kept # {}]]

AccountSince(st, n) == IF Known(st, n) THEN st.ids[n].since ELSE 0

\* visibleSince: zero means every snapshot under the name
visibleSince(st, n) ==
  IF Known(st, n) /\ st.ids[n].recycled THEN st.ids[n].since ELSE 0

\* Mutant: a restore is judged by the name alone
BelongsToName(st, r) == TRUE

BelongsToCurrentHolder(st, r) ==
  LET id == st.ids[r.name]
  IN \/ ~Known(st, r.name) \/ ~id.recycled
     \/ IF r.since = 0 THEN r.at > id.since ELSE r.since >= id.since

\* UserSnapshots, once noteIdentity has run at t
UserSnapshots(st, n) ==
  {s \in snapshots : s.name = n /\ s.at >= visibleSince(st, n)}

-----------------------------------------------------------------------------
\* Reconciliation

Replayed(st, h) ==
  IF h.event = "create" THEN AccountCreated(st, h.name, h.at)
                        ELSE AccountRemoved(st, h.name)

\* hookspool.Pending lists the entries by the time in the file's name: the
\* one of time t, if there is one, unless the store refuses it
Due(refused, t) == {h \in spool \ refused : h.at = t}

ReplayedAt(st, refused, t) ==
  IF Due(refused, t) = {} THEN st
  ELSE Replayed(st, CHOOSE h \in Due(refused, t) : TRUE)

\* ReplayHookSpool: the entries in order, all but the ones the store refused.
\* An entry that is stuck is recorded and keeps its file: removing the file
\* failed, or the process died between the two.
ReplayHookSpool(st, refused) ==
  LET replayed[t \in 0..now] ==
        IF t = 0 THEN st ELSE ReplayedAt(replayed[t - 1], refused, t - 1)
  IN replayed[now]

\* Names with a create that is kept when a remove which followed it is gone:
\* it will be recorded as though it came after
OutOfTurn(kept) ==
  {h.name : h \in {k \in kept : k.event = "create" /\ \E e \in spool \ kept :
                      e.event = "remove" /\ e.name = k.name /\ e.at > k.at}}

Accounts == {n \in Names : Exists(n)}

\* A pass: the hook it is made for, or NoOne for the scheduler's; the records
\* read; the uids looked up, NoOne for a name that is not there; and the names
\* still to be written.  Its reads write nothing and are one step.
Pass(by, known) ==
  [by |-> by, known |-> known, todo |-> Accounts,
   uids |-> [n \in Names |-> IF Exists(n) THEN passwd[n].uid ELSE NoOne]]

\* A record read that says what the uid looked up for its name says
Matches(p, n) ==
  p.known[n] # NoOne /\ p.known[n].uid = p.uids[n] /\ ~p.known[n].retired

\* An identity whose name had gone and whose uid a name new to the record has:
\* the rename that is inferred, when cPanel has reported a modification
renamedFrom(p, n) ==
  {m \in Names : /\ p.by # NoOne /\ p.by.event = "modify" /\ p.known[n] = NoOne
                 /\ p.known[m] # NoOne /\ p.known[m].uid = p.uids[n]
                 /\ ~p.known[m].retired /\ p.uids[m] = NoOne}

\* The name takes over the record as it was read, which is retired, and the
\* named policy follows
renamed(st, p, m, n) ==
  [st EXCEPT !.ids = [@ EXCEPT ![n] = Identity(p.uids[n], p.known[m].since, p.known[m].recycled),
                               ![m] = [p.known[m] EXCEPT !.retired = TRUE]],
             !.policy.accounts = IF m \in @ THEN (@ \ {m}) \cup {n} ELSE @]

-----------------------------------------------------------------------------
\* cPanel and the system beneath it.  A post hook runs before cPanel begins
\* another operation on the same name.

FreeUids == Uids \ {passwd[n].uid : n \in Accounts}

Hook(event, name, old) == [event |-> event, name |-> name, old |-> old, at |-> now]

\* createacct, and its post hook
Create(n, u) ==
  /\ ~Exists(n) /\ ~HookOn(n) /\ u \in FreeUids /\ Tick
  /\ passwd' = [passwd EXCEPT ![n] = [uid |-> u, owner |-> <<n, now>>]]
  /\ hooks' = hooks \cup {Hook("create", n, n)}
  /\ UNCHANGED <<store, snapshots, restores, underway, spool, up, passes, unheard, faults>>

\* restorepkg: an account that arrives without a create hook
CreateQuietly(n, u) ==
  /\ ~Exists(n) /\ ~HookOn(n) /\ u \in FreeUids /\ Tick
  /\ faults < MaxFaults /\ faults' = faults + 1
  /\ passwd' = [passwd EXCEPT ![n] = [uid |-> u, owner |-> <<n, now>>]]
  /\ UNCHANGED <<store, snapshots, restores, underway, hooks, spool, up, passes, unheard>>

Terminate(n) ==
  /\ Exists(n) /\ ~HookOn(n) /\ Tick
  /\ passwd' = [passwd EXCEPT ![n] = NoOne]
  /\ hooks' = hooks \cup {Hook("remove", n, n)}
  /\ UNCHANGED <<store, snapshots, restores, underway, spool, up, passes, unheard, faults>>

\* modifyacct with a new name: the uid and the customer stay the same
Rename(n, m) ==
  /\ Exists(n) /\ ~Exists(m) /\ ~HookOn(n) /\ ~HookOn(m) /\ Tick
  /\ passwd' = [passwd EXCEPT ![n] = NoOne, ![m] = passwd[n]]
  /\ hooks' = hooks \cup {Hook("modify", m, n)}
  /\ UNCHANGED <<store, snapshots, restores, underway, spool, up, passes, unheard, faults>>

-----------------------------------------------------------------------------
\* ReplayHookSpool and the reads of a reconciliation, begun in the state `st`

Busy == Cardinality(passes) + Cardinality(underway) >= MaxBusy

Replays(refused, stuck) ==
  /\ faults' = faults + (IF refused \cup stuck = {} THEN 0 ELSE 1)
  /\ faults' <= MaxFaults
  /\ spool' = refused \cup stuck

BeginPass(st, by, refused, stuck) ==
  /\ ~Busy
  /\ Replays(refused, stuck)
  /\ store' = ReplayHookSpool(st, refused)
  /\ passes' = passes \cup {Pass(by, store'.ids)}

-----------------------------------------------------------------------------
\* The hook process and the handler that serves it (handleLifecycleEvent)

Spooled(h) == h.event \in {"create", "remove"}

\* A create: AccountCreated at the time it is served, and the answer
ServeCreate(h) ==
  /\ up /\ h.event = "create" /\ Tick
  /\ store' = AccountCreated(store, h.name, now)
  /\ hooks' = hooks \ {h}
  /\ UNCHANGED <<passwd, snapshots, restores, underway, spool, up, passes, unheard, faults>>

\* The boundary is recorded, and the hook not answered: recording the outcome
\* fails, or the client's timeout passes first.  The hook writes it down as
\* though nobody had heard it.
ServeUnanswered(h) ==
  /\ up /\ h.event = "create" /\ Tick /\ faults < MaxFaults
  /\ store' = AccountCreated(store, h.name, now)
  /\ hooks' = hooks \ {h}
  /\ spool' = spool \cup {h}
  /\ faults' = faults + 1
  /\ UNCHANGED <<passwd, snapshots, restores, underway, up, passes, unheard>>

\* A remove or a modify: the event, then a reconciliation, and the hook waits
\* for its end.  An entry of the removed name that the replay keeps will be
\* recorded as though it came after.
ServeHook(h, refused, stuck) ==
  /\ up /\ h.event # "create" /\ \A p \in passes : p.by # h
  /\ BeginPass(IF h.event = "remove" THEN AccountRemoved(store, h.name) ELSE store, h, refused, stuck)
  /\ unheard' = unheard \cup OutOfTurn(spool')
                  \cup {n \in {h.name} : h.event = "remove" /\ \E k \in spool' : k.name = n}
  /\ UNCHANGED <<now, passwd, snapshots, restores, underway, hooks, up>>

\* A rename whose old identity is still not retired when its pass has ended,
\* or is still in the spool, was not carried
NotCarried(h) ==
  IF /\ h.event = "modify"
     /\ \/ store.ids[h.old] # NoOne /\ ~store.ids[h.old].retired
        \/ \E k \in spool : k.name = h.old
  THEN {h.old, h.name} ELSE {}

\* A hook that was not heard writes a create or a remove down; a modify is
\* only logged
Refuses(some) ==
  /\ hooks' = hooks \ some
  /\ spool' = spool \cup {h \in some : Spooled(h)}
  /\ unheard' = unheard \cup UNION {{h.name, h.old} : h \in {k \in some : ~Spooled(k)}}

\* Nobody took the event, or nobody answered it in time: the service is down,
\* or it answered with a 5xx, or it is still at the pass when the hook gives up
NotTaken(h) ==
  /\ ~up \/ faults < MaxFaults
  /\ faults' = IF up THEN faults + 1 ELSE faults
  /\ Refuses({h})
  /\ UNCHANGED <<now, passwd, store, snapshots, restores, underway, up, passes>>

\* The spool cannot be written either, which is reported to WHM
SpoolFails(h) ==
  /\ ~up /\ Spooled(h) /\ faults < MaxFaults
  /\ faults' = faults + 1
  /\ hooks' = hooks \ {h}
  /\ unheard' = unheard \cup {h.name}
  /\ UNCHANGED <<now, passwd, store, snapshots, restores, underway, spool, up, passes>>

-----------------------------------------------------------------------------
\* The service

\* BackfillIdentities, the first time the account list can be read
BackfillIdentities(st, t) ==
  IF st.backfilled THEN st
  ELSE [st EXCEPT !.backfilled = TRUE,
                  !.ids = [n \in Names |-> IF Exists(n) /\ ~Known(st, n)
                                           THEN Identity(passwd[n].uid, t, FALSE)
                                           ELSE st.ids[n]]]

\* runStandalone up to its listeners: replay, then backfill, which is only
\* logged when the account list cannot be read.  An entry the store refuses
\* is kept, and the entries after it are still replayed.
Start(refused, stuck, readable) ==
  /\ ~up /\ Tick
  /\ faults' = faults + (IF refused \cup stuck = {} /\ readable THEN 0 ELSE 1)
  /\ faults' <= MaxFaults
  /\ LET replayed == ReplayHookSpool(store, refused)
     IN store' = IF readable THEN BackfillIdentities(replayed, now) ELSE replayed
  /\ spool' = refused \cup stuck
  /\ unheard' = unheard \cup OutOfTurn(refused \cup stuck)
  /\ up' = TRUE
  /\ UNCHANGED <<passwd, snapshots, restores, underway, hooks, passes>>

\* The service stops or dies, and all it was doing with it.  (A hook it was
\* serving finds its connection gone: NotTaken.  That it is served again
\* instead is allowed for.)
Stop ==
  /\ up /\ up' = FALSE /\ passes' = {} /\ underway' = {}
  /\ UNCHANGED <<now, passwd, store, snapshots, restores, hooks, spool, unheard, faults>>

Scheduled == \E p \in passes : p.by = NoOne
BackingUp == \E b \in underway : b.kind = "backup"

\* Schedule's ReconcileAccounts, in the loop that runs the backups
SchedulePass(refused, stuck) ==
  /\ up /\ ~Scheduled /\ ~BackingUp
  /\ BeginPass(store, NoOne, refused, stuck)
  /\ unheard' = unheard \cup OutOfTurn(spool')
  /\ UNCHANGED <<now, passwd, snapshots, restores, underway, hooks, up>>

\* The pass goes on to another name; the scheduler's ends with the last one
Written(p, n) ==
  LET rest == [p EXCEPT !.todo = @ \ {n}]
  IN passes' = (passes \ {p}) \cup (IF rest.todo = {} /\ p.by = NoOne THEN {} ELSE {rest})

\* A record that matched is written back as it was read, over a later one too
WriteBack(p, n) ==
  /\ Matches(p, n)
  /\ Written(p, n)
  /\ store' = [store EXCEPT !.ids[n] = p.known[n]]
  /\ unheard' = unheard \cup {m \in {n} : store.ids[m] # p.known[m]}
  /\ UNCHANGED <<now, passwd, snapshots, restores, underway, hooks, spool, up, faults>>

\* A rename is carried: renamePolicyAccount, the new record, the old one.  What
\* happened to either name since it was read is written over.
CarryRename(p, m, n) ==
  /\ m \in renamedFrom(p, n)
  /\ Written(p, n)
  /\ store' = renamed(store, p, m, n)
  /\ unheard' = unheard \cup {o \in {n, m} : store.ids[o] # p.known[o] \/ (o = m /\ Exists(m))}
  /\ UNCHANGED <<now, passwd, snapshots, restores, underway, hooks, spool, up, faults>>

\* Any other name is looked at afresh
NoteAfresh(p, n) ==
  /\ ~Matches(p, n) /\ renamedFrom(p, n) = {} /\ Exists(n) /\ Tick
  /\ Written(p, n)
  /\ store' = noteIdentity(store, n, now)
  /\ UNCHANGED <<passwd, snapshots, restores, underway, hooks, spool, up, unheard, faults>>

\* ... which ends the pass when the name has gone since
Gone(p) == \E n \in p.todo : ~Matches(p, n) /\ renamedFrom(p, n) = {} /\ ~Exists(n)

\* The rest of a pass is dropped: a name that has gone, or a list or a store
\* that cannot be read or written.  A hook that waits for it is answered 5xx.
PassFails(p) ==
  /\ faults' = faults + (IF Gone(p) /\ p.by \notin hooks THEN 0 ELSE 1)
  /\ faults' <= MaxFaults
  /\ passes' = passes \ {p}
  /\ Refuses({p.by} \cap hooks)
  /\ UNCHANGED <<now, passwd, store, snapshots, restores, underway, up>>

\* Every name is written, and a hook that waits is answered
PassEnds(p) ==
  /\ p.todo = {}
  /\ passes' = passes \ {p}
  /\ hooks' = hooks \ {p.by}
  /\ unheard' = unheard \cup (IF p.by = NoOne THEN {} ELSE NotCarried(p.by))
  /\ UNCHANGED <<now, passwd, store, snapshots, restores, underway, spool, up, faults>>

\* Work of a customer's that notes whose the name is, and is dated later
BeginWork(kind, n) ==
  /\ up /\ ~Busy /\ Exists(n) /\ Tick
  /\ store' = noteIdentity(store, n, now)
  /\ underway' = underway \cup {[kind |-> kind, name |-> n, at |-> now, owner |-> passwd[n].owner]}
  /\ UNCHANGED <<passwd, snapshots, restores, hooks, spool, up, passes, unheard, faults>>

\* runBackup up to the copy, in the loop that makes the scheduler's passes
Backup(n) == ~BackingUp /\ ~Scheduled /\ BeginWork("backup", n)

\* The handler of a customer's restore lists what they may see (OwnsSnapshot)
AskRestore(n) ==
  /\ Cardinality(restores) + Cardinality({b \in underway : b.kind = "restore"}) < MaxRestores
  /\ BeginWork("restore", n)

\* Names that another customer has now
ChangedHands(b) == {n \in {b.name} : Exists(n) /\ passwd[n].owner # b.owner}

\* The copy is made and dated: of whoever had the name when it was begun, or
\* of whoever has it now
Land(b) ==
  /\ b.kind = "backup" /\ Tick
  /\ \E owner \in {b.owner} \cup {passwd[n].owner : n \in {b.name} \cap Accounts} :
       /\ snapshots' = snapshots \cup {[name |-> b.name, at |-> now, owner |-> owner]}
       /\ unheard' = unheard \cup (IF owner = b.owner THEN ChangedHands(b) ELSE {})
  /\ underway' = underway \ {b}
  /\ UNCHANGED <<passwd, store, restores, hooks, spool, up, passes, faults>>

\* QueueRestore stamps the restore with the boundary of the name
QueueRestore(b) ==
  /\ b.kind = "restore" /\ Tick
  /\ restores' = restores \cup {[name |-> b.name, at |-> now, owner |-> b.owner,
                                 since |-> AccountSince(store, b.name)]}
  /\ unheard' = unheard \cup ChangedHands(b)
  /\ underway' = underway \ {b}
  /\ UNCHANGED <<passwd, store, snapshots, hooks, spool, up, passes, faults>>

-----------------------------------------------------------------------------
\* A server with accounts on it, before this service first starts.  A named
\* policy carried over from an earlier installation names some of them.
IdentityInit ==
  /\ now = 1
  /\ \E present \in SUBSET Names, uidOf \in [Names -> Uids] :
       /\ \A n, m \in present : n # m => uidOf[n] # uidOf[m]
       /\ passwd = [n \in Names |-> IF n \in present THEN [uid |-> uidOf[n], owner |-> <<n, 0>>]
                                    ELSE NoOne]
       /\ present # {}
       /\ store = [ids |-> [n \in Names |-> NoOne],
                   policy |-> [accounts |-> present, enabled |-> TRUE],
                   backfilled |-> FALSE]
  /\ snapshots = {} /\ restores = {} /\ underway = {} /\ hooks = {} /\ spool = {}
  /\ up = FALSE /\ passes = {} /\ unheard = {} /\ faults = 0

IdentityNext ==
  \/ \E n \in Names, u \in Uids : Create(n, u) \/ CreateQuietly(n, u)
  \/ \E n \in Names : Terminate(n) \/ Backup(n) \/ AskRestore(n)
  \/ \E n, m \in Names : Rename(n, m)
  \/ \E h \in hooks : ServeCreate(h) \/ ServeUnanswered(h) \/ NotTaken(h) \/ SpoolFails(h)
  \/ \E refused \in SUBSET spool, stuck \in SUBSET spool :
       \/ \E h \in hooks : ServeHook(h, refused, stuck)
       \/ SchedulePass(refused, stuck)
       \/ \E readable \in BOOLEAN : Start(refused, stuck, readable)
  \/ \E p \in passes :
       \/ PassFails(p) \/ PassEnds(p)
       \/ \E n \in p.todo :
            \/ WriteBack(p, n) \/ NoteAfresh(p, n)
            \/ \E m \in Names : CarryRename(p, m, n)
  \/ \E b \in underway : Land(b) \/ QueueRestore(b)
  \/ Stop

IdentitySpec == IdentityInit /\ [][IdentityNext]_identityVars

-----------------------------------------------------------------------------
\* Properties

IdentityTypeOK ==
  /\ now \in Nat /\ faults \in Nat /\ up \in BOOLEAN /\ unheard \subseteq Names
  /\ passwd \in [Names -> Holders \cup {NoOne}]
  /\ store \in Stores
  /\ snapshots \subseteq [name : Names, at : Nat, owner : Names \X Nat]
  /\ restores \subseteq [name : Names, at : Nat, owner : Names \X Nat, since : Nat]
  /\ hooks \subseteq Events
  /\ spool \subseteq {h \in Events : Spooled(h)}
  /\ underway \subseteq [kind : {"backup", "restore"}, name : Names, at : Nat, owner : Names \X Nat]
  /\ passes \subseteq
       [by : Events \cup {NoOne}, known : [Names -> Identities \cup {NoOne}], todo : SUBSET Names,
        uids : [Names -> Uids \cup {NoOne}]]

Holder(n) == passwd[n].owner

\* Everything that happened to the name has reached the store, in its turn
Settled(n) ==
  /\ Exists(n) /\ ~HookOn(n) /\ n \notin unheard
  /\ \A h \in spool : h.name # n

\* What a customer would be shown if they looked now
Shown(n) == UserSnapshots(noteIdentity(store, n, now), n)

\* Once every event on a name has reached the store, its holder is shown no
\* backup of anybody who held the name before them: UserSnapshots' filter.
ShowsOnlyTheirOwn ==
  \A n \in Names : Settled(n) => \A s \in Shown(n) : s.owner = Holder(n)

\* ... and no restore somebody else asked for under the name is run, or its
\* output handed over, as theirs: BelongsToCurrentHolder.
RestoreIsTheirOwn ==
  \A r \in restores :
    Settled(r.name) /\ BelongsToCurrentHolder(noteIdentity(store, r.name, now), r)
      => r.owner = Holder(r.name)

\* A policy that named its accounts is never left switched on with an empty
\* list, which would mean every account: AccountRemoved, renamePolicyAccount.
PolicyNeverWidens == store.policy.enabled => store.policy.accounts # {}

\* A backup of theirs that the holder of a name is shown stays in sight for
\* as long as they hold the name, every event on it is heard, and the service
\* fails nothing: no replay, pass or look moves the boundary past it.
OwnBackupsStayVisible ==
  [][\A n \in Names :
       /\ faults' = 0 /\ Exists(n) /\ passwd'[n] = passwd[n]
       /\ ~HookOn(n) /\ n \notin unheard'
       => \A s \in Shown(n) : s.owner = Holder(n) => s \in Shown(n)']_identityVars

\* A customer the named policy named is named by it still, under whatever
\* name they now have, once every event has been dealt with and the service
\* has recorded them under both names: a rename is carried across, so nobody
\* silently falls out of protection.
StaysProtected ==
  hooks = {} /\ spool = {} =>
    \A n \in Accounts :
      Holder(n)[2] = 0 /\ Known(store, Holder(n)[1]) /\ Known(store, n)
        => n \in store.policy.accounts
=============================================================================
