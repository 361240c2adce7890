---------------------------- MODULE Destinations ----------------------------
(* Where backups go: destinations, the repository kept at each, and the     *)
(* data that is really there.                                               *)
(*                                                                          *)
(* The state file gives one transaction for each get and each put, and      *)
(* every request, the hourly probe and the worker read a whole record, do   *)
(* something slow and write the whole record back.  A destination and its   *)
(* repository share one number here.                                        *)
EXTENDS Naturals, FiniteSets, FiniteSetsExt

CONSTANTS
    Procs,       \* requests, the probe and the worker, at once
    Places,      \* a server and a folder where a repository can be
    Theirs,      \* places where another server's backups are found
    Hosts,       \* host keys that may answer on an SFTP server's address
    MaxDests, MaxOps, MaxSwaps, MaxCrashes

Ids == 1..MaxDests
Nobody == MaxDests + 1   \* the server whose backups are at Theirs

ASSUME DestinationsAssumption ==
    /\ IsFiniteSet(Procs) /\ Theirs \subseteq Places /\ Hosts # {}
    /\ "none" \notin Places \cup Hosts
    /\ {MaxDests, MaxOps, MaxSwaps, MaxCrashes} \subseteq Nat

VARIABLES
    dest,     \* destination records: the place, and whether the last check failed
    repo,     \* repository records: what changes after they are made
    made,     \* and what does not: order, chunker source, whose password
    ids,      \* numbers handed out (NewID)
    data,     \* what is at each place: the password it opens with, its chunker
    home,     \* where a repository was created or found
    policy,   \* repositories the schedule names
    host,     \* who answers on the SFTP server's address
    agreed,   \* host keys an operator has been shown and has confirmed
    shown,
    sent,     \* host keys a password has been sent to
    proc,
    ops, swaps, crashes

records == <<dest, repo, made, ids>>
remote == <<data, home>>
ssh == <<host, agreed, shown, sent>>
counts == <<ops, swaps, crashes>>
vars == <<records, remote, policy, ssh, proc, counts>>

NoDest == [place |-> "none", down |-> FALSE]
NoRepo == [known |-> FALSE, init |-> FALSE, noted |-> FALSE]
NoData == [key |-> 0, chunk |-> 0]
Idle == [pc |-> "idle", id |-> 0, dest |-> NoDest, repo |-> NoRepo, todo |-> {},
         source |-> 0, pass |-> 0, from |-> NoDest, hostKey |-> "none", then |-> "idle"]

Init ==
    /\ dest = [i \in Ids |-> NoDest] /\ repo = [i \in Ids |-> NoRepo]
    /\ made = [i \in Ids |-> [born |-> 0, source |-> 0, pass |-> 0]] /\ ids = 0
    /\ data = [p \in Places |-> IF p \in Theirs THEN [key |-> Nobody, chunk |-> Nobody] ELSE NoData]
    /\ home = [i \in Ids |-> "none"]
    /\ policy = {}
    /\ host \in Hosts /\ agreed = {} /\ shown = {} /\ sent = {}
    /\ proc = [p \in Procs |-> Idle]
    /\ ops = 0 /\ swaps = 0 /\ crashes = 0

At(p, pc) == proc[p].pc = pc
Begins(p) == At(p, "idle") /\ ops < MaxOps /\ ops' = ops + 1 /\ UNCHANGED <<swaps, crashes>>
Goes(p, pc) == proc' = [proc EXCEPT ![p].pc = pc]
Ends(p) == proc' = [proc EXCEPT ![p] = Idle]

--------------------------------------------------------------------------
(* Adding a destination, and the repository that will live in it.          *)

\* PutDestination of a record that has no id yet.
PutDestination(p, place, pass, then) ==
    /\ ids < MaxDests /\ ids' = ids + 1
    /\ dest' = [dest EXCEPT ![ids'] = [place |-> place, down |-> FALSE]]
    /\ proc' = [proc EXCEPT ![p] = [Idle EXCEPT !.pc = "repository", !.id = ids',
                                                !.pass = pass, !.then = then]]

AddDestination(p) ==
    /\ Begins(p)
    /\ \E place \in Places : PutDestination(p, place, ids + 1, "test")
    /\ UNCHANGED <<repo, made, remote, policy, ssh>>

\* Attach: the password is proved by reading the repository before anything
\* is stored.
Attach(p) ==
    /\ Begins(p)
    /\ \E place \in Places :
          /\ data[place] # NoData /\ PutDestination(p, place, data[place].key, "attached")
          /\ home' = [home EXCEPT ![ids'] = place]
    /\ UNCHANGED <<repo, made, data, policy, ssh>>

Known == {i \in Ids : repo[i].known}
Oldest(S) == CHOOSE i \in S : \A j \in S : made[i].born <= made[j].born

\* The oldest repository, followed along its sources as far as they are known.
chunkerSource ==
    LET Root[n \in 0..MaxDests, i \in Ids] ==
          IF n = 0 \/ made[i].source \notin Known THEN i ELSE Root[n - 1, made[i].source]
    IN  IF Known = {} THEN 0 ELSE Root[Cardinality(Known), Oldest(Known)]

ReadRepositories(p) ==
    /\ At(p, "repository")
    /\ \E s \in Known \cup {0} :
          s = chunkerSource /\ proc' = [proc EXCEPT ![p].pc = "record", ![p].source = s]
    /\ UNCHANGED <<records, remote, policy, ssh, counts>>

\* An attached repository is already there, and its key came from elsewhere.
PutRepository(p) ==
    /\ At(p, "record")
    /\ LET i == proc[p].id
           attached == proc[p].then = "attached"
       IN  /\ repo' = [repo EXCEPT ![i] = [known |-> TRUE, init |-> attached, noted |-> attached]]
           /\ made' = [made EXCEPT ![i] = [born |-> Max({made[j].born : j \in Ids}) + 1,
                                           source |-> proc[p].source, pass |-> proc[p].pass]]
           /\ IF attached THEN Ends(p) ELSE Goes(p, proc[p].then)
    /\ UNCHANGED <<dest, ids, remote, policy, ssh, counts>>

--------------------------------------------------------------------------
(* An SFTP server: who answers is shown before anything is sent.           *)

\* Mutant: what was confirmed is not compared with what answers now.
ConfirmedAny(confirmed, key) == confirmed # "none"

\* The key that was confirmed is the one that answers.
Confirmed(confirmed, key) == confirmed = key

\* The host proves itself before anything is sent to it.
hostKeyOf(answering) == answering

\* A connection whose host key is pinned to the one that was fetched.
Pinned(p) == proc[p].hostKey = hostKeyOf(host)

\* AddSFTPDestination up to its first write.  The form carries the host key
\* it was shown with, if it has been shown one.
FetchHostKey(p) ==
    /\ Begins(p)
    /\ \E confirmed \in shown \cup {"none"} :
          /\ agreed' = agreed \cup ({confirmed} \ {"none"})
          /\ shown' = IF confirmed = "none" THEN shown \cup {hostKeyOf(host)} ELSE shown
          /\ proc' = IF Confirmed(confirmed, hostKeyOf(host))
                     THEN [proc EXCEPT ![p].pc = "install", ![p].hostKey = hostKeyOf(host)]
                     ELSE proc
    /\ UNCHANGED <<records, remote, policy, host, sent>>

\* The host key is pinned to what was fetched, so whoever answers in the
\* meantime gets nothing.  A failure takes the files made so far away.
InstallAuthorizedKey(p) ==
    /\ At(p, "install")
    /\ \/ /\ Pinned(p)
          /\ sent' = sent \cup {host}
          /\ \E place \in Places : PutDestination(p, place, ids + 1, "provision")
       \/ /\ sent' \in {sent, IF Pinned(p) THEN sent \cup {host} ELSE sent}
          /\ Ends(p) /\ UNCHANGED <<dest, ids>>
    /\ UNCHANGED <<repo, made, remote, policy, host, agreed, shown, counts>>

\* Without a password nothing is sent; the key is for the operator to install.
KeyToInstall(p) ==
    /\ At(p, "install")
    /\ \E place \in Places : PutDestination(p, place, ids + 1, "provision")
    /\ UNCHANGED <<repo, made, remote, policy, ssh, counts>>

--------------------------------------------------------------------------
(* Checking, changing and removing one.                                    *)

\* A check reads the record, reaches for the server for up to half a minute
\* and writes the record back as it read it.
Reads(p, i, then) ==
    /\ dest[i] # NoDest
    /\ proc' = [proc EXCEPT ![p] = [Idle EXCEPT !.pc = "preflight", !.id = i, !.dest = dest[i], !.then = then]]

probeDestinations(p) ==
    /\ Begins(p) /\ \E i \in Ids : Reads(p, i, "idle")
    /\ UNCHANGED <<records, remote, policy, ssh>>

handleTestDestination(p) ==
    /\ Begins(p) /\ \E i \in Ids : Reads(p, i, "provision")
    /\ UNCHANGED <<records, remote, policy, ssh>>

TestDestination(p) ==
    /\ At(p, "test")
    /\ Reads(p, proc[p].id, "provision") \/ (dest[proc[p].id] = NoDest /\ Ends(p))
    /\ UNCHANGED <<records, remote, policy, ssh, counts>>

Preflight(p) ==
    /\ At(p, "preflight")
    /\ \E down \in BOOLEAN :
          /\ dest' = [dest EXCEPT ![proc[p].id] = [proc[p].dest EXCEPT !.down = down]]
          /\ IF ~down /\ proc[p].then # "idle" THEN Goes(p, proc[p].then) ELSE Ends(p)
    /\ UNCHANGED <<repo, made, ids, remote, policy, ssh, counts>>

handleEditDestination(p) ==
    /\ Begins(p)
    /\ \E i \in Ids, place \in Places :
          /\ dest[i] # NoDest
          /\ proc' = [proc EXCEPT ![p] = [Idle EXCEPT !.pc = "save", !.id = i,
                                                      !.dest = [dest[i] EXCEPT !.place = place]]]
    /\ UNCHANGED <<records, remote, policy, ssh>>

SaveDestination(p) ==
    /\ At(p, "save")
    /\ dest' = [dest EXCEPT ![proc[p].id] = proc[p].dest] /\ Goes(p, "test")
    /\ UNCHANGED <<repo, made, ids, remote, policy, ssh, counts>>

\* Refused while a schedule names it; the look and the deletes are separate.
\* The repositories and the schedules, two reads in the code, are one here.
DeleteDestination(p) ==
    /\ Begins(p)
    /\ \E i \in Ids :
          /\ dest[i] # NoDest /\ ~(repo[i].known /\ i \in policy)
          /\ proc' = [proc EXCEPT ![p] = [Idle EXCEPT !.pc = "deleting", !.id = i, !.repo = repo[i]]]
    /\ UNCHANGED <<records, remote, policy, ssh>>

DeleteRepository(p) ==
    /\ At(p, "deleting") /\ Goes(p, "deleted")
    /\ repo' = IF proc[p].repo.known THEN [repo EXCEPT ![proc[p].id] = NoRepo] ELSE repo
    /\ UNCHANGED <<dest, made, ids, remote, policy, ssh, counts>>

DeletesDestination(p) ==
    /\ At(p, "deleted") /\ Ends(p)
    /\ dest' = [dest EXCEPT ![proc[p].id] = NoDest]
    /\ UNCHANGED <<repo, made, ids, remote, policy, ssh, counts>>

--------------------------------------------------------------------------
(* The recovery key and the schedule.                                      *)

NoteRecoveryKey(p) ==
    /\ Begins(p)
    /\ \E i \in Known :
          proc' = [proc EXCEPT ![p] = [Idle EXCEPT !.pc = "note", !.id = i,
                                                   !.repo = [repo[i] EXCEPT !.noted = TRUE]]]
    /\ UNCHANGED <<records, remote, policy, ssh>>

PutNoted(p) ==
    /\ At(p, "note") /\ Ends(p)
    /\ repo' = [repo EXCEPT ![proc[p].id] = proc[p].repo]
    /\ UNCHANGED <<dest, made, ids, remote, policy, ssh, counts>>

\* A schedule that is switched on waits for the recovery keys.  One that is not
\* is stored without them and can be run by hand, so they are no condition here.
handleSaveSchedule(p) ==
    /\ Begins(p)
    /\ \E R \in SUBSET (1..ids) \ {{}} :
          proc' = [proc EXCEPT ![p] = [Idle EXCEPT !.pc = "schedule", !.todo = R]]
    /\ UNCHANGED <<records, remote, policy, ssh>>

PutPolicy(p) ==
    /\ At(p, "schedule") /\ Ends(p) /\ policy' = proc[p].todo
    /\ UNCHANGED <<records, remote, ssh, counts>>

handleDeleteSchedule(p) ==
    /\ Begins(p) /\ policy # {} /\ policy' = {}
    /\ UNCHANGED <<records, remote, ssh, proc>>

\* A backup creates what is missing first, and goes on if it cannot.
runBackup(p) ==
    /\ Begins(p) /\ policy # {} /\ Goes(p, "provision")
    /\ UNCHANGED <<records, remote, policy, ssh>>

--------------------------------------------------------------------------
(* Creating repositories.                                                  *)

EnsureProvisioned(p) ==
    /\ At(p, "provision")
    /\ proc' = [proc EXCEPT ![p] = [Idle EXCEPT !.pc = "open", !.todo = {i \in Known : ~repo[i].init}]]
    /\ UNCHANGED <<records, remote, policy, ssh, counts>>

\* OpenRepository reads the repository and its destination again.
OpenRepository(i) == i \in Known /\ dest[i] # NoDest

\* Mutant: a source that cannot be opened is done without.
OpensAlone(i) == OpenRepository(i)

\* Target and chunker source must both open; otherwise nothing is created.
Opens(i) == OpenRepository(i) /\ (made[i].source # 0 => OpenRepository(made[i].source))

Open(p) ==
    /\ At(p, "open")
    /\ LET i == Oldest(proc[p].todo)
           s == made[i].source
       IN  IF proc[p].todo # {} /\ Opens(i)
           THEN proc' = [proc EXCEPT ![p].pc = "init", ![p].id = i, ![p].dest = dest[i],
                           ![p].source = IF s # 0 /\ OpenRepository(s) THEN s ELSE 0,
                           ![p].from = IF s # 0 THEN dest[s] ELSE NoDest]
           ELSE Ends(p)
    /\ UNCHANGED <<records, remote, policy, ssh, counts>>

\* restic opens the source with the source's own password.
Readable(place, pass) == place \in Places /\ data[place].key = pass

\* restic init: the repository is made, with the source's chunker or a new one.
InitRepository(p) ==
    /\ At(p, "init")
    /\ LET i == proc[p].id
           s == proc[p].source
       IN  /\ data[proc[p].dest.place] = NoData
           /\ s # 0 => Readable(proc[p].from.place, made[s].pass)
           /\ data' = [data EXCEPT ![proc[p].dest.place] =
                         [key |-> made[i].pass, chunk |-> IF s = 0 THEN i ELSE data[proc[p].from.place].chunk]]
           /\ home' = [home EXCEPT ![i] = proc[p].dest.place]
    /\ Goes(p, "mark")
    /\ UNCHANGED <<records, policy, ssh, counts>>

\* Mutant: a repository that is already there is taken for the one just made.
InitRefusedMarks(p) ==
    IF data[proc[p].dest.place] # NoData THEN Goes(p, "mark") ELSE Ends(p)

\* repositoryAlreadyThere and every other failure end the provisioning.
InitRefused(p) == Ends(p)

InitFails(p) ==
    /\ At(p, "init") /\ InitRefused(p)
    /\ UNCHANGED <<records, remote, policy, ssh, counts>>

MarkRepositoryInitialised(p) ==
    /\ At(p, "mark")
    /\ LET i == proc[p].id
       IN  IF repo[i].known
           THEN proc' = [proc EXCEPT ![p].pc = "marking", ![p].repo = [repo[i] EXCEPT !.init = TRUE]]
           ELSE Ends(p)
    /\ UNCHANGED <<records, remote, policy, ssh, counts>>

PutMarked(p) ==
    /\ At(p, "marking")
    /\ repo' = [repo EXCEPT ![proc[p].id] = proc[p].repo]
    /\ proc' = [proc EXCEPT ![p].pc = "open", ![p].todo = @ \ {proc[p].id}]
    /\ UNCHANGED <<dest, made, ids, remote, policy, ssh, counts>>

--------------------------------------------------------------------------
(* Around it.                                                              *)

\* Another machine answers on the SFTP server's address.
HostChanges ==
    /\ swaps < MaxSwaps /\ swaps' = swaps + 1 /\ host' \in Hosts \ {host}
    /\ UNCHANGED <<records, remote, policy, agreed, shown, sent, proc, ops, crashes>>

\* The process dies; records and remote data stay as they are.
Crash ==
    /\ crashes < MaxCrashes /\ crashes' = crashes + 1
    /\ proc' = [p \in Procs |-> Idle]
    /\ UNCHANGED <<records, remote, policy, ssh, ops, swaps>>

Next ==
    \/ \E p \in Procs :
          \/ AddDestination(p) \/ Attach(p) \/ ReadRepositories(p) \/ PutRepository(p)
          \/ FetchHostKey(p) \/ InstallAuthorizedKey(p) \/ KeyToInstall(p)
          \/ probeDestinations(p) \/ handleTestDestination(p) \/ TestDestination(p) \/ Preflight(p)
          \/ handleEditDestination(p) \/ SaveDestination(p)
          \/ DeleteDestination(p) \/ DeleteRepository(p) \/ DeletesDestination(p)
          \/ NoteRecoveryKey(p) \/ PutNoted(p)
          \/ handleSaveSchedule(p) \/ PutPolicy(p) \/ handleDeleteSchedule(p) \/ runBackup(p)
          \/ EnsureProvisioned(p) \/ Open(p) \/ InitRepository(p) \/ InitFails(p)
          \/ MarkRepositoryInitialised(p) \/ PutMarked(p)
    \/ HostChanges \/ Crash

Spec == Init /\ [][Next]_vars

--------------------------------------------------------------------------
(* Properties.                                                             *)

\* A repository recorded as created is one this server can read: the data at
\* the place where it was created or found opens with the recorded password,
\* whoever else was adding, editing, deleting or creating, and wherever the
\* process died.
MarkedIsReadable ==
    \A i \in Ids : repo[i].known /\ repo[i].init => home[i] # "none" /\ data[home[i]].key = made[i].pass

\* A repository this server created for a record with a chunker source splits
\* files the way that source does, so that snapshots can be copied between
\* them: there is never a plain init for it.
ChunksFollowTheSource ==
    \A i \in Ids :
       LET s == made[i].source
       IN  home[i] # "none" /\ s # 0 /\ made[i].pass = i =>
              \E x \in Places : data[x].key = made[s].pass /\ data[x].chunk = data[home[i]].chunk

\* A password is sent only to a server whose host key an operator was shown
\* and confirmed, whoever answers on its address between the requests.
PasswordOnlyToAgreedHost == sent \subseteq agreed
==========================================================================
