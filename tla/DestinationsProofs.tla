------------------------- MODULE DestinationsProofs -------------------------
(* What holds of the destinations for any number of requests at once, any   *)
(* number of destinations and hosts, and wherever the process dies.         *)
EXTENDS Destinations, TLAPS

(* Records, and what the requests have in their hands.                      *)
Dests == [place: Places \cup {"none"}, down: BOOLEAN]
Repos == [known: BOOLEAN, init: BOOLEAN, noted: BOOLEAN]
Steps == {"idle", "repository", "record", "install", "preflight", "test", "save", "deleting", "deleted",
          "note", "schedule", "provision", "open", "init", "mark", "marking"}
Hands ==
    [pc: Steps, id: Ids \cup {0}, dest: Dests, repo: Repos, todo: SUBSET Ids, source: Ids \cup {0},
     pass: 0..Nobody, from: Dests, hostKey: Hosts \cup {"none"},
     then: {"idle", "test", "provision", "attached"}]

(* When a record was made is left open: nothing below depends on it.        *)
TypeOK ==
    /\ dest \in [Ids -> Dests] /\ repo \in [Ids -> Repos]
    /\ DOMAIN made = Ids /\ \A i \in Ids : made[i].source \in Ids \cup {0} /\ made[i].pass \in 0..Nobody
    /\ ids \in 0..MaxDests
    /\ data \in [Places -> [key: 0..Nobody, chunk: 0..Nobody]]
    /\ home \in [Ids -> Places \cup {"none"}]
    /\ host \in Hosts /\ agreed \subseteq Hosts /\ shown \subseteq Hosts
    /\ proc \in [Procs -> Hands]

(* A record of a repository has been made once it has a password.           *)
Made(i) == made[i].pass # 0

(* Numbers are handed out in order, and a password is another server's or   *)
(* was made for a number that has been handed out.                          *)
Passwords == {Nobody} \cup 1..ids

NumbersAreFresh ==
    /\ \A i \in Ids : i > ids => ~Made(i) /\ home[i] = "none"
    /\ \A i \in Ids : Made(i) => made[i].pass \in Passwords
    /\ \A x \in Places : data[x] = NoData \/ data[x].key \in Passwords

(* What is in a place opens with the password recorded for it.              *)
HomesAreReadable ==
    /\ \A i \in Ids : repo[i].known => Made(i)
    /\ \A i \in Ids : repo[i].init => home[i] # "none"
    /\ \A i \in Ids : home[i] # "none" =>
          data[home[i]] # NoData /\ (Made(i) => data[home[i]].key = made[i].pass)

(* The source a repository of this server was created from keeps its place. *)
ChunksKept ==
    \A i \in Ids : home[i] # "none" /\ made[i].source # 0 /\ made[i].pass = i =>
       /\ Made(made[i].source)
       /\ \E x \in Places : data[x].key = made[made[i].source].pass /\ data[x].chunk = data[home[i]].chunk

Making(p) == proc[p].pc \in {"repository", "record"}

(* A record in the making is nobody else's, and its password is proved.     *)
Proved(h) ==
    /\ h.id \in 1..ids /\ ~Made(h.id) /\ h.pass \in Passwords
    /\ h.then \in {"test", "provision", "attached"}
    /\ h.then = "attached" =>
          home[h.id] # "none" /\ data[home[h.id]].key = h.pass /\ h.pass # h.id
    /\ h.then # "attached" => home[h.id] = "none"

MakingIsAlone ==
    /\ \A p \in Procs : Making(p) => Proved(proc[p])
    /\ \A p, q \in Procs : Making(p) /\ Making(q) /\ proc[p].id = proc[q].id => p = q

(* What a request holds is still true of the records when it is written     *)
(* back, whoever wrote in between.                                          *)
HandTrue(h) ==
    /\ h.pc \notin {"idle", "install", "schedule", "provision", "open"} => h.id \in Ids
    /\ h.pc \in {"preflight", "save", "init"} => h.dest.place \in Places
    /\ h.pc = "preflight" => h.then \in {"idle", "provision"}
    /\ h.pc \in {"init", "mark", "marking"} => Made(h.id)
    /\ h.pc = "init" => h.source = made[h.id].source /\ (h.source # 0 => Made(h.source))
    /\ h.pc \in {"mark", "marking"} => home[h.id] # "none"
    /\ h.pc \in {"note", "marking"} => (h.repo.known => Made(h.id)) /\ (h.repo.init => home[h.id] # "none")
    /\ h.pc = "install" => h.hostKey \in agreed

HandsAreTrue == \A p \in Procs : HandTrue(proc[p])

(* A destination that is there is at a place.                               *)
DestsArePlaced == \A i \in Ids : dest[i] = NoDest \/ dest[i].place \in Places

DestInv ==
    /\ TypeOK /\ NumbersAreFresh /\ HomesAreReadable /\ ChunksKept
    /\ MakingIsAlone /\ HandsAreTrue /\ DestsArePlaced /\ PasswordOnlyToAgreedHost

-----------------------------------------------------------------------------
(* What every step leaves standing                                          *)

(* A record that was made, a home that was found and data that was written  *)
(* stay as they are; numbers and host keys that were agreed to only grow.   *)
Lasting ==
    /\ \A i \in Ids : Made(i) => made'[i] = made[i]
    /\ \A i \in Ids : home[i] # "none" => home'[i] # "none"
    /\ \A x \in Places : data[x] # NoData => data'[x] = data[x]
    /\ ids' \in Nat /\ ids <= ids' /\ agreed \subseteq agreed'

LEMMA BoundsAre == MaxDests \in Nat /\ Nobody \in Nat /\ Nobody = MaxDests + 1 /\ Ids = 1..MaxDests
BY DestinationsAssumption DEF Ids, Nobody

LEMMA EmptyHands ==
    /\ Idle \in Hands /\ Idle.pc = "idle" /\ NoDest \in Dests /\ NoRepo \in Repos
    /\ ~NoRepo.known /\ ~NoRepo.init /\ NoDest.place = "none"
BY BoundsAre DEF Idle, Hands, Steps, Dests, Repos, NoDest, NoRepo

LEMMA HandStays ==
    ASSUME TypeOK, NEW h \in Hands, HandTrue(h), Lasting
    PROVE  HandTrue(h)'
<1>1. h.id \in Ids \cup {0} /\ h.source \in Ids \cup {0} /\ 0 \notin Ids
  BY BoundsAre DEF Hands
<1>2. \A i \in Ids : Made(i) => Made(i)' /\ made'[i] = made[i]
  BY DEF Lasting, Made
<1>. QED  BY <1>1, <1>2 DEF HandTrue, Lasting

(* The requests a step is not about keep what they have.                    *)
LEMMA OthersKeepHands ==
    ASSUME DestInv, Lasting, NEW p \in Procs, NEW h \in Hands, HandTrue(h)',
           proc' = [proc EXCEPT ![p] = h]
    PROVE  HandsAreTrue' /\ proc' \in [Procs -> Hands]
<1>1. proc \in [Procs -> Hands] /\ TypeOK
  BY DEF DestInv, TypeOK
<1>2. ASSUME NEW q \in Procs PROVE HandTrue(proc[q])' /\ proc'[q] \in Hands
  <2>1. CASE q = p
    <3>1. proc'[q] = h
      BY <1>1, <2>1
    <3>. QED  BY <3>1 DEF HandTrue, Made
  <2>2. CASE q # p
    <3>1. proc'[q] = proc[q] /\ proc[q] \in Hands /\ HandTrue(proc[q])
      BY <1>1, <2>2 DEF DestInv, HandsAreTrue
    <3>2. \A f \in Hands : HandTrue(f) => HandTrue(f)'
      BY <1>1, HandStays
    <3>. QED  BY <3>1, <3>2 DEF HandTrue, Made
  <2>. QED  BY <2>1, <2>2
<1>. QED  BY <1>1, <1>2 DEF HandsAreTrue

(* A record in the making stays its request's own and stays proved.         *)
LEMMA OthersKeepMaking ==
    ASSUME DestInv, Lasting, NEW p \in Procs, NEW h \in Hands,
           proc' = [proc EXCEPT ![p] = h],
           h.pc \in {"repository", "record"} =>
              Proved(h)' /\ \A q \in Procs \ {p} : Making(q) => proc[q].id # h.id,
           \A q \in Procs \ {p} : Making(q) =>
              made'[proc[q].id] = made[proc[q].id] /\ home'[proc[q].id] = home[proc[q].id]
    PROVE  MakingIsAlone'
<1>1. proc \in [Procs -> Hands] /\ proc' \in [Procs -> Hands] /\ proc'[p] = h
      /\ \A q \in Procs \ {p} : proc'[q] = proc[q]
  BY DEF DestInv, TypeOK
<1>2. \A q \in Procs \ {p} : Making(q)' => Making(q) /\ proc'[q] = proc[q]
  BY <1>1 DEF Making
<1>3. ASSUME NEW q \in Procs, NEW o \in Procs, (Making(q) /\ Making(o) /\ proc[q].id = proc[o].id)'
      PROVE  q = o
  <2>1. CASE q # p /\ o # p
    BY <1>2, <1>3, <2>1 DEF DestInv, MakingIsAlone
  <2>2. CASE q = p /\ o # p
    BY <1>1, <1>2, <1>3, <2>2 DEF Making
  <2>3. CASE q # p /\ o = p
    BY <1>1, <1>2, <1>3, <2>3 DEF Making
  <2>. QED  BY <2>1, <2>2, <2>3
<1>4. ids \in Nat /\ ids' \in Nat /\ ids <= ids' /\ ids <= MaxDests
  BY BoundsAre DEF DestInv, TypeOK, Lasting
<1>5. ASSUME NEW q \in Procs, q # p, Making(q)' PROVE Proved(proc[q])'
  <2>. DEFINE g == proc[q]
  <2>1. Making(q) /\ q # p /\ g' = g
    BY <1>2, <1>5
  <2>2. g \in Hands /\ Proved(g)
    BY <1>1, <2>1 DEF DestInv, MakingIsAlone
  <2>3. made'[g.id] = made[g.id] /\ home'[g.id] = home[g.id]
    BY <2>1
  <2>4. g.id \in Ids
    BY <1>4, <2>2, BoundsAre DEF Proved
  <2>5. home[g.id] # "none" => data'[home[g.id]] = data[home[g.id]]
    BY <2>4 DEF DestInv, TypeOK, HomesAreReadable, Lasting
  <2>. HIDE DEF g
  <2>6. /\ g.id \in 1..ids' /\ g.pass \in Passwords'
    <3>1. g.id \in 1..ids /\ g.pass \in {Nobody} \cup 1..ids
      BY <2>2 DEF Proved, Passwords
    <3>. QED  BY <1>4, <3>1 DEF Passwords, Lasting
  <2>7. Proved(g)'
    BY <2>1, <2>2, <2>3, <2>5, <2>6 DEF Proved, Made
  <2>. QED  BY <2>7 DEF g
<1>6. Making(p)' => Proved(proc[p])'
  BY <1>1 DEF Making, Proved, Made
<1>. QED  BY <1>3, <1>5, <1>6 DEF MakingIsAlone

(* Steps that make no record, hand out no number and write no data: what a  *)
(* request writes back of a destination or a repository is what it held.    *)
LEMMA QuietKeeps ==
    ASSUME DestInv, NEW p \in Procs, NEW h \in Hands, HandTrue(h),
           proc' = [proc EXCEPT ![p] = h], h.pc \notin {"repository", "record"},
           UNCHANGED <<made, ids, data, home, host, agreed, shown, sent>>,
           dest' \in [Ids -> Dests], DestsArePlaced', repo' \in [Ids -> Repos],
           \A i \in Ids : repo'[i].known => Made(i),
           \A i \in Ids : repo'[i].init => home[i] # "none"
    PROVE  DestInv'
<1>1. Lasting
  <2>1. ids <= ids
    BY BoundsAre DEF DestInv, TypeOK
  <2>. QED  BY <2>1, BoundsAre DEF Lasting, DestInv, TypeOK
<1>2. HandTrue(h)'
  BY DEF HandTrue, Made
<1>3. HandsAreTrue' /\ proc' \in [Procs -> Hands]
  BY <1>1, <1>2, OthersKeepHands
<1>4. MakingIsAlone'
  BY <1>1, OthersKeepMaking
<1>5. TypeOK'
  BY <1>3 DEF DestInv, TypeOK
<1>6. NumbersAreFresh' /\ ChunksKept' /\ PasswordOnlyToAgreedHost'
  BY DEF DestInv, NumbersAreFresh, ChunksKept, PasswordOnlyToAgreedHost, Made, Passwords
<1>7. HomesAreReadable'
  BY DEF DestInv, HomesAreReadable, Made
<1>. QED  BY <1>3, <1>4, <1>5, <1>6, <1>7 DEF DestInv

-----------------------------------------------------------------------------
(* What each kind of step puts into a request's hands                       *)

(* A request that goes on keeps what it holds.                              *)
LEMMA GoingOn ==
    ASSUME proc \in [Procs -> Hands], NEW p \in Procs, NEW pc \in Steps, Goes(p, pc)
    PROVE  \E h \in Hands :
              /\ proc' = [proc EXCEPT ![p] = h] /\ h.pc = pc
              /\ h.id = proc[p].id /\ h.dest = proc[p].dest /\ h.repo = proc[p].repo
              /\ h.todo = proc[p].todo /\ h.source = proc[p].source /\ h.pass = proc[p].pass
              /\ h.from = proc[p].from /\ h.hostKey = proc[p].hostKey /\ h.then = proc[p].then
<1>. DEFINE g == proc[p]  h == [g EXCEPT !.pc = pc]
<1>1. g \in Hands /\ proc' = [proc EXCEPT ![p] = h]
  BY DEF Goes
<1>2. /\ h \in Hands /\ h.pc = pc /\ h.id = g.id /\ h.dest = g.dest /\ h.repo = g.repo
      /\ h.todo = g.todo /\ h.source = g.source /\ h.pass = g.pass
      /\ h.from = g.from /\ h.hostKey = g.hostKey /\ h.then = g.then
  <2>. HIDE DEF g
  <2>. QED  BY <1>1 DEF Hands
<1>. HIDE DEF h
<1>. QED  BY <1>1, <1>2 DEF g

LEMMA Ending ==
    ASSUME NEW p \in Procs, Ends(p)
    PROVE  proc' = [proc EXCEPT ![p] = Idle] /\ Idle \in Hands /\ HandTrue(Idle)
BY EmptyHands DEF Ends, HandTrue

(* A step that writes nothing but what its request holds.                   *)
LEMMA NothingWritten ==
    ASSUME DestInv, NEW p \in Procs, NEW h \in Hands, HandTrue(h), h.pc \notin {"repository", "record"},
           proc' = [proc EXCEPT ![p] = h], UNCHANGED <<records, remote, ssh>>
    PROVE  DestInv'
BY QuietKeeps DEF records, remote, ssh, DestInv, TypeOK, HomesAreReadable, DestsArePlaced

(* A check of a destination holds its record as it was read.                *)
LEMMA ReadsKeeps ==
    ASSUME DestInv, NEW p \in Procs, NEW i \in Ids, NEW then \in {"idle", "provision"}, Reads(p, i, then),
           UNCHANGED <<records, remote, ssh>>
    PROVE  DestInv'
<1>. DEFINE h == [Idle EXCEPT !.pc = "preflight", !.id = i, !.dest = dest[i], !.then = then]
<1>1. dest[i] # NoDest /\ proc' = [proc EXCEPT ![p] = h]
  BY DEF Reads
<1>2. dest[i] \in Dests /\ dest[i].place \in Places
  BY <1>1 DEF DestInv, TypeOK, DestsArePlaced
<1>3. h \in Hands
  BY <1>2, EmptyHands DEF Hands, Steps
<1>4. h.pc = "preflight" /\ h.id = i /\ h.dest = dest[i] /\ h.then = then
  BY EmptyHands DEF Hands
<1>. HIDE DEF h
<1>5. HandTrue(h)
  BY <1>2, <1>4 DEF HandTrue
<1>. QED  BY <1>1, <1>3, <1>4, <1>5, NothingWritten

(* Looking: at a destination, at what may be deleted or noted, at what is   *)
(* to be provisioned.                                                       *)
LEMMA LookingKeeps ==
    ASSUME DestInv, NEW p \in Procs,
           \/ probeDestinations(p) \/ handleTestDestination(p) \/ TestDestination(p)
           \/ handleEditDestination(p) \/ DeleteDestination(p) \/ NoteRecoveryKey(p)
    PROVE  DestInv'
<1>. USE BoundsAre
<1>0. UNCHANGED <<records, remote, ssh>> /\ TypeOK /\ HandTrue(proc[p]) /\ proc[p] \in Hands
  BY DEF probeDestinations, handleTestDestination, TestDestination, handleEditDestination,
         DeleteDestination, NoteRecoveryKey, DestInv, HandsAreTrue, TypeOK
<1>1. CASE probeDestinations(p) \/ handleTestDestination(p)
  BY <1>0, <1>1, ReadsKeeps DEF probeDestinations, handleTestDestination
<1>2. CASE TestDestination(p)
  <2>1. CASE Reads(p, proc[p].id, "provision")
    <3>1. proc[p].id \in Ids
      BY <1>0, <1>2 DEF TestDestination, At, HandTrue
    <3>. QED  BY <1>0, <2>1, <3>1, ReadsKeeps
  <2>2. CASE Ends(p)
    BY <1>0, <2>2, Ending, EmptyHands, NothingWritten
  <2>. QED  BY <1>2, <2>1, <2>2 DEF TestDestination
<1>3. CASE handleEditDestination(p)
  <2>1. PICK i \in Ids, place \in Places :
           /\ dest[i] # NoDest
           /\ proc' = [proc EXCEPT ![p] = [Idle EXCEPT !.pc = "save", !.id = i,
                                                       !.dest = [dest[i] EXCEPT !.place = place]]]
    BY <1>3 DEF handleEditDestination
  <2>. DEFINE d == [dest[i] EXCEPT !.place = place]
              h == [Idle EXCEPT !.pc = "save", !.id = i, !.dest = d]
  <2>2. d \in Dests /\ d.place = place
    BY <1>0 DEF TypeOK, Dests
  <2>. HIDE DEF d
  <2>3. h \in Hands
    BY <2>2, EmptyHands DEF Hands, Steps
  <2>4. h.pc = "save" /\ h.id = i /\ h.dest = d
    BY EmptyHands DEF Hands
  <2>5. proc' = [proc EXCEPT ![p] = h]
    BY <2>1 DEF d
  <2>. HIDE DEF h
  <2>6. HandTrue(h)
    BY <2>2, <2>4 DEF HandTrue
  <2>. QED  BY <1>0, <2>3, <2>4, <2>5, <2>6, NothingWritten
<1>4. CASE DeleteDestination(p)
  <2>1. PICK i \in Ids :
           proc' = [proc EXCEPT ![p] = [Idle EXCEPT !.pc = "deleting", !.id = i, !.repo = repo[i]]]
    BY <1>4 DEF DeleteDestination
  <2>. DEFINE h == [Idle EXCEPT !.pc = "deleting", !.id = i, !.repo = repo[i]]
  <2>2. h \in Hands
    BY <1>0, EmptyHands DEF Hands, Steps, TypeOK
  <2>3. h.pc = "deleting" /\ h.id = i
    BY EmptyHands DEF Hands
  <2>4. proc' = [proc EXCEPT ![p] = h]
    BY <2>1
  <2>. HIDE DEF h
  <2>5. HandTrue(h)
    BY <2>3 DEF HandTrue
  <2>. QED  BY <1>0, <2>2, <2>3, <2>4, <2>5, NothingWritten
<1>5. CASE NoteRecoveryKey(p)
  <2>1. PICK i \in Known :
           proc' = [proc EXCEPT ![p] = [Idle EXCEPT !.pc = "note", !.id = i,
                                                    !.repo = [repo[i] EXCEPT !.noted = TRUE]]]
    BY <1>5 DEF NoteRecoveryKey
  <2>. DEFINE r == [repo[i] EXCEPT !.noted = TRUE]
              h == [Idle EXCEPT !.pc = "note", !.id = i, !.repo = r]
  <2>2. i \in Ids /\ r \in Repos /\ r.known = repo[i].known /\ r.init = repo[i].init
    BY <1>0 DEF TypeOK, Repos, Known
  <2>. HIDE DEF r
  <2>3. h \in Hands
    BY <2>2, EmptyHands DEF Hands, Steps
  <2>4. h.pc = "note" /\ h.id = i /\ h.repo = r
    BY EmptyHands DEF Hands
  <2>5. proc' = [proc EXCEPT ![p] = h]
    BY <2>1 DEF r
  <2>. HIDE DEF h
  <2>6. HandTrue(h)
    BY <2>2, <2>4 DEF HandTrue, DestInv, HomesAreReadable
  <2>. QED  BY <1>0, <2>3, <2>4, <2>5, <2>6, NothingWritten
<1>. QED  BY <1>1, <1>2, <1>3, <1>4, <1>5

LEMMA StandsStill == DestInv /\ UNCHANGED <<records, remote, ssh, proc>> => DestInv'
<1>. SUFFICES ASSUME DestInv, UNCHANGED <<dest, repo, made, ids, data, home, host, agreed, shown, sent, proc>>
              PROVE  DestInv'
  BY DEF records, remote, ssh
<1>1. TypeOK' /\ NumbersAreFresh' /\ HomesAreReadable' /\ ChunksKept'
  BY DEF DestInv, TypeOK, NumbersAreFresh, HomesAreReadable, ChunksKept, Made, Passwords
<1>2. MakingIsAlone'
  BY DEF DestInv, MakingIsAlone, Making, Proved, Made, Passwords
<1>3. HandsAreTrue' /\ DestsArePlaced' /\ PasswordOnlyToAgreedHost'
  BY DEF DestInv, HandsAreTrue, HandTrue, DestsArePlaced, PasswordOnlyToAgreedHost, Made
<1>. QED  BY <1>1, <1>2, <1>3 DEF DestInv

(* The schedule, and the work that starts from it.                          *)
LEMMA SchedulingKeeps ==
    ASSUME DestInv, NEW p \in Procs,
           \/ handleSaveSchedule(p) \/ PutPolicy(p) \/ handleDeleteSchedule(p) \/ runBackup(p)
           \/ EnsureProvisioned(p) \/ InitFails(p) \/ MarkRepositoryInitialised(p)
    PROVE  DestInv'
<1>. USE BoundsAre
<1>0. /\ UNCHANGED <<records, remote, ssh>> /\ TypeOK /\ proc \in [Procs -> Hands]
      /\ HandTrue(proc[p]) /\ proc[p] \in Hands
  BY DEF handleSaveSchedule, PutPolicy, handleDeleteSchedule, runBackup, EnsureProvisioned, InitFails,
         MarkRepositoryInitialised, DestInv, HandsAreTrue, TypeOK
<1>1. ASSUME NEW pc \in {"schedule", "open"}, NEW T \in SUBSET Ids,
             proc' = [proc EXCEPT ![p] = [Idle EXCEPT !.pc = pc, !.todo = T]]
      PROVE  DestInv'
  <2>. DEFINE h == [Idle EXCEPT !.pc = pc, !.todo = T]
  <2>1. h \in Hands /\ proc' = [proc EXCEPT ![p] = h]
    BY <1>1, EmptyHands DEF Hands, Steps
  <2>2. h.pc = pc
    BY EmptyHands DEF Hands
  <2>. HIDE DEF h
  <2>3. HandTrue(h)
    BY <2>2 DEF HandTrue
  <2>. QED  BY <1>0, <2>1, <2>2, <2>3, NothingWritten
<1>2. CASE handleSaveSchedule(p)
  <2>1. PICK R \in SUBSET (1..ids) :
           proc' = [proc EXCEPT ![p] = [Idle EXCEPT !.pc = "schedule", !.todo = R]]
    BY <1>2 DEF handleSaveSchedule
  <2>2. R \in SUBSET Ids
    BY <1>0 DEF TypeOK
  <2>. QED  BY <1>1, <2>1, <2>2
<1>3. CASE EnsureProvisioned(p)
  <2>. DEFINE T == {i \in Known : ~repo[i].init}
  <2>1. T \in SUBSET Ids
    BY DEF Known
  <2>2. proc' = [proc EXCEPT ![p] = [Idle EXCEPT !.pc = "open", !.todo = T]]
    BY <1>3 DEF EnsureProvisioned
  <2>. HIDE DEF T
  <2>. QED  BY <1>1, <2>1, <2>2
<1>4. CASE handleDeleteSchedule(p)
  BY <1>0, <1>4, StandsStill DEF handleDeleteSchedule
<1>5. CASE Ends(p)
  BY <1>0, <1>5, Ending, EmptyHands, NothingWritten
<1>6. CASE runBackup(p)
  <2>1. Goes(p, "provision") /\ "provision" \in Steps
    BY <1>6 DEF runBackup, Steps
  <2>2. PICK h \in Hands : proc' = [proc EXCEPT ![p] = h] /\ h.pc = "provision"
    BY <1>0, <2>1, GoingOn
  <2>3. HandTrue(h)
    BY <2>2 DEF HandTrue
  <2>. QED  BY <1>0, <2>2, <2>3, NothingWritten
<1>7. CASE MarkRepositoryInitialised(p) /\ ~Ends(p)
  <2>. DEFINE g == proc[p]  i == g.id  r == [repo[i] EXCEPT !.init = TRUE]
              h == [g EXCEPT !.pc = "marking", !.repo = r]
  <2>1. At(p, "mark") /\ repo[i].known /\ proc' = [proc EXCEPT ![p] = h]
    BY <1>7 DEF MarkRepositoryInitialised
  <2>2. i \in Ids /\ Made(i) /\ home[i] # "none"
    BY <1>0, <2>1 DEF At, HandTrue
  <2>3. r \in Repos
    <3>. DEFINE c == repo[i]
    <3>1. c \in Repos
      BY <1>0, <2>2 DEF TypeOK
    <3>. HIDE DEF c
    <3>2. [c EXCEPT !.init = TRUE] \in Repos
      BY <3>1 DEF Repos
    <3>. QED  BY <3>2 DEF c
  <2>. HIDE DEF r
  <2>4. g \in Hands
    BY <1>0
  <2>5. h \in Hands /\ h.pc = "marking" /\ h.id = i
    <3>. HIDE DEF g
    <3>1. h \in Hands /\ h.pc = "marking" /\ h.id = g.id
      BY <2>3, <2>4 DEF Hands, Steps
    <3>. QED  BY <3>1
  <2>. HIDE DEF h
  <2>6. HandTrue(h)
    BY <2>2, <2>5 DEF HandTrue
  <2>. QED  BY <1>0, <2>1, <2>5, <2>6, NothingWritten
<1>. QED  BY <1>2, <1>3, <1>4, <1>5, <1>6, <1>7 DEF PutPolicy, InitFails, InitRefused

(* A repository is opened for creation together with its source.            *)
LEMMA OpenKeeps ==
    ASSUME DestInv, NEW p \in Procs, Open(p)
    PROVE  DestInv'
<1>. USE BoundsAre
<1>0. /\ UNCHANGED <<records, remote, ssh>> /\ TypeOK /\ proc \in [Procs -> Hands]
      /\ HandTrue(proc[p]) /\ proc[p] \in Hands
  BY DEF Open, DestInv, HandsAreTrue, TypeOK
<1>1. CASE Ends(p)
  BY <1>0, <1>1, Ending, EmptyHands, NothingWritten
<1>2. CASE ~Ends(p)
  <2>. DEFINE g == proc[p]
              i == Oldest(g.todo)
              s == made[i].source
              o == IF s # 0 /\ OpenRepository(s) THEN s ELSE 0
              f == IF s # 0 THEN dest[s] ELSE NoDest
              h == [g EXCEPT !.pc = "init", !.id = i, !.dest = dest[i], !.source = o, !.from = f]
  <2>1. Opens(i) /\ proc' = [proc EXCEPT ![p] = h]
    BY <1>2 DEF Open
  <2>2. i \in Known /\ dest[i] # NoDest /\ (s # 0 => s \in Known)
    BY <2>1 DEF Opens, OpenRepository
  <2>3. o = s
    BY <2>1 DEF Opens
  <2>4. i \in Ids /\ Made(i) /\ (s # 0 => s \in Ids /\ Made(s))
    BY <2>2 DEF Known, DestInv, HomesAreReadable
  <2>5. dest[i] \in Dests /\ dest[i].place \in Places /\ f \in Dests /\ o \in Ids \cup {0}
    BY <1>0, <2>2, <2>3, <2>4, EmptyHands DEF TypeOK, DestInv, DestsArePlaced
  <2>. HIDE DEF i, o, f
  <2>6. h \in Hands /\ h.pc = "init" /\ h.id = i /\ h.dest = dest[i] /\ h.source = o
    <3>1. g \in Hands
      BY <1>0
    <3>. HIDE DEF g
    <3>. QED  BY <2>4, <2>5, <3>1 DEF Hands, Steps
  <2>. HIDE DEF h
  <2>7. HandTrue(h)
    BY <2>3, <2>4, <2>5, <2>6 DEF HandTrue
  <2>. QED  BY <1>0, <2>1, <2>6, <2>7, NothingWritten
<1>. QED  BY <1>1, <1>2

(* Writing back a destination: after a check, after an edit, and when it is *)
(* deleted.                                                                 *)
LEMMA DestinationWrites ==
    ASSUME DestInv, NEW p \in Procs, Preflight(p) \/ SaveDestination(p) \/ DeletesDestination(p)
    PROVE  DestInv'
<1>. USE BoundsAre
<1>0. /\ UNCHANGED <<repo, made, ids, data, home, host, agreed, shown, sent>> /\ TypeOK
      /\ proc \in [Procs -> Hands] /\ HandTrue(proc[p]) /\ proc[p] \in Hands /\ proc[p].id \in Ids
      /\ repo' \in [Ids -> Repos]
      /\ \A i \in Ids : repo[i].known => Made(i)
      /\ \A i \in Ids : repo[i].init => home[i] # "none"
  BY DEF Preflight, SaveDestination, DeletesDestination, DestInv, HandsAreTrue, HandTrue, TypeOK,
         At, remote, ssh, HomesAreReadable
<1>1. ASSUME NEW d \in Dests, d = NoDest \/ d.place \in Places, dest' = [dest EXCEPT ![proc[p].id] = d],
             NEW h \in Hands, HandTrue(h), h.pc \notin {"repository", "record"},
             proc' = [proc EXCEPT ![p] = h]
      PROVE  DestInv'
  <2>1. dest' \in [Ids -> Dests]
    BY <1>0, <1>1 DEF TypeOK
  <2>2. DestsArePlaced'
    BY <1>0, <1>1 DEF TypeOK, DestInv, DestsArePlaced
  <2>3. /\ \A i \in Ids : repo'[i].known => Made(i)
        /\ \A i \in Ids : repo'[i].init => home[i] # "none"
    BY <1>0
  <2>. QED  BY <1>0, <1>1, <2>1, <2>2, <2>3, QuietKeeps
<1>2. CASE Preflight(p)
  <2>1. PICK down \in BOOLEAN :
          /\ dest' = [dest EXCEPT ![proc[p].id] = [proc[p].dest EXCEPT !.down = down]]
          /\ IF ~down /\ proc[p].then # "idle" THEN Goes(p, proc[p].then) ELSE Ends(p)
    BY <1>2 DEF Preflight
  <2>. DEFINE c == proc[p].dest  d == [c EXCEPT !.down = down]
  <2>2. c \in Dests /\ c.place \in Places /\ proc[p].then \in {"idle", "provision"}
    BY <1>0, <1>2 DEF Preflight, At, HandTrue, Hands
  <2>3. dest' = [dest EXCEPT ![proc[p].id] = d]
    BY <2>1
  <2>. HIDE DEF c
  <2>4. d \in Dests /\ d.place \in Places
    BY <2>2 DEF Dests
  <2>. HIDE DEF d
  <2>5. CASE Ends(p)
    BY <1>1, <2>3, <2>4, <2>5, Ending, EmptyHands
  <2>6. CASE Goes(p, "provision")
    <3>1. PICK h \in Hands : proc' = [proc EXCEPT ![p] = h] /\ h.pc = "provision"
      BY <1>0, <2>6, GoingOn DEF Steps
    <3>2. HandTrue(h)
      BY <3>1 DEF HandTrue
    <3>. QED  BY <1>1, <2>3, <2>4, <3>1, <3>2
  <2>. QED  BY <2>1, <2>2, <2>5, <2>6
<1>3. CASE SaveDestination(p)
  <2>1. proc[p].dest \in Dests /\ proc[p].dest.place \in Places
    BY <1>0, <1>3 DEF SaveDestination, At, HandTrue, Hands
  <2>2. dest' = [dest EXCEPT ![proc[p].id] = proc[p].dest] /\ Goes(p, "test")
    BY <1>3 DEF SaveDestination
  <2>3. PICK h \in Hands : proc' = [proc EXCEPT ![p] = h] /\ h.pc = "test" /\ h.id = proc[p].id
    BY <1>0, <2>2, GoingOn DEF Steps
  <2>4. HandTrue(h)
    BY <1>0, <2>3 DEF HandTrue
  <2>. QED  BY <1>1, <2>1, <2>2, <2>3, <2>4
<1>4. CASE DeletesDestination(p)
  BY <1>1, <1>4, Ending, EmptyHands DEF DeletesDestination
<1>. QED  BY <1>2, <1>3, <1>4

(* Writing back a repository: deleted, its key noted, marked as created.    *)
LEMMA RepositoryWrites ==
    ASSUME DestInv, NEW p \in Procs, DeleteRepository(p) \/ PutNoted(p) \/ PutMarked(p)
    PROVE  DestInv'
<1>. USE BoundsAre
<1>0. /\ UNCHANGED <<dest, made, ids, data, home, host, agreed, shown, sent>> /\ TypeOK
      /\ proc \in [Procs -> Hands] /\ HandTrue(proc[p]) /\ proc[p] \in Hands /\ proc[p].id \in Ids
      /\ DestsArePlaced /\ dest \in [Ids -> Dests] /\ repo \in [Ids -> Repos]
      /\ \A i \in Ids : repo[i].known => Made(i)
      /\ \A i \in Ids : repo[i].init => home[i] # "none"
  BY DEF DeleteRepository, PutNoted, PutMarked, DestInv, HandsAreTrue, HandTrue, TypeOK,
         At, remote, ssh, HomesAreReadable
<1>1. ASSUME NEW r \in Repos, r.known => Made(proc[p].id), r.init => home[proc[p].id] # "none",
             repo' = [repo EXCEPT ![proc[p].id] = r] \/ repo' = repo,
             NEW h \in Hands, HandTrue(h), h.pc \notin {"repository", "record"},
             proc' = [proc EXCEPT ![p] = h]
      PROVE  DestInv'
  <2>1. /\ repo' \in [Ids -> Repos]
        /\ \A i \in Ids : repo'[i].known => Made(i)
        /\ \A i \in Ids : repo'[i].init => home[i] # "none"
    BY <1>0, <1>1
  <2>2. DestsArePlaced' /\ dest' \in [Ids -> Dests]
    BY <1>0 DEF DestsArePlaced
  <2>. QED  BY <1>0, <1>1, <2>1, <2>2, QuietKeeps
<1>2. CASE DeleteRepository(p)
  <2>1. Goes(p, "deleted") /\ (repo' = [repo EXCEPT ![proc[p].id] = NoRepo] \/ repo' = repo)
    BY <1>2 DEF DeleteRepository
  <2>2. PICK h \in Hands : proc' = [proc EXCEPT ![p] = h] /\ h.pc = "deleted" /\ h.id = proc[p].id
    BY <1>0, <2>1, GoingOn DEF Steps
  <2>3. HandTrue(h)
    BY <1>0, <2>2 DEF HandTrue
  <2>. QED  BY <1>1, <2>1, <2>2, <2>3, EmptyHands
<1>3. CASE PutNoted(p)
  <2>1. /\ repo' = [repo EXCEPT ![proc[p].id] = proc[p].repo] /\ Ends(p) /\ proc[p].repo \in Repos
        /\ proc[p].repo.known => Made(proc[p].id)
        /\ proc[p].repo.init => home[proc[p].id] # "none"
    BY <1>0, <1>3 DEF PutNoted, At, HandTrue, Hands
  <2>. QED  BY <1>1, <2>1, Ending, EmptyHands
<1>4. CASE PutMarked(p)
  <2>. DEFINE g == proc[p]  T == g.todo \ {g.id}  h == [g EXCEPT !.pc = "open", !.todo = T]
  <2>1. /\ repo' = [repo EXCEPT ![g.id] = g.repo] /\ g.repo \in Repos /\ g \in Hands
        /\ g.repo.known => Made(g.id)
        /\ g.repo.init => home[g.id] # "none"
    BY <1>0, <1>4 DEF PutMarked, At, HandTrue, Hands
  <2>2. proc' = [proc EXCEPT ![p] = h]
    BY <1>0, <1>4 DEF PutMarked
  <2>3. h \in Hands /\ h.pc = "open"
    <3>. HIDE DEF g
    <3>. QED  BY <2>1 DEF Hands, Steps
  <2>. HIDE DEF h
  <2>4. HandTrue(h)
    BY <2>3 DEF HandTrue
  <2>. QED  BY <1>1, <2>1, <2>2, <2>3, <2>4
<1>. QED  BY <1>2, <1>3, <1>4

(* A number is handed out: the record in the making is its request's own.   *)
LEMMA NumberHandedOut ==
    ASSUME DestInv, NEW p \in Procs, ~Making(p), NEW place \in Places, NEW pass \in Passwords',
           NEW then \in {"test", "provision", "attached"}, PutDestination(p, place, pass, then),
           UNCHANGED <<repo, made, data, host, agreed, shown>>, sent' \subseteq agreed,
           \/ then # "attached" /\ home' = home
           \/ then = "attached" /\ home' = [home EXCEPT ![ids'] = place]
              /\ data[place] # NoData /\ pass = data[place].key
    PROVE  DestInv'
<1>. USE BoundsAre
<1>a. PICK n \in Ids : n = ids + 1 /\ ids' = n
  BY DEF PutDestination, DestInv, TypeOK
<1>0. /\ TypeOK /\ ids \in Nat /\ ids < MaxDests
      /\ dest' = [dest EXCEPT ![n] = [place |-> place, down |-> FALSE]]
      /\ proc' = [proc EXCEPT ![p] = [Idle EXCEPT !.pc = "repository", !.id = n, !.pass = pass, !.then = then]]
      /\ proc \in [Procs -> Hands]
  BY <1>a DEF PutDestination, DestInv, TypeOK
<1>1. pass \in 0..Nobody /\ pass \in {Nobody} \cup 1..n
  BY <1>a DEF Passwords
<1>2. /\ ~Made(n) /\ home[n] = "none"
      /\ \A i \in Ids : Made(i) => made[i].pass \in Passwords
      /\ \A x \in Places : data[x] = NoData \/ data[x].key \in Passwords
  BY <1>a, <1>0 DEF DestInv, NumbersAreFresh
<1>3. PICK h \in Hands : /\ h.pc = "repository" /\ h.id = n /\ h.pass = pass /\ h.then = then
                         /\ proc' = [proc EXCEPT ![p] = h]
  <2>. DEFINE g == [Idle EXCEPT !.pc = "repository", !.id = n, !.pass = pass, !.then = then]
  <2>1. g \in Hands /\ g.pc = "repository" /\ g.id = n /\ g.pass = pass /\ g.then = then
    BY <1>1, EmptyHands DEF Hands, Steps
  <2>2. proc' = [proc EXCEPT ![p] = g]
    BY <1>a, <1>0
  <2>. HIDE DEF g
  <2>. QED  BY <2>1, <2>2
<1>4. Passwords \subseteq Passwords'
  BY <1>a, <1>0 DEF Passwords
<1>5. /\ home' \in [Ids -> Places \cup {"none"}]
      /\ \A i \in Ids \ {n} : home'[i] = home[i]
      /\ home'[n] # "none" => then = "attached" /\ home'[n] = place /\ data[place] # NoData /\ pass = data[place].key
      /\ then = "attached" => home'[n] # "none"
  <2>1. home \in [Ids -> Places \cup {"none"}] /\ place # "none"
    BY <1>0, DestinationsAssumption DEF TypeOK
  <2>2. CASE home' = home /\ then # "attached"
    BY <1>2, <2>1, <2>2
  <2>3. CASE home' = [home EXCEPT ![n] = place] /\ then = "attached" /\ data[place] # NoData /\ pass = data[place].key
    BY <1>2, <2>1, <2>3
  <2>. QED  BY <1>a, <2>2, <2>3
<1>6. Lasting
  BY <1>a, <1>0, <1>2, <1>5 DEF Lasting
<1>7. HandTrue(h)'
  BY <1>a, <1>0, <1>3 DEF HandTrue
<1>8. HandsAreTrue' /\ proc' \in [Procs -> Hands]
  BY <1>a, <1>0, <1>3, <1>6, <1>7, OthersKeepHands
<1>9. Proved(h)'
  <2>1. h.id \in 1..ids' /\ ~Made(h.id)' /\ h.pass \in Passwords'
    BY <1>a, <1>0, <1>2, <1>3 DEF Made
  <2>2. then = "attached" => pass # n
    BY <1>a, <1>0, <1>2, <1>5 DEF Passwords
  <2>. QED  BY <1>3, <1>5, <2>1, <2>2 DEF Proved
<1>10. \A q \in Procs \ {p} : Making(q) => proc[q].id # n /\ proc[q].id \in Ids
  BY <1>a, <1>0 DEF DestInv, MakingIsAlone, Proved
<1>11. MakingIsAlone'
  <2>1. \A q \in Procs \ {p} : Making(q) =>
           /\ made'[proc[q].id] = made[proc[q].id] /\ home'[proc[q].id] = home[proc[q].id]
           /\ proc[q].id # h.id
    BY <1>3, <1>5, <1>10
  <2>. QED  BY <1>3, <1>6, <1>9, <2>1, OthersKeepMaking
<1>12. dest' \in [Ids -> Dests] /\ DestsArePlaced'
  BY <1>a, <1>0 DEF TypeOK, DestInv, DestsArePlaced, Dests
<1>13. TypeOK'
  BY <1>a, <1>0, <1>5, <1>8, <1>12 DEF TypeOK
<1>14. NumbersAreFresh'
  BY <1>a, <1>0, <1>2, <1>4, <1>5 DEF DestInv, NumbersAreFresh, Made, TypeOK
<1>15. HomesAreReadable'
  <2>1. \A i \in Ids \ {n} : home'[i] # "none" =>
          data[home'[i]] # NoData /\ (Made(i) => data[home'[i]].key = made[i].pass)
    BY <1>5 DEF DestInv, HomesAreReadable
  <2>2. home'[n] # "none" => data[home'[n]] # NoData
    BY <1>5
  <2>3. \A i \in Ids : repo[i].init => home'[i] # "none"
    BY <1>2, <1>5 DEF DestInv, HomesAreReadable
  <2>4. \A i \in Ids : repo[i].known => Made(i)
    BY DEF DestInv, HomesAreReadable
  <2>. QED  BY <1>2, <2>1, <2>2, <2>3, <2>4 DEF HomesAreReadable, Made
<1>16. ChunksKept'
  <2>1. made[n].pass # n
    BY <1>a, <1>0, <1>2 DEF Made
  <2>. QED  BY <1>a, <1>0, <1>5, <2>1 DEF DestInv, ChunksKept, Made
<1>17. PasswordOnlyToAgreedHost'
  BY DEF PasswordOnlyToAgreedHost
<1>. QED  BY <1>8, <1>11, <1>12, <1>13, <1>14, <1>15, <1>16, <1>17 DEF DestInv

(* Adding a destination by hand, by attaching, and over SFTP.               *)
LEMMA AddingKeeps ==
    ASSUME DestInv, NEW p \in Procs,
           AddDestination(p) \/ Attach(p) \/ InstallAuthorizedKey(p) \/ KeyToInstall(p)
    PROVE  DestInv'
<1>. USE BoundsAre
<1>0. /\ UNCHANGED <<repo, made, data, host, agreed, shown>> /\ TypeOK /\ ids \in Nat
      /\ proc \in [Procs -> Hands] /\ HandTrue(proc[p]) /\ proc[p] \in Hands /\ ~Making(p)
      /\ sent \subseteq agreed /\ ids <= MaxDests
  BY DEF AddDestination, Attach, InstallAuthorizedKey, KeyToInstall, DestInv, HandsAreTrue, TypeOK,
         Begins, At, Making, remote, ssh, PasswordOnlyToAgreedHost
<1>1. ids' = ids + 1 => ids + 1 \in Passwords'
  BY <1>0 DEF Passwords
<1>2. ASSUME NEW place \in Places, NEW then \in {"test", "provision"},
             PutDestination(p, place, ids + 1, then), home' = home, sent' \subseteq agreed
      PROVE  DestInv'
  <2>1. ids + 1 \in Passwords'
    BY <1>1, <1>2 DEF PutDestination
  <2>. QED  BY <1>0, <1>2, <2>1, NumberHandedOut
<1>3. CASE AddDestination(p)
  BY <1>0, <1>2, <1>3 DEF AddDestination, remote, ssh
<1>4. CASE Attach(p)
  <2>1. PICK place \in Places :
          /\ data[place] # NoData /\ PutDestination(p, place, data[place].key, "attached")
          /\ home' = [home EXCEPT ![ids'] = place]
    BY <1>4 DEF Attach
  <2>2. data[place].key \in Passwords'
    BY <1>0, <2>1 DEF DestInv, NumbersAreFresh, Passwords, PutDestination
  <2>3. sent' \subseteq agreed
    BY <1>0, <1>4 DEF Attach, ssh
  <2>. QED  BY <1>0, <2>1, <2>2, <2>3, NumberHandedOut
<1>5. CASE InstallAuthorizedKey(p)
  <2>1. Pinned(p) => host \in agreed
    BY <1>0, <1>5 DEF InstallAuthorizedKey, At, HandTrue, Pinned, hostKeyOf
  <2>2. home' = home /\ sent' \subseteq agreed
    BY <1>0, <1>5, <2>1 DEF InstallAuthorizedKey, remote
  <2>3. CASE \E place \in Places : PutDestination(p, place, ids + 1, "provision")
    BY <1>2, <2>2, <2>3
  <2>4. CASE Ends(p) /\ UNCHANGED <<dest, ids>>
    <3>1. /\ proc' = [proc EXCEPT ![p] = Idle] /\ Idle \in Hands /\ HandTrue(Idle)
          /\ Idle.pc \notin {"repository", "record"}
      BY <2>4, Ending, EmptyHands
    <3>2. Lasting
      BY <1>0, <2>2, <2>4 DEF Lasting
    <3>3. HandTrue(Idle)'
      BY EmptyHands DEF HandTrue
    <3>4. HandsAreTrue' /\ proc' \in [Procs -> Hands]
      BY <3>1, <3>2, <3>3, OthersKeepHands
    <3>5. MakingIsAlone'
      BY <1>0, <2>2, <3>1, <3>2, OthersKeepMaking
    <3>6. TypeOK'
      BY <1>0, <2>2, <2>4, <3>4 DEF TypeOK
    <3>7. NumbersAreFresh' /\ ChunksKept' /\ HomesAreReadable' /\ DestsArePlaced'
      BY <1>0, <2>2, <2>4 DEF DestInv, NumbersAreFresh, ChunksKept, HomesAreReadable, DestsArePlaced,
                              Made, Passwords
    <3>. QED  BY <1>0, <2>2, <3>4, <3>5, <3>6, <3>7 DEF DestInv, PasswordOnlyToAgreedHost
  <2>. QED  BY <1>5, <2>3, <2>4 DEF InstallAuthorizedKey
<1>6. CASE KeyToInstall(p)
  BY <1>0, <1>2, <1>6 DEF KeyToInstall, remote, ssh
<1>. QED  BY <1>3, <1>4, <1>5, <1>6

(* The chunker source is looked for while the record is in the making.      *)
LEMMA ReadRepositoriesKeeps ==
    ASSUME DestInv, NEW p \in Procs, ReadRepositories(p)
    PROVE  DestInv'
<1>. USE BoundsAre
<1>0. /\ UNCHANGED <<dest, repo, made, ids, data, home, host, agreed, shown, sent>> /\ TypeOK
      /\ proc \in [Procs -> Hands] /\ HandTrue(proc[p]) /\ proc[p] \in Hands /\ proc[p].id \in Ids
      /\ Proved(proc[p]) /\ Making(p) /\ ids \in Nat
  BY DEF ReadRepositories, records, remote, ssh, DestInv, HandsAreTrue, HandTrue, TypeOK, At,
         MakingIsAlone, Making
<1>1. PICK h \in Hands :
        /\ h.pc = "record" /\ h.id = proc[p].id /\ h.pass = proc[p].pass /\ h.then = proc[p].then
        /\ proc' = [proc EXCEPT ![p] = h]
  <2>1. PICK s \in Ids \cup {0} : proc' = [proc EXCEPT ![p].pc = "record", ![p].source = s]
    BY DEF ReadRepositories, Known
  <2>. DEFINE g == proc[p]  f == [g EXCEPT !.pc = "record", !.source = s]
  <2>2. proc' = [proc EXCEPT ![p] = f] /\ g \in Hands
    BY <1>0, <2>1
  <2>3. f \in Hands /\ f.pc = "record" /\ f.id = g.id /\ f.pass = g.pass /\ f.then = g.then
    <3>. HIDE DEF g
    <3>. QED  BY <2>2 DEF Hands, Steps
  <2>. HIDE DEF f
  <2>. QED  BY <2>2, <2>3
<1>2. Lasting
  BY <1>0 DEF Lasting
<1>3. HandTrue(h)'
  BY <1>0, <1>1 DEF HandTrue
<1>4. HandsAreTrue' /\ proc' \in [Procs -> Hands]
  BY <1>1, <1>2, <1>3, OthersKeepHands
<1>5. Proved(h)'
  BY <1>0, <1>1 DEF Proved, Made, Passwords
<1>6. \A q \in Procs \ {p} : Making(q) =>
         /\ made'[proc[q].id] = made[proc[q].id] /\ home'[proc[q].id] = home[proc[q].id]
         /\ proc[q].id # h.id
  BY <1>0, <1>1 DEF DestInv, MakingIsAlone
<1>7. MakingIsAlone'
  BY <1>1, <1>2, <1>5, <1>6, OthersKeepMaking
<1>8. TypeOK'
  BY <1>0, <1>4 DEF TypeOK
<1>9. NumbersAreFresh' /\ HomesAreReadable' /\ ChunksKept' /\ DestsArePlaced' /\ PasswordOnlyToAgreedHost'
  BY <1>0 DEF DestInv, NumbersAreFresh, HomesAreReadable, ChunksKept, DestsArePlaced,
              PasswordOnlyToAgreedHost, Made, Passwords
<1>. QED  BY <1>4, <1>7, <1>8, <1>9 DEF DestInv

(* The record is made: the password it carries is the one that was proved.  *)
LEMMA PutRepositoryKeeps ==
    ASSUME DestInv, NEW p \in Procs, PutRepository(p)
    PROVE  DestInv'
<1>. USE BoundsAre
<1>0. /\ UNCHANGED <<dest, ids, data, home, host, agreed, shown, sent>> /\ TypeOK
      /\ proc \in [Procs -> Hands] /\ HandTrue(proc[p]) /\ proc[p] \in Hands
      /\ Proved(proc[p]) /\ Making(p) /\ ids \in 0..MaxDests
  BY DEF PutRepository, remote, ssh, DestInv, HandsAreTrue, HandTrue, TypeOK, At, MakingIsAlone, Making
<1>. DEFINE att == proc[p].then = "attached"
<1>1. PICK i \in Ids :
        /\ i = proc[p].id /\ i <= ids /\ ~Made(i)
        /\ att => home[i] # "none" /\ data[home[i]].key = proc[p].pass /\ proc[p].pass # i
        /\ ~att => home[i] = "none"
  <2>1. proc[p].id \in Ids /\ proc[p].id <= ids
    BY <1>0 DEF Proved
  <2>. QED  BY <1>0, <2>1 DEF Proved
<1>2. PICK r \in Repos : repo' = [repo EXCEPT ![i] = r] /\ r.init = att
  <2>. DEFINE f == [known |-> TRUE, init |-> att, noted |-> att]
  <2>1. f \in Repos /\ f.init = att
    BY DEF Repos
  <2>2. repo' = [repo EXCEPT ![i] = f]
    BY <1>1 DEF PutRepository
  <2>. HIDE DEF f
  <2>. QED  BY <2>1, <2>2
<1>. HIDE DEF att
<1>3. /\ DOMAIN made' = Ids /\ \A j \in Ids \ {i} : made'[j] = made[j]
      /\ made'[i].source = proc[p].source /\ made'[i].pass = proc[p].pass
      /\ proc[p].source \in Ids \cup {0} /\ proc[p].pass \in 0..Nobody /\ proc[p].pass \in Passwords
      /\ proc[p].pass # 0
  <2>. DEFINE m == [born |-> Max({made[j].born : j \in Ids}) + 1,
                    source |-> proc[p].source, pass |-> proc[p].pass]
  <2>1. made' = [made EXCEPT ![i] = m]
    BY <1>1 DEF PutRepository
  <2>2. m.source = proc[p].source /\ m.pass = proc[p].pass
    OBVIOUS
  <2>. HIDE DEF m
  <2>3. DOMAIN made = Ids
    BY <1>0 DEF TypeOK
  <2>4. proc[p].source \in Ids \cup {0} /\ proc[p].pass \in 0..Nobody /\ proc[p].pass \in Passwords
    BY <1>0 DEF Hands, Proved
  <2>5. proc[p].pass # 0
    BY <1>0, <2>4 DEF Passwords
  <2>. QED  BY <2>1, <2>2, <2>3, <2>4, <2>5
<1>4. Lasting
  BY <1>0, <1>1, <1>3 DEF Lasting
<1>5. PICK h \in Hands :
        /\ proc' = [proc EXCEPT ![p] = h] /\ h.pc \in {"idle", "test", "provision"}
        /\ h.pc = "test" => h.id = i
  <2>1. CASE Ends(p)
    BY <2>1, Ending, EmptyHands
  <2>2. CASE proc[p].then \in {"test", "provision"} /\ Goes(p, proc[p].then)
    BY <1>0, <1>1, <2>2, GoingOn DEF Steps
  <2>3. proc[p].then \in {"test", "provision", "attached"}
    BY <1>0 DEF Proved
  <2>4. IF proc[p].then = "attached" THEN Ends(p) ELSE Goes(p, proc[p].then)
    BY DEF PutRepository
  <2>. QED  BY <2>1, <2>2, <2>3, <2>4
<1>6. HandTrue(h)'
  BY <1>5 DEF HandTrue
<1>7. HandsAreTrue' /\ proc' \in [Procs -> Hands]
  BY <1>4, <1>5, <1>6, OthersKeepHands
<1>8. \A q \in Procs \ {p} : Making(q) =>
         made'[proc[q].id] = made[proc[q].id] /\ home'[proc[q].id] = home[proc[q].id]
  <2>1. \A q \in Procs \ {p} : Making(q) => proc[q].id # i /\ proc[q].id \in Ids
    BY <1>0, <1>1 DEF DestInv, MakingIsAlone, Proved
  <2>. QED  BY <1>0, <1>3, <2>1
<1>9. MakingIsAlone'
  BY <1>4, <1>5, <1>8, OthersKeepMaking
<1>10. \A j \in Ids : made'[j].source \in Ids \cup {0} /\ made'[j].pass \in 0..Nobody
  BY <1>0, <1>3 DEF TypeOK
<1>11. TypeOK'
  BY <1>0, <1>2, <1>3, <1>7, <1>10 DEF TypeOK
<1>12. NumbersAreFresh'
  <2>1. Passwords' = Passwords
    BY <1>0 DEF Passwords
  <2>2. \A j \in Ids : j > ids => made'[j].pass = 0 /\ home[j] = "none"
    BY <1>0, <1>1, <1>3 DEF DestInv, NumbersAreFresh, Made
  <2>3. \A j \in Ids : made'[j].pass # 0 => made'[j].pass \in Passwords
    BY <1>3 DEF DestInv, NumbersAreFresh, Made
  <2>. QED  BY <1>0, <2>1, <2>2, <2>3 DEF DestInv, NumbersAreFresh, Made
<1>13. HomesAreReadable'
  <2>1. \A j \in Ids : Made(j) => Made(j)'
    BY <1>1, <1>3 DEF Made
  <2>2. Made(i)'
    BY <1>3 DEF Made
  <2>3. \A j \in Ids : repo'[j].known => Made(j)'
    BY <1>0, <1>2, <2>1, <2>2 DEF DestInv, HomesAreReadable, TypeOK
  <2>4. \A j \in Ids : repo'[j].init => home[j] # "none"
    BY <1>0, <1>1, <1>2 DEF DestInv, HomesAreReadable, TypeOK
  <2>5. \A j \in Ids : home[j] # "none" =>
           data[home[j]] # NoData /\ (made'[j].pass # 0 => data[home[j]].key = made'[j].pass)
    BY <1>1, <1>3 DEF DestInv, HomesAreReadable, Made
  <2>. QED  BY <1>0, <2>3, <2>4, <2>5 DEF HomesAreReadable, Made
<1>14. ChunksKept'
  <2>1. ASSUME NEW j \in Ids, home[j] # "none", made'[j].source # 0, made'[j].pass = j
        PROVE  /\ made'[made'[j].source].pass # 0
               /\ \E x \in Places : data[x].key = made'[made'[j].source].pass /\ data[x].chunk = data[home[j]].chunk
    <3>1. j # i
      BY <1>1, <1>3, <2>1
    <3>2. made'[j] = made[j] /\ made[j].source \in Ids
      BY <1>0, <1>3, <2>1, <3>1 DEF TypeOK
    <3>3. Made(made[j].source) /\ \E x \in Places : data[x].key = made[made[j].source].pass /\ data[x].chunk = data[home[j]].chunk
      BY <2>1, <3>2 DEF DestInv, ChunksKept
    <3>4. made[j].source # i
      BY <1>1, <3>3
    <3>. QED  BY <1>3, <3>2, <3>3, <3>4 DEF Made
  <2>. QED  BY <1>0, <2>1 DEF ChunksKept, Made
<1>15. DestsArePlaced' /\ PasswordOnlyToAgreedHost'
  BY <1>0 DEF DestInv, DestsArePlaced, PasswordOnlyToAgreedHost
<1>. QED  BY <1>7, <1>9, <1>11, <1>12, <1>13, <1>14, <1>15 DEF DestInv

(* A repository is created: nothing that was written is written over, and   *)
(* the data of the source is where the new chunker comes from.              *)
LEMMA InitRepositoryKeeps ==
    ASSUME DestInv, NEW p \in Procs, InitRepository(p)
    PROVE  DestInv'
<1>. USE BoundsAre
<1>0. /\ UNCHANGED <<dest, repo, made, ids, host, agreed, shown, sent>> /\ TypeOK
      /\ proc \in [Procs -> Hands] /\ HandTrue(proc[p]) /\ proc[p] \in Hands /\ At(p, "init")
      /\ ids \in 0..MaxDests
  BY DEF InitRepository, records, ssh, DestInv, HandsAreTrue, TypeOK
<1>1. PICK i \in Ids, x \in Places :
        /\ i = proc[p].id /\ x = proc[p].dest.place /\ Made(i) /\ proc[p].source = made[i].source
        /\ made[i].source # 0 => Made(made[i].source) /\ made[i].source \in Ids
  BY <1>0 DEF At, HandTrue, TypeOK
<1>2. /\ data[x] = NoData /\ home' = [home EXCEPT ![i] = x]
      /\ made[i].source # 0 =>
            proc[p].from.place \in Places /\ data[proc[p].from.place].key = made[made[i].source].pass
  BY <1>1 DEF InitRepository, Readable
<1>3. PICK c \in 0..Nobody :
        /\ data' = [data EXCEPT ![x] = [key |-> made[i].pass, chunk |-> c]]
        /\ made[i].source # 0 => c = data[proc[p].from.place].chunk
  <2>. DEFINE c == IF proc[p].source = 0 THEN i ELSE data[proc[p].from.place].chunk
  <2>1. data' = [data EXCEPT ![x] = [key |-> made[i].pass, chunk |-> c]]
    BY <1>1 DEF InitRepository
  <2>2. c \in 0..Nobody /\ (made[i].source # 0 => c = data[proc[p].from.place].chunk)
    BY <1>0, <1>1, <1>2 DEF TypeOK
  <2>. HIDE DEF c
  <2>. QED  BY <2>1, <2>2
<1>4. made[i].pass \in 0..Nobody /\ made[i].pass # 0 /\ made[i].pass \in Passwords /\ i <= ids
  BY <1>0, <1>1 DEF TypeOK, Made, DestInv, NumbersAreFresh
<1>5. /\ data' \in [Places -> [key: 0..Nobody, chunk: 0..Nobody]]
      /\ \A y \in Places : data[y] # NoData => data'[y] = data[y]
      /\ data'[x].key = made[i].pass /\ data'[x].chunk = c /\ data'[x] # NoData
      /\ \A y \in Places : y # x => data'[y] = data[y]
  BY <1>0, <1>2, <1>3, <1>4 DEF TypeOK, NoData
<1>6. /\ home' \in [Ids -> Places \cup {"none"}] /\ home'[i] = x /\ x # "none"
      /\ \A j \in Ids \ {i} : home'[j] = home[j]
  BY <1>0, <1>2, DestinationsAssumption DEF TypeOK
<1>7. Lasting
  BY <1>0, <1>5, <1>6 DEF Lasting
<1>8. PICK h \in Hands : proc' = [proc EXCEPT ![p] = h] /\ h.pc = "mark" /\ h.id = i
  <2>1. Goes(p, "mark")
    BY DEF InitRepository
  <2>. QED  BY <1>0, <1>1, <2>1, GoingOn DEF Steps
<1>9. HandTrue(h)'
  BY <1>0, <1>1, <1>6, <1>8 DEF HandTrue, Made
<1>10. HandsAreTrue' /\ proc' \in [Procs -> Hands]
  BY <1>7, <1>8, <1>9, OthersKeepHands
<1>11. \A q \in Procs \ {p} : Making(q) =>
         made'[proc[q].id] = made[proc[q].id] /\ home'[proc[q].id] = home[proc[q].id]
  <2>1. \A q \in Procs \ {p} : Making(q) => proc[q].id # i /\ proc[q].id \in Ids
    BY <1>0, <1>1 DEF DestInv, MakingIsAlone, Proved
  <2>. QED  BY <1>0, <1>6, <2>1
<1>12. MakingIsAlone'
  BY <1>7, <1>8, <1>11, OthersKeepMaking
<1>13. TypeOK'
  BY <1>0, <1>5, <1>6, <1>10 DEF TypeOK
<1>14. NumbersAreFresh'
  <2>1. Passwords' = Passwords
    BY <1>0 DEF Passwords
  <2>2. \A y \in Places : data'[y] = NoData \/ data'[y].key \in Passwords
    BY <1>4, <1>5 DEF DestInv, NumbersAreFresh
  <2>3. \A j \in Ids : j > ids => ~Made(j) /\ home'[j] = "none"
    BY <1>0, <1>4, <1>6 DEF DestInv, NumbersAreFresh
  <2>. QED  BY <1>0, <2>1, <2>2, <2>3 DEF DestInv, NumbersAreFresh, Made
<1>15. HomesAreReadable'
  <2>1. ASSUME NEW j \in Ids, home'[j] # "none"
        PROVE  data'[home'[j]] # NoData /\ (Made(j) => data'[home'[j]].key = made[j].pass)
    <3>1. CASE j = i
      BY <1>5, <1>6, <3>1
    <3>2. CASE j # i
      <4>1. /\ home'[j] = home[j] /\ home[j] \in Places /\ data[home[j]] # NoData
            /\ (Made(j) => data[home[j]].key = made[j].pass)
        BY <1>0, <1>6, <2>1, <3>2 DEF DestInv, HomesAreReadable, TypeOK
      <4>. QED  BY <1>5, <4>1
    <3>. QED  BY <3>1, <3>2
  <2>2. \A j \in Ids : repo[j].init => home'[j] # "none"
    BY <1>6 DEF DestInv, HomesAreReadable
  <2>3. \A j \in Ids : repo[j].known => Made(j)
    BY DEF DestInv, HomesAreReadable
  <2>. QED  BY <1>0, <2>1, <2>2, <2>3 DEF HomesAreReadable, Made
<1>16. ChunksKept'
  <2>1. ASSUME NEW j \in Ids, home'[j] # "none", made[j].source # 0, made[j].pass = j
        PROVE  /\ Made(made[j].source)
               /\ \E y \in Places : data'[y].key = made[made[j].source].pass /\ data'[y].chunk = data'[home'[j]].chunk
    <3>1. CASE j = i
      <4>. DEFINE y == proc[p].from.place
      <4>1. y \in Places /\ data[y].key = made[made[i].source].pass /\ Made(made[i].source) /\ c = data[y].chunk
        BY <1>1, <1>2, <1>3, <2>1, <3>1
      <4>2. data'[y] = data[y]
        BY <1>5, <4>1 DEF Made, NoData
      <4>. QED  BY <1>5, <1>6, <3>1, <4>1, <4>2
    <3>2. CASE j # i
      <4>1. home'[j] = home[j] /\ home[j] # "none" /\ home[j] \in Places
        BY <1>0, <1>6, <2>1, <3>2 DEF TypeOK
      <4>2. PICK y \in Places : data[y].key = made[made[j].source].pass /\ data[y].chunk = data[home[j]].chunk
        BY <2>1, <4>1 DEF DestInv, ChunksKept
      <4>3. Made(made[j].source)
        BY <2>1, <4>1 DEF DestInv, ChunksKept
      <4>4. data'[y] = data[y]
        BY <1>5, <4>2, <4>3 DEF Made, NoData
      <4>5. data'[home[j]] = data[home[j]]
        BY <1>5, <4>1 DEF DestInv, HomesAreReadable
      <4>. QED  BY <4>1, <4>2, <4>3, <4>4, <4>5
    <3>. QED  BY <3>1, <3>2
  <2>. QED  BY <1>0, <2>1 DEF ChunksKept, Made
<1>17. DestsArePlaced' /\ PasswordOnlyToAgreedHost'
  BY <1>0 DEF DestInv, DestsArePlaced, PasswordOnlyToAgreedHost
<1>. QED  BY <1>10, <1>12, <1>13, <1>14, <1>15, <1>16, <1>17 DEF DestInv

-----------------------------------------------------------------------------
(* Host keys, and the process dying                                         *)

(* Records and data stay; what is in hand is what it was, or nothing, or a  *)
(* host key an operator agreed to.                                          *)
LEMMA RecordsStay ==
    ASSUME DestInv, UNCHANGED <<records, remote>>, host' \in Hosts, shown' \subseteq Hosts,
           agreed \subseteq agreed', agreed' \subseteq Hosts, sent' = sent,
           proc' \in [Procs -> Hands],
           \A q \in Procs : proc'[q] = proc[q] \/
              (proc'[q].pc \in {"idle", "install"} /\ (proc'[q].pc = "install" => proc'[q].hostKey \in agreed'))
    PROVE  DestInv'
<1>. USE BoundsAre
<1>0. UNCHANGED <<dest, repo, made, ids, data, home, sent>> /\ TypeOK
  BY DEF records, remote, DestInv
<1>1. Lasting
  BY <1>0 DEF Lasting, TypeOK
<1>2. HandsAreTrue'
  <2>1. ASSUME NEW q \in Procs PROVE HandTrue(proc[q])'
    <3>1. CASE proc'[q] = proc[q]
      <4>1. proc[q] \in Hands /\ HandTrue(proc[q])
        BY DEF DestInv, TypeOK, HandsAreTrue
      <4>2. \A f \in Hands : HandTrue(f) => HandTrue(f)'
        BY <1>0, <1>1, HandStays
      <4>. QED  BY <3>1, <4>1, <4>2 DEF HandTrue, Made
    <3>2. CASE proc'[q].pc \in {"idle", "install"} /\ (proc'[q].pc = "install" => proc'[q].hostKey \in agreed')
      BY <3>2 DEF HandTrue
    <3>. QED  BY <3>1, <3>2
  <2>. QED  BY <2>1 DEF HandsAreTrue
<1>3. MakingIsAlone'
  <2>1. \A q \in Procs : Making(q)' => Making(q) /\ proc'[q] = proc[q]
    BY DEF Making
  <2>2. \A q \in Procs : Making(q)' => Proved(proc[q])'
    BY <1>0, <2>1 DEF DestInv, MakingIsAlone, Proved, Made, Passwords
  <2>. QED  BY <2>1, <2>2 DEF DestInv, MakingIsAlone
<1>4. TypeOK'
  BY <1>0 DEF TypeOK
<1>5. NumbersAreFresh' /\ HomesAreReadable' /\ ChunksKept' /\ DestsArePlaced'
  BY <1>0 DEF DestInv, NumbersAreFresh, HomesAreReadable, ChunksKept, DestsArePlaced, Made, Passwords
<1>6. PasswordOnlyToAgreedHost'
  BY DEF DestInv, PasswordOnlyToAgreedHost
<1>. QED  BY <1>2, <1>3, <1>4, <1>5, <1>6 DEF DestInv

LEMMA FetchHostKeyKeeps ==
    ASSUME DestInv, NEW p \in Procs, FetchHostKey(p)
    PROVE  DestInv'
<1>0. /\ TypeOK /\ proc \in [Procs -> Hands] /\ proc[p] \in Hands
      /\ UNCHANGED <<records, remote>> /\ host' = host /\ sent' = sent
  BY DEF FetchHostKey, DestInv, TypeOK
<1>1. PICK confirmed \in shown \cup {"none"} :
          /\ agreed' = agreed \cup ({confirmed} \ {"none"})
          /\ shown' = IF confirmed = "none" THEN shown \cup {hostKeyOf(host)} ELSE shown
          /\ proc' = IF Confirmed(confirmed, hostKeyOf(host))
                     THEN [proc EXCEPT ![p].pc = "install", ![p].hostKey = hostKeyOf(host)]
                     ELSE proc
  BY DEF FetchHostKey
<1>2. /\ host' \in Hosts /\ shown' \subseteq Hosts /\ agreed \subseteq agreed' /\ agreed' \subseteq Hosts
  BY <1>0, <1>1 DEF TypeOK, hostKeyOf
<1>3. CASE proc' = proc
  BY <1>0, <1>2, <1>3, RecordsStay
<1>4. CASE proc' = [proc EXCEPT ![p].pc = "install", ![p].hostKey = host] /\ confirmed = host
  <2>1. host \in agreed'
    BY <1>0, <1>1, <1>4, DestinationsAssumption DEF TypeOK
  <2>. DEFINE g == proc[p]  h == [g EXCEPT !.pc = "install", !.hostKey = host]
  <2>2. proc' = [proc EXCEPT ![p] = h] /\ g \in Hands
    BY <1>0, <1>4
  <2>3. h \in Hands /\ h.pc = "install" /\ h.hostKey = host
    <3>. HIDE DEF g
    <3>. QED  BY <1>0, <2>2 DEF Hands, Steps, TypeOK
  <2>. HIDE DEF h
  <2>4. proc' \in [Procs -> Hands] /\ \A q \in Procs : proc'[q] = proc[q] \/ proc'[q] = h
    BY <1>0, <2>2, <2>3
  <2>5. \A q \in Procs : proc'[q] = proc[q] \/
              (proc'[q].pc \in {"idle", "install"} /\ (proc'[q].pc = "install" => proc'[q].hostKey \in agreed'))
    BY <2>1, <2>3, <2>4
  <2>. QED  BY <1>0, <1>2, <2>4, <2>5, RecordsStay
<1>. QED  BY <1>1, <1>3, <1>4 DEF Confirmed, hostKeyOf

LEMMA DisturbancesKeep ==
    ASSUME DestInv, HostChanges \/ Crash
    PROVE  DestInv'
<1>0. TypeOK /\ proc \in [Procs -> Hands]
  BY DEF DestInv, TypeOK
<1>1. CASE HostChanges
  BY <1>0, <1>1, RecordsStay DEF HostChanges, TypeOK
<1>2. CASE Crash
  <2>1. proc' \in [Procs -> Hands] /\ \A q \in Procs : proc'[q].pc = "idle"
    BY <1>2, EmptyHands DEF Crash
  <2>. QED  BY <1>0, <1>2, <2>1, RecordsStay DEF Crash, ssh, TypeOK
<1>. QED  BY <1>1, <1>2

-----------------------------------------------------------------------------
(* The invariant, and what follows from it                                  *)

LEMMA StartsTrue == Init => DestInv
<1>. SUFFICES ASSUME Init PROVE DestInv
  OBVIOUS
<1>. USE BoundsAre
<1>1. /\ dest = [i \in Ids |-> NoDest] /\ repo = [i \in Ids |-> NoRepo]
      /\ made = [i \in Ids |-> [born |-> 0, source |-> 0, pass |-> 0]] /\ ids = 0
      /\ home = [i \in Ids |-> "none"] /\ host \in Hosts /\ agreed = {} /\ shown = {} /\ sent = {}
      /\ proc = [p \in Procs |-> Idle]
      /\ data = [p \in Places |-> IF p \in Theirs THEN [key |-> Nobody, chunk |-> Nobody] ELSE NoData]
  BY DEF Init
<1>2. data \in [Places -> [key: 0..Nobody, chunk: 0..Nobody]]
  BY <1>1 DEF NoData
<1>3. \A x \in Places : data[x] = NoData \/ data[x].key = Nobody
  BY <1>1
<1>4. \A i \in Ids : ~Made(i)
  BY <1>1 DEF Made
<1>5. proc \in [Procs -> Hands] /\ \A p \in Procs : proc[p].pc = "idle"
  BY <1>1, EmptyHands
<1>6. TypeOK
  BY <1>1, <1>2, <1>5, EmptyHands DEF TypeOK
<1>7. NumbersAreFresh
  BY <1>1, <1>3, <1>4 DEF NumbersAreFresh, Passwords
<1>8. HomesAreReadable /\ ChunksKept
  BY <1>1, EmptyHands DEF HomesAreReadable, ChunksKept
<1>9. MakingIsAlone /\ HandsAreTrue /\ DestsArePlaced /\ PasswordOnlyToAgreedHost
  BY <1>1, <1>5 DEF MakingIsAlone, Making, HandsAreTrue, HandTrue, DestsArePlaced, PasswordOnlyToAgreedHost
<1>. QED  BY <1>6, <1>7, <1>8, <1>9 DEF DestInv

LEMMA StepsKeep == DestInv /\ [Next]_vars => DestInv'
<1>. SUFFICES ASSUME DestInv, [Next]_vars PROVE DestInv'
  OBVIOUS
<1>1. ASSUME NEW p \in Procs,
             \/ probeDestinations(p) \/ handleTestDestination(p) \/ TestDestination(p)
             \/ handleEditDestination(p) \/ DeleteDestination(p) \/ NoteRecoveryKey(p)
      PROVE  DestInv'
  BY <1>1, LookingKeeps
<1>2. ASSUME NEW p \in Procs,
             \/ handleSaveSchedule(p) \/ PutPolicy(p) \/ handleDeleteSchedule(p) \/ runBackup(p)
             \/ EnsureProvisioned(p) \/ InitFails(p) \/ MarkRepositoryInitialised(p)
      PROVE  DestInv'
  BY <1>2, SchedulingKeeps
<1>3. ASSUME NEW p \in Procs, AddDestination(p) \/ Attach(p) \/ InstallAuthorizedKey(p) \/ KeyToInstall(p)
      PROVE  DestInv'
  BY <1>3, AddingKeeps
<1>4. ASSUME NEW p \in Procs, Preflight(p) \/ SaveDestination(p) \/ DeletesDestination(p)
      PROVE  DestInv'
  BY <1>4, DestinationWrites
<1>5. ASSUME NEW p \in Procs, DeleteRepository(p) \/ PutNoted(p) \/ PutMarked(p)
      PROVE  DestInv'
  BY <1>5, RepositoryWrites
<1>6. ASSUME NEW p \in Procs, ReadRepositories(p) \/ PutRepository(p) \/ Open(p) \/ InitRepository(p) \/ FetchHostKey(p)
      PROVE  DestInv'
  BY <1>6, ReadRepositoriesKeeps, PutRepositoryKeeps, OpenKeeps, InitRepositoryKeeps, FetchHostKeyKeeps
<1>7. CASE HostChanges \/ Crash
  BY <1>7, DisturbancesKeep
<1>8. CASE UNCHANGED vars
  BY <1>8, StandsStill DEF vars
<1>. QED  BY <1>1, <1>2, <1>3, <1>4, <1>5, <1>6, <1>7, <1>8 DEF Next

LEMMA DestInvHolds == Spec => []DestInv
BY StartsTrue, StepsKeep, PTL DEF Spec

(* A repository recorded as created is one this server can read, for any    *)
(* number of requests, however they interleave and wherever the process     *)
(* dies: a home is only found or created with the password that the record  *)
(* in the making carries, and no step writes over data or changes a record  *)
(* that was made.                                                           *)
THEOREM WhatIsMarkedCanBeRead == Spec => []MarkedIsReadable
<1>1. DestInv => MarkedIsReadable
  BY DEF DestInv, HomesAreReadable, MarkedIsReadable
<1>. QED  BY <1>1, DestInvHolds, PTL

(* A repository this server created for a record with a chunker source      *)
(* splits files the way that source does: the source is opened with its own *)
(* password or nothing is created, and its data stays.                      *)
THEOREM CopiesShareChunks == Spec => []ChunksFollowTheSource
<1>1. DestInv => ChunksFollowTheSource
  BY DEF DestInv, ChunksKept, ChunksFollowTheSource
<1>. QED  BY <1>1, DestInvHolds, PTL

(* A password goes only to a host key that an operator was shown and        *)
(* confirmed, whoever answers on the address between and during requests.   *)
THEOREM PasswordStaysWithAgreedHosts == Spec => []PasswordOnlyToAgreedHost
<1>1. DestInv => PasswordOnlyToAgreedHost
  BY DEF DestInv
<1>. QED  BY <1>1, DestInvHolds, PTL
=============================================================================
