---------------------------- MODULE RecoveryCentre ----------------------------
(* The recovery centre a cPanel account reaches over its own socket.        *)
(*                                                                          *)
(* A request comes over a counted connection, spends a one-use capability   *)
(* that was issued against a live cPanel session, waits its turn for the    *)
(* account, passes a feature check that is cached, and then changes the     *)
(* account's basket or starts a restore from it.                            *)
(*                                                                          *)
(* The clock moves at any moment, also between a request's reading it and   *)
(* what the request then does about what it read.                           *)
EXTENDS Naturals, FiniteSets

CONSTANTS
    Requests,      \* connections of the account's processes
    Strangers,     \* connections that belong to no cPanel account
    Items,         \* parts of the account that can be chosen
    Downloads,     \* those of them that cannot be written back (Kind.CanApply)
    Left,          \* baskets an earlier visit may have left
    Lifetime,      \* capabilityLifetime, in ticks
    TTL,           \* featureCacheTTL, in ticks
    MaxTotal, MaxPerUID, \* the connection budget
    MaxTokens, MaxClock, MaxChanges, MaxCrashes

Tokens == 1..MaxTokens
Conns == Requests \cup Strangers

ASSUME CentreAssumption ==
    /\ Requests \cap Strangers = {} /\ IsFiniteSet(Conns) /\ Downloads \subseteq Items
    /\ Left \subseteq SUBSET Items
    /\ {Lifetime, TTL, MaxTotal, MaxPerUID} \subseteq Nat \ {0}
    /\ {MaxTokens, MaxClock, MaxChanges, MaxCrashes} \subseteq Nat

VARIABLES
    clock,
    session,     \* the account has a live cPanel session
    feature, offAt, \* Feature Manager allows it, and when it last stopped
    token,       \* capabilities minted: when, by which process, for what
    issued,
    process,     \* which process this is: its key signs its capabilities
    used,        \* nonces spent that have not been swept (accountSessionAuth.used)
    spent,       \* how often a capability has been accepted
    total, byUID,\* connectionBudget
    req,         \* each connection and the request on it
    busy,        \* inFlight.count for the account
    decision,    \* the feature gate's cached answer
    basket,      \* the account's basket
    told,        \* what the account has been told is in it
    working,     \* the account has work in flight
    changes, crashes

centre == <<busy, decision, basket, told>>
auth == <<token, issued, process, used, spent, session>>
budget == <<total, byUID>>
vars == <<clock, feature, offAt, auth, budget, req, centre, working, changes, crashes>>

Closed == [pc |-> "closed", token |-> 0, at |-> 0, answer |-> FALSE, seen |-> {}]
NoDecision == [allowed |-> FALSE, until |-> 0]

Init ==
    /\ clock = 0 /\ session = TRUE /\ feature = TRUE /\ offAt = 0
    /\ token = [t \in Tokens |-> [iat |-> 0, process |-> 0, target |-> "none"]]
    /\ issued = 0 /\ process = 1 /\ used = {} /\ spent = [t \in Tokens |-> 0]
    /\ total = 0 /\ byUID = [u \in {"account", "stranger"} |-> 0]
    /\ req = [c \in Conns |-> Closed]
    /\ busy = 0 /\ decision = NoDecision
    /\ basket \in Left /\ told = basket
    /\ working = FALSE
    /\ changes = 0 /\ crashes = 0

At(c, pc) == req[c].pc = pc
Moves(c, pc) == req' = [req EXCEPT ![c].pc = pc]
Returns(c) == req' = [req EXCEPT ![c] = [Closed EXCEPT !.pc = "open"]]

--------------------------------------------------------------------------
(* Connections.                                                            *)

Uid(c) == IF c \in Requests THEN "account" ELSE "stranger"

\* The second Close of a connection gives nothing back (sync.Once).
releasedByClosingAgain(n) == n

acquire(c) == total < MaxTotal /\ byUID[Uid(c)] < MaxPerUID

Accept(c) ==
    /\ At(c, "closed") /\ acquire(c)
    /\ total' = total + 1 /\ byUID' = [byUID EXCEPT ![Uid(c)] = @ + 1]
    /\ Returns(c)
    /\ UNCHANGED <<clock, feature, offAt, auth, centre, working, changes, crashes>>

Close(c) ==
    /\ At(c, "open") /\ Moves(c, "closing")
    /\ total' = total - 1 /\ byUID' = [byUID EXCEPT ![Uid(c)] = @ - 1]
    /\ UNCHANGED <<clock, feature, offAt, auth, centre, working, changes, crashes>>

\* net/http may close a connection more than once.
CloseAgain(c) ==
    /\ At(c, "closing") /\ req' = [req EXCEPT ![c] = Closed]
    /\ total' = IF total > 0 THEN releasedByClosingAgain(total) ELSE 0
    /\ byUID' = [byUID EXCEPT ![Uid(c)] = IF @ > 0 THEN releasedByClosingAgain(@) ELSE 0]
    /\ UNCHANGED <<clock, feature, offAt, auth, centre, working, changes, crashes>>

--------------------------------------------------------------------------
(* Capabilities.                                                           *)

\* Who may have logged in: the account's owner and the members of its team.
Owner == "owner"
Team == {"editor", "admin"}
Nobody == "nobody"

\* cPanel's own record of a login: whether it is intact, authenticated and not
\* expired, the user it names, and the team members its markers name.
SessionRecords == [sound : BOOLEAN, key : BOOLEAN, user : {Owner} \cup Team, markers : SUBSET Team]

\* Markers that contradict each other are no answer.
sessionTeamUser(s) == CHOOSE m \in Team \cup {Nobody} :
    IF s.markers = {} THEN m = Nobody ELSE m \in s.markers

\* Mutant: an owner-shaped record is believed whatever its markers say.
SessionPrincipalUnmarked(s, expected) ==
    IF expected = Nobody
    THEN IF s.user = Owner THEN Owner ELSE Nobody
    ELSE IF s.user \in {Owner, expected} THEN expected ELSE Nobody

\* Whose login a record is.  The account's own socket names no principal and
\* the record must be the account's; cPanel's bridge names one, and the record
\* must agree, in the form older releases wrote and in the newer one.
SessionPrincipal(s, expected) ==
    LET team == sessionTeamUser(s)
    IN  IF Cardinality(s.markers) > 1 THEN Nobody
        ELSE CASE expected = Nobody ->
                    IF s.user # Owner THEN Nobody ELSE IF team = Nobody THEN Owner ELSE team
               [] expected = Owner ->
                    IF s.user = Owner /\ team = Nobody THEN Owner ELSE Nobody
               [] OTHER ->
                    IF (s.user = expected \/ (s.user = Owner /\ team = expected)) /\ team \in {Nobody, expected}
                    THEN expected ELSE Nobody

\* The Team role is asked for now, whatever it was at the login.
cpanelTeamAdministrator(who, administrators) == who \in administrators

\* The session key is wanted where the account's own process asks; the
\* root-owned bridge is not given one.
verifyCPanelSession(s, expected, requireSessionKey, administrators) ==
    /\ s.sound /\ (requireSessionKey => s.key)
    /\ LET who == SessionPrincipal(s, expected)
       IN  who = Owner \/ (who # Nobody /\ cpanelTeamAdministrator(who, administrators))

\* Logins that pass for one of these principals under some state of the roles.
Passing(expected, requireSessionKey) ==
    {s \in SessionRecords : \E e \in expected, administrators \in SUBSET Team :
        verifyCPanelSession(s, e, requireSessionKey, administrators)}

SocketLogins == Passing({Nobody}, TRUE)
BridgeLogins == Passing({Nobody, Owner} \cup Team, FALSE)

\* A session is verified against cPanel's record at this moment, and what is
\* minted serves one kind of request.
issueWithProof(logins) ==
    /\ session /\ logins # {} /\ issued < MaxTokens
    /\ issued' = issued + 1
    /\ \E target \in {"browse", "restore"} :
          token' = [token EXCEPT ![issued'] = [iat |-> clock, process |-> process, target |-> target]]
    /\ UNCHANGED <<clock, feature, offAt, process, used, spent, session, budget, req, centre,
                   working, changes, crashes>>

\* Only a connection that belongs to an account is answered.
Attributed(c) == At(c, "open") /\ Uid(c) = "account"

issueUserCapability(c) == Attributed(c) /\ issueWithProof(SocketLogins)

\* cPanel's AdminBin asks over the root-owned socket.
issueAdminUserCapability == issueWithProof(BridgeLogins)

Expiry(t) == token[t].iat + Lifetime

\* consume, up to its lock: signed by this process and not expired.
verify(c) ==
    /\ Attributed(c)
    /\ \E t \in 1..issued :
          /\ token[t].process = process /\ clock < Expiry(t)
          /\ req' = [req EXCEPT ![c].pc = "verified", ![c].token = t, ![c].at = clock]
    /\ UNCHANGED <<clock, feature, offAt, auth, budget, centre, working, changes, crashes>>

\* Mutant: a nonce is forgotten while its capability can still be used.
SweptEarly(now) == {t \in used : Expiry(t) > now + 1}

\* Nonces that have expired are swept, and only those.
Swept(now) == {t \in used : Expiry(t) > now}

consume(c) ==
    /\ At(c, "verified")
    /\ LET t == req[c].token
           kept == Swept(req[c].at)
       IN  IF t \in kept
           THEN used' = kept /\ Returns(c) /\ UNCHANGED spent
           ELSE /\ used' = kept \cup {t}
                /\ spent' = [spent EXCEPT ![t] = @ + 1]
                /\ Moves(c, "accepted")
    /\ UNCHANGED <<clock, feature, offAt, token, issued, process, session, budget, centre, working,
                   changes, crashes>>

--------------------------------------------------------------------------
(* One request at a time, and the feature gate.                            *)

\* Mutant: requests of one account are not held apart.
RoomAlways(n) == TRUE

\* inFlight's limit.
Room(n) == n < 1

enter(c) ==
    /\ At(c, "accepted")
    /\ IF Room(busy) THEN busy' = busy + 1 /\ Moves(c, "entered")
                     ELSE UNCHANGED busy /\ Returns(c)
    /\ UNCHANGED <<clock, feature, offAt, auth, budget, decision, basket, told, working,
                   changes, crashes>>

Leaves(c) == Returns(c) /\ busy' = busy - 1

\* Mutant: the answer is kept from when it came rather than from when it was asked.
UntilAnswered(c) == clock + TTL

\* What is cached is dated from before cPanel was asked.
Until(c) == req[c].at + TTL

\* The gate reads the clock before it looks for an answer.
reachGate(c) ==
    /\ At(c, "entered") /\ req' = [req EXCEPT ![c].pc = "gate", ![c].at = clock]
    /\ UNCHANGED <<clock, feature, offAt, auth, budget, centre, working, changes, crashes>>

\* A cached answer that had not run out then is used; otherwise cPanel is asked.
allowed(c) ==
    /\ At(c, "gate")
    /\ IF req[c].at < decision.until
       THEN IF decision.allowed THEN Moves(c, "serving") /\ UNCHANGED busy ELSE Leaves(c)
       ELSE Moves(c, "asking") /\ UNCHANGED busy
    /\ UNCHANGED <<clock, feature, offAt, auth, budget, decision, basket, told, working,
                   changes, crashes>>

cpanelFeatureEnabled(c) ==
    /\ At(c, "asking")
    /\ req' = [req EXCEPT ![c].pc = "answered", ![c].answer = feature]
    /\ UNCHANGED <<clock, feature, offAt, auth, budget, centre, working, changes, crashes>>

\* A check that fails, or is stopped by its timeout, refuses the request and is
\* not remembered.
gate(c) ==
    /\ At(c, "answered")
    /\ \/ Leaves(c) /\ UNCHANGED decision
       \/ /\ decision' = [allowed |-> req[c].answer, until |-> Until(c)]
          /\ IF req[c].answer THEN Moves(c, "serving") /\ UNCHANGED busy ELSE Leaves(c)
    /\ UNCHANGED <<clock, feature, offAt, auth, budget, basket, told, working, changes, crashes>>

--------------------------------------------------------------------------
(* What a request does.                                                    *)

Serves(c, target) == At(c, "serving") /\ token[req[c].token].target = target

handleUserBrowse(c) ==
    /\ Serves(c, "browse") /\ Leaves(c)
    /\ UNCHANGED <<clock, feature, offAt, auth, budget, decision, basket, told, working, changes, crashes>>

PutInBasket(b, i) == b \cup {i}
TakeFromBasket(b, i) == b \ {i}

\* One transaction, and the account is told what came of it.
changeUserBasket(c) ==
    /\ Serves(c, "restore") /\ Leaves(c)
    /\ changes < MaxChanges /\ changes' = changes + 1
    /\ \/ \E i \in Items : basket' = PutInBasket(basket, i) /\ told' = told \cup {i}
       \/ \E i \in Items : basket' = TakeFromBasket(basket, i) /\ told' = told \ {i}
       \/ basket' = {} /\ told' = {}
       \/ UNCHANGED <<basket, told>>
    /\ UNCHANGED <<clock, feature, offAt, auth, budget, decision, working, crashes>>

\* userBasketRestore: an empty basket starts nothing, and one part that cannot
\* be written back makes putting it back impossible.
Startable(items, apply) == items # {} /\ (apply => items \cap Downloads = {})

\* userRestoreRequest: one part asked for by itself.
StartableAlone(i, apply) == apply => i \notin Downloads

\* One part asked for by itself, which leaves the basket alone, or the basket.
handleUserRestore(c) ==
    /\ Serves(c, "restore")
    /\ \/ req' = [req EXCEPT ![c].pc = "starting", ![c].seen = basket]
       \/ \E i \in Items : req' = [req EXCEPT ![c].pc = "starting one", ![c].seen = {i}]
    /\ UNCHANGED <<clock, feature, offAt, auth, budget, centre, working, changes, crashes>>

\* Whose backup it is and whether work is in flight are asked before anything
\* is queued; a refusal leaves the basket as it was.
queueUserRestore(c) ==
    /\ req[c].pc \in {"starting", "starting one"}
    /\ \/ Leaves(c) /\ UNCHANGED working
       \/ \E apply \in BOOLEAN :
             /\ IF At(c, "starting") THEN Startable(req[c].seen, apply)
                ELSE \A i \in req[c].seen : StartableAlone(i, apply)
             /\ ~working
             /\ working' = TRUE
             /\ IF At(c, "starting") THEN Moves(c, "queued") /\ UNCHANGED busy ELSE Leaves(c)
    /\ UNCHANGED <<clock, feature, offAt, auth, budget, decision, basket, told, changes, crashes>>

\* A basket that has been asked for is no longer a choice being made.  If it
\* cannot be emptied it is offered again.
EmptyBasket(c) ==
    /\ At(c, "queued") /\ Leaves(c)
    /\ basket' \in {{}, basket}
    /\ told' = told \ req[c].seen
    /\ UNCHANGED <<clock, feature, offAt, auth, budget, decision, working, changes, crashes>>

--------------------------------------------------------------------------
(* Around it.                                                              *)

WorkEnds ==
    /\ working /\ working' = FALSE
    /\ UNCHANGED <<clock, feature, offAt, auth, budget, req, centre, changes, crashes>>

Tick ==
    /\ clock < MaxClock /\ clock' = clock + 1
    /\ UNCHANGED <<feature, offAt, auth, budget, req, centre, working, changes, crashes>>

HostDisables ==
    /\ feature /\ feature' = FALSE /\ offAt' = clock
    /\ UNCHANGED <<clock, auth, budget, req, centre, working, changes, crashes>>

LogsOut ==
    /\ session /\ session' = FALSE
    /\ UNCHANGED <<clock, feature, offAt, token, issued, process, used, spent, budget, req, centre,
                   working, changes, crashes>>

\* Everything but the state file goes: connections, keys, nonces, decisions.
Crash ==
    /\ crashes < MaxCrashes /\ crashes' = crashes + 1
    /\ process' = process + 1 /\ used' = {}
    /\ total' = 0 /\ byUID' = [u \in DOMAIN byUID |-> 0]
    /\ req' = [c \in Conns |-> Closed]
    /\ busy' = 0 /\ decision' = NoDecision /\ working' = FALSE
    /\ UNCHANGED <<clock, feature, offAt, token, issued, spent, session, basket, told, changes>>

Next ==
    \/ \E c \in Conns :
          \/ Accept(c) \/ Close(c) \/ CloseAgain(c) \/ issueUserCapability(c) \/ verify(c) \/ consume(c)
          \/ enter(c) \/ reachGate(c) \/ allowed(c) \/ cpanelFeatureEnabled(c) \/ gate(c)
          \/ handleUserBrowse(c) \/ changeUserBasket(c) \/ handleUserRestore(c)
          \/ queueUserRestore(c) \/ EmptyBasket(c)
    \/ issueAdminUserCapability
    \/ WorkEnds \/ Tick \/ HostDisables \/ LogsOut \/ Crash

Spec == Init /\ [][Next]_vars

--------------------------------------------------------------------------
(* Properties.                                                             *)

Open == {c \in Conns : ~At(c, "closed") /\ ~At(c, "closing")}

NonePassesForAnother ==
    \A s \in SessionRecords, e \in {Nobody, Owner} \cup Team, key \in BOOLEAN, administrators \in SUBSET Team :
       verifyCPanelSession(s, e, key, administrators) =>
          LET people == s.markers \cup ({s.user} \ {Owner})
          IN  Cardinality(people) <= 1 /\ people \subseteq administrators

\* A capability is minted only on the login of the owner or of a team member who
\* is an administrator now: of every record cPanel can hold and every principal
\* the bridge can name, none passes for another's.
LoginIsEntitled == issued > 0 => NonePassesForAnother

\* The budget counts the connections that are open, each once, however often a
\* connection is closed: places neither leak away nor are given out twice.
BudgetIsExact ==
    /\ total = Cardinality(Open)
    /\ \A u \in DOMAIN byUID : byUID[u] = Cardinality({c \in Open : Uid(c) = u})

\* As long as it lasts a capability serves one request, also when it is sent
\* twice at once and while nonces are being swept.  A request that read the clock
\* before the expiry and got the lock after it may find the nonce swept: that is
\* the one way a capability is accepted again.
ServesOnce ==
    [][\A t \in Tokens : spent'[t] # spent[t] /\ clock < Expiry(t) => spent[t] = 0]_vars

\* No request that reaches the feature gate later than the cache's life after the
\* host has turned the feature off is served, by a remembered answer or by its own,
\* however long cPanel took over either.
CutOffInTime ==
    [][\A c \in Conns : ~At(c, "serving") /\ req'[c].pc = "serving" =>
          feature \/ req[c].at < offAt + TTL]_vars

\* Nothing the account has been told is in its basket is lost: it is there
\* until it is taken out or has been asked for in a restore.  That a basket
\* nobody touches for a day is emptied (basket.go:45) is left out.
NothingChosenIsLost == told \subseteq basket
==========================================================================
