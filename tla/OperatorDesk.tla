----------------------------- MODULE OperatorDesk -----------------------------
(* Restores an operator asks for in WHM (internal/webui/handlers.go,        *)
(* confirm.go) and the baskets they are gathered in (nodestore/basket.go).  *)
(*                                                                          *)
(* Each tab holds at most one confirmation page and one request that is     *)
(* being served; the pages are plain HTML, so a page can be sent again, and *)
(* what two tabs and the account's own recovery centre do interleaves       *)
(* between one transaction of the state file and the next.  A restore point *)
(* is named by the moment it was taken, in one destination.                 *)
EXTENDS Naturals, FiniteSets

CONSTANTS
    Tabs, Accounts,
    Parts,        \* what can be chosen out of an account
    KindOf,       \* [Parts -> granular.Kind]
    Downloads,    \* kinds that cannot be written back (not CanApply)
    MaxClock,     \* bound: restore points taken
    MaxChanges,   \* bound: changes of a basket
    MaxAsked,     \* bound: confirmation pages
    MaxEvents     \* bound: days, removals, creations and restarts

Kinds  == {KindOf[x] : x \in Parts}
Points == 1..MaxClock
Owners == {"account", "whm"}
Keys   == Owners \X Accounts \X Points

ASSUME DeskAssumption ==
    /\ Downloads \subseteq Kinds
    /\ {MaxClock, MaxChanges, MaxAsked, MaxEvents} \subseteq Nat

VARIABLES
    clock,        \* the last restore point taken
    taken,        \* [Accounts -> SUBSET Points], the complete ones
    gone,         \* names whose account has been removed
    unserved,     \* names of removed accounts whose removal is not on record
    tenure,       \* [Accounts -> Nat], how many holders a name has had before
    basket,       \* [Keys -> SUBSET Choices]
    stale,        \* keys of baskets nobody has changed for BasketLife
    page,         \* [Tabs -> the confirmation page it shows]
    run,          \* [Tabs -> the request that is being served]
    flight,       \* [Accounts -> the restore in flight, or NoRestore]
    process,      \* its CSRF token is in every page it drew
    changes, asked, events

baskets == <<basket, stale, changes>>
accounts == <<gone, unserved, tenure, events>>
points == <<clock, taken>>
vars == <<points, accounts, baskets, flight, page, run, process, asked>>

\* What was ticked, on the page of which backup, in whose time, and whether
\* the account's removal was on record by then
Choices == [part : Parts, account : Accounts, point : Points, tenure : Nat, late : BOOLEAN]

\* A request: its form, and what the page before it said
NoRequest == [form |-> "none", accounts |-> {}, point |-> 0, chosen |-> {},
              apply |-> FALSE, process |-> 0, moved |-> FALSE]
NoRestore == [account |-> {}, point |-> 0, chosen |-> {}, apply |-> FALSE,
              form |-> "none", said |-> NoRequest]
Serving   == [at |-> "idle", todo |-> {}, req |-> NoRequest, said |-> NoRequest]

Key(owner, a, pt) == <<owner, a, pt>>

BasketIn(key) == IF key \in stale THEN {} ELSE basket[key]

KeyOf(r) == Key("whm", CHOOSE a \in r.accounts : TRUE, r.point)

\* Pages that name what was in a basket that has changed since
Moved(new) ==
    page' = [o \in Tabs |->
        IF page[o].form = "basket" /\ new[KeyOf(page[o])] # basket[KeyOf(page[o])]
        THEN [page[o] EXCEPT !.moved = TRUE] ELSE page[o]]

-----------------------------------------------------------------------------
(* Baskets.                                                                 *)

\* changeBasket: one transaction, which starts an old basket afresh and
\* sweeps the other old ones away
changeBasket(key, held) ==
    /\ changes < MaxChanges /\ changes' = changes + 1
    /\ LET new == [k \in Keys |-> IF k = key THEN held
                                  ELSE IF k \in stale THEN {} ELSE basket[k]]
       IN basket' = new /\ Moved(new)
    /\ stale' = {}
    /\ UNCHANGED <<points, accounts, flight, run, process, asked>>

Ticked(ps, a, pt) ==
    [part : ps, account : {a}, point : {pt}, tenure : {tenure[a]}, late : {a \in gone \ unserved}]

withoutKind(held, kinds) == {c \in held : KindOf[c.part] \notin kinds}

\* A form of tick boxes replaces what was chosen of its kind
withSelection(held, ticked) ==
    withoutKind(held, {KindOf[c.part] : c \in ticked}) \cup ticked

\* A button on one row adds to it
withMoreNames(held, ticked) == held \cup ticked

\* An operator chooses for a name whether it is in use or not, an account until
\* its removal is on record
MayChoose(owner, a, pt) == pt \in taken[a] /\ (owner = "account" => a \notin gone \ unserved)

PutInBasket(owner, a, pt, ps) ==
    LET key == Key(owner, a, pt) IN
    MayChoose(owner, a, pt)
        /\ changeBasket(key, withSelection(BasketIn(key), Ticked(ps, a, pt)))

AddToBasket(owner, a, pt, ps) ==
    LET key == Key(owner, a, pt) IN
    MayChoose(owner, a, pt)
        /\ changeBasket(key, withMoreNames(BasketIn(key), Ticked(ps, a, pt)))

TakeFromBasket(owner, a, pt, kind) ==
    LET key == Key(owner, a, pt) IN
    MayChoose(owner, a, pt) /\ changeBasket(key, withoutKind(BasketIn(key), {kind}))

\* The key is deleted
Without(keys) ==
    LET new == [k \in Keys |-> IF k \in keys THEN {} ELSE basket[k]] IN
    /\ basket' = new /\ Moved(new)
    /\ stale' = stale \ keys
    /\ UNCHANGED changes

EmptyBasket(owner, a, pt) ==
    /\ basket[Key(owner, a, pt)] # {}
    /\ Without({Key(owner, a, pt)})
    /\ UNCHANGED <<points, accounts, flight, run, process, asked>>

\* What else happens
Event == events < MaxEvents /\ events' = events + 1

\* A day passes over a basket
GrowsOld(key) ==
    /\ Event /\ basket[key] # {} /\ key \notin stale
    /\ stale' = stale \cup {key}
    /\ UNCHANGED <<points, gone, unserved, tenure, basket, changes, flight, page, run, process, asked>>

-----------------------------------------------------------------------------
(* The confirmation page.                                                   *)

\* newestForRecovery: at most one.  (It passes over backups that leave out
\* databases, mail or files; none of those is taken here.)
Newest(a, day) ==
    {p \in taken[a] : p <= day /\ \A q \in taken[a] : q <= day => q <= p}

\* askFirst: the page carries the request it was asked with
askFirst(o, r) ==
    /\ run[o].at = "idle" /\ asked < MaxAsked
    /\ asked' = asked + 1
    /\ page' = [page EXCEPT ![o] = [r EXCEPT !.process = process]]
    /\ UNCHANGED <<points, accounts, baskets, flight, run, process>>

Request(form, S, pt, chosen) ==
    [form |-> form, accounts |-> S, point |-> pt, chosen |-> chosen,
     apply |-> TRUE, process |-> 0, moved |-> FALSE]

\* handleRecoverAccount: the newest backup is resolved before the page
handleRecoverAccount(o, a) ==
    \E p \in Newest(a, clock) : askFirst(o, Request("whole", {a}, p, {}))

\* handleStartRestore: a backup the operator picked
handleStartRestore(o, a) ==
    \E p \in taken[a] : askFirst(o, Request("whole", {a}, p, {}))

\* handleRestoreItems: items of one kind, without a basket
handleRestoreItems(o, a, ps) ==
    /\ \A x, y \in ps : KindOf[x] = KindOf[y]
    /\ \E p \in taken[a] : askFirst(o, Request("items", {a}, p, Ticked(ps, a, p)))

\* handleRecoverAccounts: a date, which each account resolves when it is queued.
\* Today, and no date, are the last there will be.
handleRecoverAccounts(o, S) ==
    \E day \in Points : askFirst(o, Request("many", S, day, {}))

\* startBasket, to be written back
startBasket(o, a) ==
    \E p \in taken[a] :
        /\ BasketIn(Key("whm", a, p)) # {}
        /\ askFirst(o, Request("basket", {a}, p, BasketIn(Key("whm", a, p))))

-----------------------------------------------------------------------------
(* The confirmed request.                                                   *)

\* startBasket reads the basket again, whatever its page said
Read(r) ==
    IF r.form = "basket" THEN [r EXCEPT !.chosen = BasketIn(KeyOf(r))] ELSE r

Serve(o, r, said) ==
    run' = [run EXCEPT ![o] = [at |-> "queue", todo |-> r.accounts, req |-> r, said |-> said]]

\* A page may be sent more than once; one of an earlier process is refused
Confirm(o) ==
    /\ run[o].at = "idle"
    /\ page[o].form # "none" /\ page[o].process = process
    /\ page[o].form = "basket" => Read(page[o]).chosen # {}
    /\ Serve(o, Read(page[o]), page[o])
    /\ UNCHANGED <<points, accounts, baskets, flight, page, process, asked>>

\* startBasket, to be downloaded: no page in between
Download(o, a) ==
    \E p \in taken[a] :
        LET r == [Request("basket", {a}, p, BasketIn(Key("whm", a, p))) EXCEPT !.apply = FALSE] IN
        /\ run[o].at = "idle" /\ r.chosen # {}
        /\ Serve(o, r, r)
        /\ UNCHANGED <<points, accounts, baskets, flight, page, process, asked>>

\* Mutant: the backup that was resolved does not travel on
PointsResolvedAnew(r, a) ==
    IF r.form = "many" THEN Newest(a, r.point)
    ELSE IF r.form = "whole" THEN Newest(a, clock) ELSE {r.point}

\* Which backup of a is to be restored
PointsFor(r, a) == IF r.form = "many" THEN Newest(a, r.point) ELSE {r.point}

Busy(a) == flight[a] # NoRestore

InFlight == {flight[a] : a \in Accounts}

\* QueueRestore refuses a busy account, and to write back what cannot be
Refuses(r, a) ==
    \/ Busy(a)
    \/ r.apply /\ \E c \in r.chosen : KindOf[c.part] \in Downloads

Done(o, a, then) ==
    run' = [run EXCEPT ![o] = IF run[o].todo = {a} /\ then = "idle" THEN Serving
                              ELSE [at |-> IF then = "idle" THEN "queue" ELSE then,
                                    todo |-> run[o].todo \ {a},
                                    req |-> run[o].req, said |-> run[o].said]]

QueueRestore(o, a) ==
    LET r == run[o].req IN
    /\ run[o].at = "queue" /\ a \in run[o].todo
    /\ \/ /\ PointsFor(r, a) = {} \/ Refuses(r, a)
          /\ Done(o, a, "idle")
          /\ UNCHANGED flight
       \/ \E p \in PointsFor(r, a) :
            /\ ~Refuses(r, a)
            /\ flight' = [flight EXCEPT ![a] = [account |-> a, point |-> p, chosen |-> r.chosen,
                  apply |-> r.apply, form |-> r.form,
                  said |-> [run[o].said EXCEPT !.moved = page[o].moved]]]
            /\ Done(o, a, IF r.form = "basket" THEN "empty" ELSE "idle")
    /\ UNCHANGED <<points, accounts, baskets, page, process, asked>>

\* What was queued is taken out: whatever the basket holds by now
EmptyAfterwards(o) ==
    /\ run[o].at = "empty"
    /\ Without({KeyOf(run[o].req)})
    /\ run' = [run EXCEPT ![o] = Serving]
    /\ UNCHANGED <<points, accounts, flight, process, asked>>

-----------------------------------------------------------------------------
(* Everything else that happens meanwhile.                                  *)

BackUp(a) ==
    /\ a \notin gone /\ ~Busy(a) /\ clock < MaxClock
    /\ clock' = clock + 1
    /\ taken' = [taken EXCEPT ![a] = @ \cup {clock + 1}]
    /\ UNCHANGED <<accounts, baskets, flight, page, run, process, asked>>

WorkEnds(a) ==
    /\ Busy(a) /\ flight' = [flight EXCEPT ![a] = NoRestore]
    /\ UNCHANGED <<points, accounts, baskets, page, run, process, asked>>

\* Mutant: the prefix names the account's own baskets only
deleteOwnBasketsOf(a) == {k \in Keys : k[1] = "account" /\ k[2] = a}

\* deleteBasketsOf: both owners' baskets are under the account's prefix
deleteBasketsOf(a) == {k \in Keys : k[2] = a}

\* cPanel removes the account, and starts the hook that says so
Terminate(a) ==
    /\ Event /\ a \notin gone
    /\ gone' = gone \cup {a} /\ unserved' = unserved \cup {a}
    /\ UNCHANGED <<points, tenure, baskets, flight, page, run, process, asked>>

\* The hook, or a replay of it: before the name is in use again, after, or never
AccountRemoved(a) ==
    /\ a \in unserved /\ unserved' = unserved \ {a}
    /\ Without(deleteBasketsOf(a))
    /\ UNCHANGED <<points, gone, tenure, events, flight, run, process, asked>>

\* The name is handed out again, and nothing is done about its baskets
AccountCreated(a) ==
    /\ Event /\ a \in gone
    /\ gone' = gone \ {a} /\ tenure' = [tenure EXCEPT ![a] = @ + 1]
    /\ UNCHANGED <<points, unserved, baskets, flight, page, run, process, asked>>

\* The service restarts: requests end where they are, work that was running is
\* closed and work that was pending is kept
Restart ==
    /\ Event /\ process' = process + 1
    /\ run' = [o \in Tabs |-> Serving]
    /\ \E closed \in SUBSET Accounts :
          flight' = [a \in Accounts |-> IF a \in closed THEN NoRestore ELSE flight[a]]
    /\ UNCHANGED <<points, gone, unserved, tenure, baskets, page, asked>>

-----------------------------------------------------------------------------
Init ==
    /\ clock = 0 /\ taken = [a \in Accounts |-> {}]
    /\ gone = {} /\ unserved = {} /\ tenure = [a \in Accounts |-> 0]
    /\ basket = [k \in Keys |-> {}] /\ stale = {}
    /\ page = [o \in Tabs |-> NoRequest] /\ run = [o \in Tabs |-> Serving]
    /\ flight = [a \in Accounts |-> NoRestore] /\ process = 1 /\ changes = 0 /\ asked = 0 /\ events = 0

Choosing ==
    \E owner \in Owners, a \in Accounts, pt \in Points :
        \/ \E ps \in SUBSET Parts \ {{}} :
              /\ \A x, y \in ps : KindOf[x] = KindOf[y]
              /\ PutInBasket(owner, a, pt, ps) \/ AddToBasket(owner, a, pt, ps)
        \/ \E kind \in Kinds : TakeFromBasket(owner, a, pt, kind)
        \/ EmptyBasket(owner, a, pt)

Asking(o) ==
    \/ \E a \in Accounts : \/ handleRecoverAccount(o, a) \/ handleStartRestore(o, a)
                           \/ startBasket(o, a) \/ Download(o, a)
                           \/ \E ps \in SUBSET Parts \ {{}} : handleRestoreItems(o, a, ps)
    \/ \E S \in SUBSET Accounts \ {{}} : handleRecoverAccounts(o, S)

Serves(o) == Confirm(o) \/ EmptyAfterwards(o) \/ \E a \in Accounts : QueueRestore(o, a)

Next ==
    \/ Choosing \/ (\E key \in Keys : GrowsOld(key))
    \/ \E o \in Tabs : Asking(o) \/ Serves(o)
    \/ \E a \in Accounts : BackUp(a) \/ WorkEnds(a) \/ Terminate(a) \/ AccountRemoved(a) \/ AccountCreated(a)
    \/ Restart

Spec == Init /\ [][Next]_vars

-----------------------------------------------------------------------------
Requests ==
    [form : {"none", "whole", "items", "many", "basket"}, accounts : SUBSET Accounts,
     point : 0..MaxClock, chosen : SUBSET Choices, apply : BOOLEAN, process : Nat, moved : BOOLEAN]

\* Baskets hold choices, and pages and requests are what the forms can send.
TypeOK ==
    /\ clock \in 0..MaxClock /\ taken \in [Accounts -> SUBSET Points]
    /\ gone \subseteq Accounts /\ unserved \subseteq Accounts /\ tenure \in [Accounts -> Nat]
    /\ basket \in [Keys -> SUBSET Choices] /\ stale \subseteq Keys
    /\ page \in [Tabs -> Requests] /\ process \in Nat
    /\ run \in [Tabs -> [at : {"idle", "queue", "empty"}, todo : SUBSET Accounts,
                         req : Requests, said : Requests]]

\* What is written into a live account is what the page the operator ticked
\* said: that backup, those items, a backup no later than that day.  A basket
\* somebody changed after the page was drawn is the exception: it is read
\* again, and nothing compares the two (startBasket).
AppliesWhatWasRead ==
    \A r \in InFlight : r.apply =>
        /\ r.account \in r.said.accounts
        /\ r.form \in {"whole", "items", "basket"} => r.point = r.said.point
        /\ r.form = "many" => r.point <= r.said.point
        /\ r.form = "items" => r.chosen = r.said.chosen
        /\ r.form = "basket" => r.chosen = r.said.chosen \/ r.said.moved

\* A basket is restored from the backup it was filled from, for the account
\* it was filled from, however many tabs fill and start baskets at once
\* (basketKey: "a basket assembled out of Tuesday's backup is not a basket out
\* of Monday's").
ChosenFromThatBackup ==
    \A r \in InFlight : \A c \in r.chosen : c.account = r.account /\ c.point = r.point

\* Once the removal of an account is on record, nothing that was chosen before
\* is handed to the next holder of its name, whoever chose it, however often
\* the name changes hands and however late the record is made (AccountRemoved:
\* "a future owner of the same username must not be handed the last
\* customer's").  What is chosen after the record and before the name is in use
\* again is the exception: AccountCreated leaves the baskets as they are.
BasketGoesWithItsHolder ==
    \A k \in Keys : \A c \in basket[k] :
        c.late \/ c.account \in unserved \/ c.tenure = tenure[c.account]
=============================================================================
