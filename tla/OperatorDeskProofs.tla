--------------------------- MODULE OperatorDeskProofs ---------------------------
(* What a confirmed restore writes, and whose baskets are whose, for any     *)
(* tabs, accounts, parts and numbers of pages, changes and events.           *)
EXTENDS OperatorDesk, TLAPS

\* While the name is in use it is the holder's time, unless the record is late
Timely(c) ==
    c.late \/ c.account \in unserved \/ (c.tenure = tenure[c.account] /\ c.account \notin gone)

\* A basket is filled from one backup of one account, in one holder's time
BasketsAreOfOneBackup ==
    \A k \in Keys : \A c \in basket[k] : c.account = k[2] /\ c.point = k[3] /\ Timely(c)

\* What a request names is of the account and the backup it names
OneBackup(r) ==
    \A c \in r.chosen : r.form # "many" /\ r.accounts = {c.account} /\ r.point = c.point

\* A basket's page shows what is in the basket, or is marked
Shows(r) ==
    r.form = "basket" =>
        /\ r.point \in Points /\ \E a \in Accounts : r.accounts = {a}
        /\ r.moved \/ r.chosen = basket[KeyOf(r)]

PagesAreRight == \A o \in Tabs : OneBackup(page[o]) /\ Shows(page[o])

\* A request that is being served is the one its page named
Agrees(q, moved) ==
    /\ OneBackup(q.req) /\ q.todo \subseteq q.req.accounts
    /\ q.req.accounts = q.said.accounts /\ q.req.point = q.said.point
    /\ q.req.chosen = q.said.chosen \/ (q.req.form = "basket" /\ moved)

RequestsAgree == \A o \in Tabs : run[o].at # "idle" => Agrees(run[o], page[o].moved)

IInv ==
    /\ TypeOK /\ BasketsAreOfOneBackup /\ PagesAreRight /\ RequestsAgree
    /\ AppliesWhatWasRead /\ ChosenFromThatBackup

-----------------------------------------------------------------------------
LEMMA KeyIsAKey ==
    ASSUME NEW owner \in Owners, NEW a \in Accounts, NEW pt \in Points
    PROVE  /\ Key(owner, a, pt) \in Keys
           /\ Key(owner, a, pt)[2] = a /\ Key(owner, a, pt)[3] = pt
BY DEF Key, Keys

\* The basket a request is of is the operator's, of its account and backup.
LEMMA KeyOfBasket ==
    ASSUME NEW r, NEW a \in Accounts, r.accounts = {a}, r.point \in Points
    PROVE  KeyOf(r) = Key("whm", a, r.point) /\ KeyOf(r) \in Keys
<1>1. (CHOOSE x \in r.accounts : TRUE) = a
  OBVIOUS
<1>2. KeyOf(r) = Key("whm", a, r.point)
  BY <1>1 DEF KeyOf
<1> QED
  BY <1>2, KeyIsAKey DEF Owners

LEMMA Initially == Init => IInv
<1> SUFFICES ASSUME Init PROVE IInv
  OBVIOUS
<1>1. NoRequest \in Requests
  BY DeskAssumption DEF NoRequest, Requests
<1>2. TypeOK
  BY <1>1, DeskAssumption DEF Init, TypeOK, Serving
<1>3. BasketsAreOfOneBackup
  BY DEF Init, BasketsAreOfOneBackup
<1>4. PagesAreRight
  BY DEF Init, PagesAreRight, OneBackup, Shows, NoRequest
<1>5. RequestsAgree
  BY DEF Init, RequestsAgree, Serving
<1>6. AppliesWhatWasRead /\ ChosenFromThatBackup
  BY DEF Init, AppliesWhatWasRead, ChosenFromThatBackup, InFlight, NoRestore
<1> QED
  BY <1>2, <1>3, <1>4, <1>5, <1>6 DEF IInv

-----------------------------------------------------------------------------
\* A page is marked in the step that changes the basket it shows.
LEMMA MovedKeeps ==
    ASSUME TypeOK, PagesAreRight, RequestsAgree,
           \A o \in Tabs : run'[o] = run[o] \/ run'[o].at = "idle",
           NEW new \in [Keys -> SUBSET Choices], basket' = new, Moved(new)
    PROVE  /\ page' \in [Tabs -> Requests]
           /\ PagesAreRight' /\ RequestsAgree'
<1>1. ASSUME NEW o \in Tabs
      PROVE  /\ page'[o] \in Requests
             /\ \/ page'[o] = page[o]
                \/ page'[o] = [page[o] EXCEPT !.moved = TRUE]
             /\ page'[o] = page[o] /\ page[o].form = "basket" =>
                    page[o].moved \/ new[KeyOf(page[o])] = basket[KeyOf(page[o])]
  <2>1. page[o] \in Requests
    BY DEF TypeOK
  <2>2. [page[o] EXCEPT !.moved = TRUE] \in Requests /\ [page[o] EXCEPT !.moved = TRUE].moved
    BY <2>1 DEF Requests
  <2>3. CASE page[o].form = "basket" /\ new[KeyOf(page[o])] # basket[KeyOf(page[o])]
    <3>1. page'[o] = [page[o] EXCEPT !.moved = TRUE]
      BY <2>3 DEF Moved
    <3> QED
      BY <2>2, <3>1
  <2>4. CASE ~ (page[o].form = "basket" /\ new[KeyOf(page[o])] # basket[KeyOf(page[o])])
    <3>1. page'[o] = page[o]
      BY <2>4 DEF Moved
    <3> QED
      BY <2>1, <2>4, <3>1
  <2> QED
    BY <2>3, <2>4
<1>2. page' \in [Tabs -> Requests]
  BY <1>1 DEF Moved, TypeOK
<1>3. ASSUME NEW o \in Tabs
      PROVE  OneBackup(page[o])' /\ Shows(page[o])' /\ (page[o].moved => page'[o].moved)
  <2>1. CASE page'[o] = page[o]
    <3>1. OneBackup(page[o])' /\ (page[o].moved => page'[o].moved)
      BY <2>1 DEF PagesAreRight, OneBackup
    <3>2. KeyOf(page'[o]) = KeyOf(page[o])
      BY <2>1
    <3>3. page[o].form = "basket" => page[o].moved \/ page[o].chosen = new[KeyOf(page[o])]
      BY <1>1, <2>1 DEF PagesAreRight, Shows
    <3>4. Shows(page[o])'
      BY <2>1, <3>2, <3>3 DEF PagesAreRight, Shows
    <3> QED
      BY <3>1, <3>4
  <2>2. CASE page'[o] = [page[o] EXCEPT !.moved = TRUE]
    <3>1. /\ page'[o].moved /\ page'[o].form = page[o].form /\ page'[o].accounts = page[o].accounts
          /\ page'[o].point = page[o].point /\ page'[o].chosen = page[o].chosen
      BY <2>2 DEF TypeOK, Requests
    <3> QED
      BY <3>1 DEF PagesAreRight, OneBackup, Shows
  <2> QED
    BY <1>1, <2>1, <2>2
<1>4. ASSUME NEW o \in Tabs, run'[o].at # "idle"
      PROVE  Agrees(run[o], page[o].moved)'
  <2>1. run'[o] = run[o] /\ (page[o].moved => page'[o].moved)
    BY <1>3, <1>4
  <2> QED
    BY <1>4, <2>1 DEF RequestsAgree, Agrees, OneBackup
<1> QED
  BY <1>2, <1>3, <1>4 DEF PagesAreRight, RequestsAgree
-----------------------------------------------------------------------------
(* Baskets.                                                                 *)

LEMMA FlightsKeep ==
    ASSUME AppliesWhatWasRead, ChosenFromThatBackup, UNCHANGED flight
    PROVE  AppliesWhatWasRead' /\ ChosenFromThatBackup'
BY DEF AppliesWhatWasRead, ChosenFromThatBackup, InFlight

LEMMA changeBasketKeeps ==
    ASSUME IInv, NEW key \in Keys, NEW held \in SUBSET Choices,
           \A c \in held : c.account = key[2] /\ c.point = key[3] /\ Timely(c),
           changeBasket(key, held)
    PROVE  IInv'
<1> DEFINE new == [k \in Keys |-> IF k = key THEN held ELSE IF k \in stale THEN {} ELSE basket[k]]
<1>1. basket' = new /\ Moved(new) /\ stale' = {}
      /\ UNCHANGED <<clock, taken, gone, unserved, tenure, flight, run, process>>
  BY DEF changeBasket, points, accounts
<1>2. new \in [Keys -> SUBSET Choices]
  BY DEF IInv, TypeOK
<1>3. BasketsAreOfOneBackup'
  BY <1>1 DEF IInv, BasketsAreOfOneBackup, Timely
<1>4. page' \in [Tabs -> Requests] /\ PagesAreRight' /\ RequestsAgree'
  <2> HIDE DEF new
  <2> QED
    BY <1>1, <1>2, MovedKeeps DEF IInv
<1>5. TypeOK'
  <2> HIDE DEF new
  <2> QED
    BY <1>1, <1>2, <1>4 DEF IInv, TypeOK
<1> QED
  BY <1>1, <1>3, <1>4, <1>5, FlightsKeep DEF IInv

LEMMA WithoutKeeps ==
    ASSUME IInv, NEW keys, Without(keys),
           \A o \in Tabs : run'[o] = run[o] \/ run'[o].at = "idle"
    PROVE  /\ basket' \in [Keys -> SUBSET Choices] /\ stale' \subseteq Keys
           /\ page' \in [Tabs -> Requests] /\ PagesAreRight' /\ RequestsAgree'
           /\ \A k \in Keys : basket'[k] = IF k \in keys THEN {} ELSE basket[k]
<1> DEFINE new == [k \in Keys |-> IF k \in keys THEN {} ELSE basket[k]]
<1>1. basket' = new /\ Moved(new) /\ stale' = stale \ keys
  BY DEF Without
<1>2. new \in [Keys -> SUBSET Choices]
  BY DEF IInv, TypeOK
<1>3. page' \in [Tabs -> Requests] /\ PagesAreRight' /\ RequestsAgree'
  <2> HIDE DEF new
  <2> QED
    BY <1>1, <1>2, MovedKeeps DEF IInv
<1>4. \A k \in Keys : basket'[k] = IF k \in keys THEN {} ELSE basket[k]
  BY <1>1
<1> QED
  BY <1>1, <1>2, <1>3, <1>4 DEF IInv, TypeOK

\* Each form leaves a basket with what it had and what was ticked now.
LEMMA ChoosingKeeps ==
    ASSUME IInv, Choosing
    PROVE  IInv'
<1>1. PICK owner \in Owners, a \in Accounts, pt \in Points :
        \/ \E ps \in SUBSET Parts : PutInBasket(owner, a, pt, ps) \/ AddToBasket(owner, a, pt, ps)
        \/ \E kind \in Kinds : TakeFromBasket(owner, a, pt, kind)
        \/ EmptyBasket(owner, a, pt)
  BY DEF Choosing
<1> DEFINE key == Key(owner, a, pt)
<1>2. key \in Keys /\ key[2] = a /\ key[3] = pt
  BY KeyIsAKey
<1>3. BasketIn(key) \in SUBSET Choices
      /\ \A c \in BasketIn(key) : c.account = key[2] /\ c.point = key[3] /\ Timely(c)
  BY <1>2 DEF IInv, TypeOK, BasketsAreOfOneBackup, BasketIn
<1>4. ASSUME NEW ps \in SUBSET Parts
      PROVE  Ticked(ps, a, pt) \in SUBSET Choices
             /\ \A c \in Ticked(ps, a, pt) : c.account = key[2] /\ c.point = key[3] /\ Timely(c)
  BY <1>2 DEF Ticked, Timely, Choices, IInv, TypeOK
<1> HIDE DEF key
<1>5. ASSUME NEW ps \in SUBSET Parts, PutInBasket(owner, a, pt, ps)
      PROVE  IInv'
  <2>1. changeBasket(key, withSelection(BasketIn(key), Ticked(ps, a, pt)))
    BY <1>5 DEF PutInBasket, key
  <2>2. withSelection(BasketIn(key), Ticked(ps, a, pt)) \subseteq BasketIn(key) \cup Ticked(ps, a, pt)
    BY DEF withSelection, withoutKind
  <2> QED
    BY <1>2, <1>3, <1>4, <2>1, <2>2, changeBasketKeeps
<1>6. ASSUME NEW ps \in SUBSET Parts, AddToBasket(owner, a, pt, ps)
      PROVE  IInv'
  <2>1. changeBasket(key, withMoreNames(BasketIn(key), Ticked(ps, a, pt)))
    BY <1>6 DEF AddToBasket, key
  <2>2. withMoreNames(BasketIn(key), Ticked(ps, a, pt)) \subseteq BasketIn(key) \cup Ticked(ps, a, pt)
    BY DEF withMoreNames
  <2> QED
    BY <1>2, <1>3, <1>4, <2>1, <2>2, changeBasketKeeps
<1>7. ASSUME NEW kind \in Kinds, TakeFromBasket(owner, a, pt, kind)
      PROVE  IInv'
  <2>1. changeBasket(key, withoutKind(BasketIn(key), {kind}))
    BY <1>7 DEF TakeFromBasket, key
  <2>2. withoutKind(BasketIn(key), {kind}) \subseteq BasketIn(key)
    BY DEF withoutKind
  <2> QED
    BY <1>2, <1>3, <2>1, <2>2, changeBasketKeeps
<1>8. CASE EmptyBasket(owner, a, pt)
  <2>1. Without({key}) /\ UNCHANGED <<clock, taken, gone, unserved, tenure, flight, run, process>>
    BY <1>8 DEF EmptyBasket, key, points, accounts
  <2>2. /\ basket' \in [Keys -> SUBSET Choices] /\ stale' \subseteq Keys
        /\ page' \in [Tabs -> Requests] /\ PagesAreRight' /\ RequestsAgree'
        /\ \A k \in Keys : basket'[k] = IF k \in {key} THEN {} ELSE basket[k]
    BY <2>1, WithoutKeeps
  <2>3. TypeOK' /\ BasketsAreOfOneBackup'
    BY <2>1, <2>2 DEF IInv, TypeOK, BasketsAreOfOneBackup, Timely
  <2> QED
    BY <2>1, <2>2, <2>3, FlightsKeep DEF IInv
<1> QED
  BY <1>1, <1>5, <1>6, <1>7, <1>8

LEMMA GrowsOldKeeps ==
    ASSUME IInv, NEW key \in Keys, GrowsOld(key)
    PROVE  IInv'
<1>1. stale' = stale \cup {key}
      /\ UNCHANGED <<clock, taken, gone, unserved, tenure, basket, flight, page, run, process>>
  BY DEF GrowsOld, points, accounts
<1>2. TypeOK'
  BY <1>1 DEF IInv, TypeOK
<1>3. BasketsAreOfOneBackup' /\ RequestsAgree'
  BY <1>1 DEF IInv, BasketsAreOfOneBackup, Timely, RequestsAgree, Agrees, OneBackup
<1>4. PagesAreRight'
  BY <1>1 DEF IInv, PagesAreRight, OneBackup, Shows, KeyOf, Key
<1> QED
  BY <1>1, <1>2, <1>3, <1>4, FlightsKeep DEF IInv

-----------------------------------------------------------------------------
(* The confirmation page.                                                   *)

\* A page replaces the one its tab showed, and the tab has nothing running.
LEMMA askFirstKeeps ==
    ASSUME IInv, NEW o \in Tabs, NEW r \in Requests, OneBackup(r), Shows(r), askFirst(o, r)
    PROVE  IInv'
<1> DEFINE drawn == [r EXCEPT !.process = process]
<1>1. page' = [page EXCEPT ![o] = drawn] /\ run[o].at = "idle"
      /\ UNCHANGED <<clock, taken, gone, unserved, tenure, basket, stale, flight, run, process>>
  BY DEF askFirst, points, accounts, baskets
<1>2. drawn \in Requests /\ drawn.form = r.form /\ drawn.accounts = r.accounts
      /\ drawn.point = r.point /\ drawn.chosen = r.chosen /\ drawn.moved = r.moved
  BY DEF Requests, IInv, TypeOK
<1>3. KeyOf(drawn) = KeyOf(r)
  BY <1>2 DEF KeyOf
<1>4. OneBackup(drawn) /\ Shows(drawn)
  BY <1>2, <1>3 DEF OneBackup, Shows
<1> HIDE DEF drawn
<1>5. TypeOK'
  BY <1>1, <1>2 DEF IInv, TypeOK
<1>6. ASSUME NEW t \in Tabs PROVE (OneBackup(page[t]) /\ Shows(page[t]))'
  <2>1. page'[t] = IF t = o THEN drawn ELSE page[t]
    BY <1>1 DEF IInv, TypeOK
  <2>2. OneBackup(page'[t]) /\ Shows(page'[t])
    BY <1>4, <2>1 DEF IInv, PagesAreRight
  <2> QED
    BY <1>1, <2>2 DEF OneBackup, Shows, KeyOf, Key
<1>7. RequestsAgree'
  <2>1. \A t \in Tabs : t # o => page'[t] = page[t]
    BY <1>1 DEF IInv, TypeOK
  <2> QED
    BY <1>1, <2>1 DEF IInv, RequestsAgree, Agrees, OneBackup
<1>8. BasketsAreOfOneBackup'
  BY <1>1 DEF IInv, BasketsAreOfOneBackup, Timely
<1> QED
  BY <1>1, <1>5, <1>6, <1>7, <1>8, FlightsKeep DEF IInv, PagesAreRight

LEMMA RequestIs ==
    ASSUME NEW form \in {"whole", "items", "many", "basket"}, NEW S \in SUBSET Accounts,
           NEW pt \in Points, NEW chosen \in SUBSET Choices
    PROVE  /\ Request(form, S, pt, chosen) \in Requests
           /\ Request(form, S, pt, chosen).form = form
           /\ Request(form, S, pt, chosen).accounts = S
           /\ Request(form, S, pt, chosen).point = pt
           /\ Request(form, S, pt, chosen).chosen = chosen
<1>1. Request(form, S, pt, chosen) =
        [form |-> form, accounts |-> S, point |-> pt, chosen |-> chosen,
         apply |-> TRUE, process |-> 0, moved |-> FALSE]
  BY DEF Request
<1>2. pt \in 0..MaxClock
  BY DeskAssumption DEF Points
<1> QED
  BY <1>1, <1>2 DEF Requests

\* An operator's basket can be started as what it shows.
LEMMA BasketIsShown ==
    ASSUME IInv, NEW a \in Accounts, NEW p \in Points, NEW r \in Requests,
           r.form = "basket", r.accounts = {a}, r.point = p,
           r.chosen = BasketIn(Key("whm", a, p)), r.chosen # {}
    PROVE  OneBackup(r) /\ Shows(r)
<1>1. KeyOf(r) = Key("whm", a, p) /\ Key("whm", a, p) \in Keys
      /\ Key("whm", a, p)[2] = a /\ Key("whm", a, p)[3] = p
  BY KeyOfBasket, KeyIsAKey DEF Owners
<1>2. r.chosen = basket[Key("whm", a, p)]
  BY DEF BasketIn
<1>3. \A c \in r.chosen : c.account = a /\ c.point = p
  BY <1>1, <1>2 DEF IInv, BasketsAreOfOneBackup, Timely
<1> QED
  BY <1>1, <1>2, <1>3 DEF OneBackup, Shows

LEMMA AskingKeeps ==
    ASSUME IInv, NEW o \in Tabs, NEW a \in Accounts,
           \/ handleRecoverAccount(o, a) \/ handleStartRestore(o, a) \/ startBasket(o, a)
           \/ \E ps \in SUBSET Parts : handleRestoreItems(o, a, ps)
    PROVE  IInv'
<1>1. taken[a] \subseteq Points
  BY DEF IInv, TypeOK
<1>2. ASSUME NEW p \in Points, askFirst(o, Request("whole", {a}, p, {}))
      PROVE  IInv'
  <2> DEFINE r == Request("whole", {a}, p, {})
  <2>1. r \in Requests /\ r.form = "whole" /\ r.chosen = {}
    BY RequestIs
  <2> HIDE DEF r
  <2>2. OneBackup(r) /\ Shows(r)
    BY <2>1 DEF OneBackup, Shows
  <2> QED
    BY <1>2, <2>1, <2>2, askFirstKeeps DEF r
<1>3. ASSUME \E ps \in SUBSET Parts : handleRestoreItems(o, a, ps)
      PROVE  IInv'
  <2>1. PICK ps \in SUBSET Parts, p \in Points :
            askFirst(o, Request("items", {a}, p, Ticked(ps, a, p)))
    BY <1>1, <1>3 DEF handleRestoreItems
  <2> DEFINE r == Request("items", {a}, p, Ticked(ps, a, p))
  <2>2. Ticked(ps, a, p) \in SUBSET Choices /\ \A c \in Ticked(ps, a, p) : c.account = a /\ c.point = p
    BY DEF Ticked, Choices, IInv, TypeOK
  <2>3. r \in Requests /\ r.form = "items" /\ r.accounts = {a} /\ r.point = p
        /\ r.chosen = Ticked(ps, a, p)
    BY <2>2, RequestIs
  <2> HIDE DEF r
  <2>4. OneBackup(r) /\ Shows(r)
    BY <2>2, <2>3 DEF OneBackup, Shows
  <2> QED
    BY <2>1, <2>3, <2>4, askFirstKeeps DEF r
<1>4. ASSUME startBasket(o, a) PROVE IInv'
  <2>1. PICK p \in Points :
            /\ BasketIn(Key("whm", a, p)) # {}
            /\ askFirst(o, Request("basket", {a}, p, BasketIn(Key("whm", a, p))))
    BY <1>1, <1>4 DEF startBasket
  <2> DEFINE r == Request("basket", {a}, p, BasketIn(Key("whm", a, p)))
  <2>2. BasketIn(Key("whm", a, p)) \in SUBSET Choices
    BY KeyIsAKey DEF Owners, BasketIn, IInv, TypeOK
  <2>3. r \in Requests /\ r.form = "basket" /\ r.accounts = {a} /\ r.point = p
        /\ r.chosen = BasketIn(Key("whm", a, p))
    BY <2>2, RequestIs
  <2> HIDE DEF r
  <2>4. OneBackup(r) /\ Shows(r)
    BY <2>1, <2>3, BasketIsShown
  <2> QED
    BY <2>1, <2>3, <2>4, askFirstKeeps DEF r
<1>5. ASSUME handleRecoverAccount(o, a) \/ handleStartRestore(o, a) PROVE IInv'
  BY <1>1, <1>2, <1>5 DEF handleRecoverAccount, handleStartRestore, Newest
<1> QED
  BY <1>3, <1>4, <1>5

LEMMA RecoverAccountsKeeps ==
    ASSUME IInv, NEW o \in Tabs, NEW S \in SUBSET Accounts, handleRecoverAccounts(o, S)
    PROVE  IInv'
<1>1. PICK day \in Points : askFirst(o, Request("many", S, day, {}))
  BY DEF handleRecoverAccounts
<1> DEFINE r == Request("many", S, day, {})
<1>2. r \in Requests /\ r.form = "many" /\ r.chosen = {}
  BY RequestIs
<1> HIDE DEF r
<1>3. OneBackup(r) /\ Shows(r)
  BY <1>2 DEF OneBackup, Shows
<1> QED
  BY <1>1, <1>2, <1>3, askFirstKeeps DEF r

-----------------------------------------------------------------------------
(* The confirmed request.                                                   *)

\* Serving a request disturbs nothing but its tab.
LEMMA ServesKeeps ==
    ASSUME IInv, NEW o \in Tabs, NEW served,
           served \in [at : {"idle", "queue", "empty"}, todo : SUBSET Accounts,
                       req : Requests, said : Requests],
           served.at # "idle" => Agrees(served, page[o].moved),
           run' = [run EXCEPT ![o] = served],
           UNCHANGED <<points, accounts, baskets, page, process>>
    PROVE  TypeOK' /\ BasketsAreOfOneBackup' /\ PagesAreRight' /\ RequestsAgree'
<1>1. UNCHANGED <<clock, taken, gone, unserved, tenure, basket, stale, page, process>>
  BY DEF points, accounts, baskets
<1>2. TypeOK'
  BY <1>1 DEF IInv, TypeOK
<1>3. BasketsAreOfOneBackup'
  BY <1>1 DEF IInv, BasketsAreOfOneBackup, Timely
<1>4. PagesAreRight'
  BY <1>1 DEF IInv, PagesAreRight, OneBackup, Shows, KeyOf, Key
<1>5. ASSUME NEW t \in Tabs, run'[t].at # "idle" PROVE Agrees(run[t], page[t].moved)'
  <2>1. run'[t] = IF t = o THEN served ELSE run[t]
    BY DEF IInv, TypeOK
  <2>2. Agrees(run'[t], page[t].moved)
    BY <1>5, <2>1 DEF IInv, RequestsAgree
  <2> QED
    BY <1>1, <2>2 DEF Agrees, OneBackup
<1> QED
  BY <1>2, <1>3, <1>4, <1>5 DEF RequestsAgree

\* A basket is read again when its page is sent.
LEMMA ReadAgain ==
    ASSUME IInv, NEW said \in Requests, OneBackup(said), Shows(said),
           said.form = "basket" => Read(said).chosen # {}
    PROVE  /\ Read(said) \in Requests /\ OneBackup(Read(said))
           /\ Read(said).accounts = said.accounts /\ Read(said).point = said.point
           /\ \/ Read(said).chosen = said.chosen
              \/ Read(said).form = "basket" /\ said.moved
<1>1. CASE said.form # "basket"
  <2>1. Read(said) = said
    BY <1>1 DEF Read
  <2> QED
    BY <2>1
<1>2. CASE said.form = "basket"
  <2>1. PICK a \in Accounts : said.accounts = {a} /\ said.point \in Points
    BY <1>2 DEF Shows
  <2> DEFINE key == Key("whm", a, said.point)
  <2>2. KeyOf(said) = key /\ key \in Keys /\ key[2] = a /\ key[3] = said.point
    BY <2>1, KeyOfBasket, KeyIsAKey DEF Owners
  <2> HIDE DEF key
  <2>3. BasketIn(key) \in SUBSET Choices
    BY <2>2 DEF BasketIn, IInv, TypeOK
  <2>4. Read(said) = [said EXCEPT !.chosen = BasketIn(key)]
    BY <1>2, <2>2 DEF Read
  <2>5. Read(said) \in Requests /\ Read(said).form = said.form /\ Read(said).accounts = said.accounts
        /\ Read(said).point = said.point /\ Read(said).chosen = BasketIn(key)
    BY <2>3, <2>4 DEF Requests
  <2>6. Read(said).chosen = basket[key]
    BY <1>2, <2>5 DEF BasketIn
  <2>7. OneBackup(Read(said))
    BY <1>2, <2>1, <2>2, <2>5, <2>6 DEF OneBackup, IInv, BasketsAreOfOneBackup
  <2> QED
    BY <1>2, <2>2, <2>5, <2>6, <2>7 DEF Shows
<1> QED
  BY <1>1, <1>2

LEMMA ConfirmKeeps ==
    ASSUME IInv, NEW o \in Tabs, Confirm(o)
    PROVE  IInv'
<1>1. PICK said, r :
        /\ said = page[o] /\ r = Read(said)
        /\ said.form = "basket" => r.chosen # {}
        /\ Serve(o, r, said)
        /\ UNCHANGED <<points, accounts, baskets, flight, page, process>>
  BY DEF Confirm
<1>2. said \in Requests /\ OneBackup(said) /\ Shows(said)
  BY <1>1 DEF IInv, TypeOK, PagesAreRight
<1>3. r \in Requests /\ OneBackup(r) /\ r.accounts = said.accounts /\ r.point = said.point
      /\ (r.chosen = said.chosen \/ (r.form = "basket" /\ said.moved))
  BY <1>1, <1>2, ReadAgain
<1>4. r.accounts \in SUBSET Accounts
  BY <1>3 DEF Requests
<1> DEFINE served == [at |-> "queue", todo |-> r.accounts, req |-> r, said |-> said]
<1>5. served \in [at : {"idle", "queue", "empty"}, todo : SUBSET Accounts, req : Requests, said : Requests]
  BY <1>2, <1>3, <1>4
<1>6. Agrees(served, page[o].moved)
  BY <1>1, <1>3 DEF Agrees
<1>7. run' = [run EXCEPT ![o] = served]
  BY <1>1 DEF Serve
<1> HIDE DEF served
<1> QED
  BY <1>1, <1>5, <1>6, <1>7, ServesKeeps, FlightsKeep DEF IInv

\* A download names itself: nothing was asked before it.
LEMMA DownloadKeeps ==
    ASSUME IInv, NEW o \in Tabs, NEW a \in Accounts, Download(o, a)
    PROVE  IInv'
<1>1. PICK p \in Points :
        LET r == [Request("basket", {a}, p, BasketIn(Key("whm", a, p))) EXCEPT !.apply = FALSE] IN
        /\ r.chosen # {} /\ Serve(o, r, r)
        /\ UNCHANGED <<points, accounts, baskets, flight, page, process>>
  BY DEF Download, IInv, TypeOK
<1> DEFINE held == BasketIn(Key("whm", a, p))
           q == Request("basket", {a}, p, held)
           r == [q EXCEPT !.apply = FALSE]
           served == [at |-> "queue", todo |-> r.accounts, req |-> r, said |-> r]
<1>2. held \in SUBSET Choices
  BY KeyIsAKey DEF Owners, BasketIn, IInv, TypeOK
<1>3. q \in Requests /\ q.form = "basket" /\ q.accounts = {a} /\ q.point = p /\ q.chosen = held
  BY <1>2, RequestIs
<1> HIDE DEF q
<1>4. r \in Requests /\ r.form = "basket" /\ r.accounts = {a} /\ r.point = p /\ r.chosen = held
  BY <1>3 DEF Requests
<1>5. r.chosen # {} /\ run' = [run EXCEPT ![o] = served]
      /\ UNCHANGED <<points, accounts, baskets, flight, page, process>>
  BY <1>1 DEF Serve, q
<1> HIDE DEF r
<1>6. OneBackup(r)
  BY <1>4, <1>5, BasketIsShown
<1>7. served \in [at : {"idle", "queue", "empty"}, todo : SUBSET Accounts, req : Requests, said : Requests]
  BY <1>4
<1>8. Agrees(served, page[o].moved)
  BY <1>6 DEF Agrees
<1> HIDE DEF served
<1> QED
  BY <1>5, <1>7, <1>8, ServesKeeps, FlightsKeep DEF IInv

\* What an account's turn leaves of the request: it goes on, empties the
\* basket or is over.
LEMMA DoneIs ==
    ASSUME IInv, NEW o \in Tabs, NEW a \in Accounts, run[o].at = "queue",
           NEW then \in {"idle", "empty"}, Done(o, a, then)
    PROVE  \E served \in [at : {"idle", "queue", "empty"}, todo : SUBSET Accounts,
                          req : Requests, said : Requests] :
              /\ run' = [run EXCEPT ![o] = served]
              /\ served.at # "idle" => Agrees(served, page[o].moved)
<1> DEFINE at == IF then = "idle" THEN "queue" ELSE then
           goesOn == [at |-> at, todo |-> run[o].todo \ {a},
                      req |-> run[o].req, said |-> run[o].said]
<1>1. run[o] \in [at : {"idle", "queue", "empty"}, todo : SUBSET Accounts, req : Requests, said : Requests]
  BY DEF IInv, TypeOK
<1>2. Agrees(run[o], page[o].moved)
  BY DEF IInv, RequestsAgree
<1>3. at \in {"queue", "empty"}
  OBVIOUS
<1>4. CASE run' = [run EXCEPT ![o] = Serving]
  <2>1. NoRequest \in Requests
    BY DeskAssumption DEF NoRequest, Requests
  <2>2. Serving \in [at : {"idle", "queue", "empty"}, todo : SUBSET Accounts, req : Requests, said : Requests]
        /\ Serving.at = "idle"
    BY <2>1 DEF Serving
  <2> QED
    BY <1>4, <2>2
<1>5. CASE run' = [run EXCEPT ![o] = goesOn]
  <2> HIDE DEF at
  <2>1. goesOn \in [at : {"idle", "queue", "empty"}, todo : SUBSET Accounts, req : Requests, said : Requests]
    BY <1>1, <1>3
  <2>2. Agrees(goesOn, page[o].moved)
    BY <1>2 DEF Agrees
  <2> HIDE DEF goesOn
  <2> QED
    BY <1>5, <2>1, <2>2
<1>6. run' = [run EXCEPT ![o] = Serving] \/ run' = [run EXCEPT ![o] = goesOn]
  BY DEF Done
<1> QED
  BY <1>4, <1>5, <1>6

\* What is queued is what the page named, for an account it named.
LEMMA QueueRestoreKeeps ==
    ASSUME IInv, NEW o \in Tabs, NEW a \in Accounts, QueueRestore(o, a)
    PROVE  IInv'
<1> DEFINE r == run[o].req
           said == [run[o].said EXCEPT !.moved = page[o].moved]
           Of(p) == [account |-> a, point |-> p, chosen |-> r.chosen,
                     apply |-> r.apply, form |-> r.form, said |-> said]
<1>1. /\ run[o].at = "queue" /\ a \in run[o].todo
      /\ \E then \in {"idle", "empty"} : Done(o, a, then)
      /\ UNCHANGED <<points, accounts, baskets, page, process>>
  BY DEF QueueRestore
<1>2. \/ UNCHANGED flight
      \/ \E p \in PointsFor(r, a) : flight' = [flight EXCEPT ![a] = Of(p)]
  BY DEF QueueRestore
<1>3. TypeOK' /\ BasketsAreOfOneBackup' /\ PagesAreRight' /\ RequestsAgree'
  BY <1>1, DoneIs, ServesKeeps
<1>4. r \in Requests /\ run[o].said \in Requests /\ Agrees(run[o], page[o].moved)
  BY <1>1 DEF IInv, TypeOK, RequestsAgree
<1>5. a \in r.accounts /\ OneBackup(r) /\ r.accounts = run[o].said.accounts /\ r.point = run[o].said.point
      /\ (r.chosen = run[o].said.chosen \/ (r.form = "basket" /\ page[o].moved))
  BY <1>1, <1>4 DEF Agrees
<1>6. said.accounts = run[o].said.accounts /\ said.point = run[o].said.point
      /\ said.chosen = run[o].said.chosen /\ said.moved = page[o].moved
  BY <1>4 DEF Requests
<1>7. ASSUME NEW p \in PointsFor(r, a), flight' = [flight EXCEPT ![a] = Of(p)]
      PROVE  AppliesWhatWasRead' /\ ChosenFromThatBackup'
  <2> HIDE DEF r, said
  <2> DEFINE new == Of(p)
  <2>1. /\ new.account = a /\ new.point = p /\ new.chosen = r.chosen /\ new.form = r.form
        /\ new.said = said
    OBVIOUS
  <2> HIDE DEF new
  <2>2. IF r.form = "many" THEN p \in taken[a] /\ p <= r.point ELSE p = r.point
    BY <1>7 DEF PointsFor, Newest
  <2>3. InFlight' \subseteq InFlight \cup {new}
    BY <1>7 DEF InFlight, new
  <2>4. /\ a \in new.said.accounts
        /\ new.form \in {"whole", "items", "basket"} => new.point = new.said.point
        /\ new.form = "many" => new.point <= new.said.point
        /\ new.form = "items" => new.chosen = new.said.chosen
        /\ new.form = "basket" => new.chosen = new.said.chosen \/ new.said.moved
    BY <1>5, <1>6, <2>1, <2>2
  <2>5. \A c \in new.chosen : c.account = new.account /\ c.point = new.point
    BY <1>5, <2>1, <2>2 DEF OneBackup
  <2> QED
    BY <2>1, <2>3, <2>4, <2>5 DEF IInv, AppliesWhatWasRead, ChosenFromThatBackup
<1> QED
  BY <1>2, <1>3, <1>7, FlightsKeep DEF IInv

LEMMA EmptyAfterwardsKeeps ==
    ASSUME IInv, NEW o \in Tabs, EmptyAfterwards(o)
    PROVE  IInv'
<1> DEFINE keys == {KeyOf(run[o].req)}
<1>1. Without(keys) /\ run' = [run EXCEPT ![o] = Serving]
      /\ UNCHANGED <<clock, taken, gone, unserved, tenure, flight, process>>
  BY DEF EmptyAfterwards, points, accounts
<1> HIDE DEF keys
<1>2. NoRequest \in Requests
  BY DeskAssumption DEF NoRequest, Requests
<1>3. Serving \in [at : {"idle", "queue", "empty"}, todo : SUBSET Accounts, req : Requests, said : Requests]
      /\ Serving.at = "idle"
  BY <1>2 DEF Serving
<1>4. \A t \in Tabs : run'[t] = run[t] \/ run'[t].at = "idle"
  BY <1>1, <1>3 DEF IInv, TypeOK
<1>5. /\ basket' \in [Keys -> SUBSET Choices] /\ stale' \subseteq Keys
      /\ page' \in [Tabs -> Requests] /\ PagesAreRight' /\ RequestsAgree'
      /\ \A k \in Keys : basket'[k] = IF k \in keys THEN {} ELSE basket[k]
  BY <1>1, <1>4, WithoutKeeps
<1>6. TypeOK'
  BY <1>1, <1>3, <1>5 DEF IInv, TypeOK
<1>7. BasketsAreOfOneBackup'
  BY <1>1, <1>5 DEF IInv, BasketsAreOfOneBackup, Timely
<1> QED
  BY <1>1, <1>5, <1>6, <1>7, FlightsKeep DEF IInv

-----------------------------------------------------------------------------
(* Everything else.                                                         *)

LEMMA BackUpKeeps ==
    ASSUME IInv, NEW a \in Accounts, BackUp(a)
    PROVE  IInv'
<1>1. clock < MaxClock /\ clock' = clock + 1 /\ taken' = [taken EXCEPT ![a] = @ \cup {clock + 1}]
      /\ UNCHANGED <<gone, unserved, tenure, basket, stale, flight, page, run, process>>
  BY DEF BackUp, accounts, baskets
<1>2. clock + 1 \in Points /\ clock + 1 \in 0..MaxClock
  BY <1>1, DeskAssumption DEF IInv, TypeOK, Points
<1>3. TypeOK'
  BY <1>1, <1>2 DEF IInv, TypeOK
<1>4. BasketsAreOfOneBackup' /\ RequestsAgree'
  BY <1>1 DEF IInv, BasketsAreOfOneBackup, Timely, RequestsAgree, Agrees, OneBackup
<1>5. PagesAreRight'
  BY <1>1 DEF IInv, PagesAreRight, OneBackup, Shows, KeyOf, Key
<1> QED
  BY <1>1, <1>3, <1>4, <1>5, FlightsKeep DEF IInv

\* What has ended writes nothing.
LEMMA WorkEndsKeeps ==
    ASSUME IInv, NEW a \in Accounts, WorkEnds(a)
    PROVE  IInv'
<1>1. flight' = [flight EXCEPT ![a] = NoRestore]
      /\ UNCHANGED <<clock, taken, gone, unserved, tenure, basket, stale, page, run, process>>
  BY DEF WorkEnds, points, accounts, baskets
<1>2. TypeOK' /\ BasketsAreOfOneBackup' /\ RequestsAgree'
  BY <1>1 DEF IInv, TypeOK, BasketsAreOfOneBackup, Timely, RequestsAgree, Agrees, OneBackup
<1>3. PagesAreRight'
  BY <1>1 DEF IInv, PagesAreRight, OneBackup, Shows, KeyOf, Key
<1>4. InFlight' \subseteq InFlight \cup {NoRestore}
  BY <1>1 DEF InFlight
<1>5. NoRestore.apply = FALSE /\ NoRestore.chosen = {}
  BY DEF NoRestore
<1>6. AppliesWhatWasRead' /\ ChosenFromThatBackup'
  BY <1>4, <1>5 DEF IInv, AppliesWhatWasRead, ChosenFromThatBackup
<1> QED
  BY <1>2, <1>3, <1>6 DEF IInv

\* A name that goes is marked until its removal is on record.
LEMMA TerminateKeeps ==
    ASSUME IInv, NEW a \in Accounts, Terminate(a)
    PROVE  IInv'
<1>1. gone' = gone \cup {a} /\ unserved' = unserved \cup {a}
      /\ UNCHANGED <<clock, taken, tenure, basket, stale, flight, page, run, process>>
  BY DEF Terminate, points, baskets
<1>2. TypeOK' /\ BasketsAreOfOneBackup' /\ RequestsAgree'
  BY <1>1 DEF IInv, TypeOK, BasketsAreOfOneBackup, Timely, RequestsAgree, Agrees, OneBackup
<1>3. PagesAreRight'
  BY <1>1 DEF IInv, PagesAreRight, OneBackup, Shows, KeyOf, Key
<1> QED
  BY <1>1, <1>2, <1>3, FlightsKeep DEF IInv

\* The baskets of a name go when the removal of its holder is put on record.
LEMMA AccountRemovedKeeps ==
    ASSUME IInv, NEW a \in Accounts, AccountRemoved(a)
    PROVE  IInv'
<1> DEFINE keys == deleteBasketsOf(a)
<1>1. unserved' = unserved \ {a} /\ Without(keys)
      /\ UNCHANGED <<clock, taken, gone, tenure, flight, run, process>>
  BY DEF AccountRemoved, points
<1>2. keys = {k \in Keys : k[2] = a}
  BY DEF deleteBasketsOf
<1> HIDE DEF keys
<1>3. /\ basket' \in [Keys -> SUBSET Choices] /\ stale' \subseteq Keys
      /\ page' \in [Tabs -> Requests] /\ PagesAreRight' /\ RequestsAgree'
      /\ \A k \in Keys : basket'[k] = IF k \in keys THEN {} ELSE basket[k]
  BY <1>1, WithoutKeeps
<1>4. TypeOK'
  BY <1>1, <1>3 DEF IInv, TypeOK
<1>5. ASSUME NEW k \in Keys, NEW c \in basket'[k]
      PROVE  c.account = k[2] /\ c.point = k[3] /\ Timely(c)'
  <2>1. k \notin keys /\ c \in basket[k] /\ k[2] # a
    BY <1>2, <1>3, <1>5
  <2>2. c.account = k[2] /\ c.point = k[3] /\ Timely(c)
    BY <2>1 DEF IInv, BasketsAreOfOneBackup
  <2> QED
    BY <1>1, <2>1, <2>2 DEF Timely
<1> QED
  BY <1>1, <1>3, <1>4, <1>5, FlightsKeep DEF IInv, BasketsAreOfOneBackup

\* Nothing that is left by then was chosen before the removal was on record.
LEMMA AccountCreatedKeeps ==
    ASSUME IInv, NEW a \in Accounts, AccountCreated(a)
    PROVE  IInv'
<1>1. a \in gone /\ gone' = gone \ {a} /\ tenure' = [tenure EXCEPT ![a] = @ + 1]
      /\ UNCHANGED <<clock, taken, unserved, basket, stale, flight, page, run, process>>
  BY DEF AccountCreated, points, baskets
<1>2. TypeOK' /\ RequestsAgree'
  BY <1>1 DEF IInv, TypeOK, RequestsAgree, Agrees, OneBackup
<1>3. PagesAreRight'
  BY <1>1 DEF IInv, PagesAreRight, OneBackup, Shows, KeyOf, Key
<1>4. ASSUME NEW k \in Keys, NEW c \in basket[k]
      PROVE  c.account = k[2] /\ c.point = k[3] /\ Timely(c)'
  <2>1. c.account = k[2] /\ c.point = k[3] /\ Timely(c) /\ k[2] \in Accounts
    BY DEF IInv, BasketsAreOfOneBackup, Keys
  <2> QED
    BY <1>1, <2>1 DEF Timely, IInv, TypeOK
<1> QED
  BY <1>1, <1>2, <1>3, <1>4, FlightsKeep DEF IInv, BasketsAreOfOneBackup

\* A restart ends the requests and some of the restores; pages stay open.
LEMMA RestartKeeps ==
    ASSUME IInv, Restart
    PROVE  IInv'
<1>1. PICK closed \in SUBSET Accounts :
        /\ process' = process + 1 /\ run' = [o \in Tabs |-> Serving]
        /\ flight' = [a \in Accounts |-> IF a \in closed THEN NoRestore ELSE flight[a]]
        /\ UNCHANGED <<clock, taken, gone, unserved, tenure, basket, stale, page>>
  BY DEF Restart, points, baskets
<1>2. NoRequest \in Requests
  BY DeskAssumption DEF NoRequest, Requests
<1>3. Serving \in [at : {"idle", "queue", "empty"}, todo : SUBSET Accounts, req : Requests, said : Requests]
      /\ Serving.at = "idle"
  BY <1>2 DEF Serving
<1>4. TypeOK' /\ BasketsAreOfOneBackup'
  BY <1>1, <1>3 DEF IInv, TypeOK, BasketsAreOfOneBackup, Timely
<1>5. RequestsAgree'
  BY <1>1, <1>3 DEF RequestsAgree
<1>6. PagesAreRight'
  BY <1>1 DEF IInv, PagesAreRight, OneBackup, Shows, KeyOf, Key
<1>7. InFlight' \subseteq InFlight \cup {NoRestore}
  BY <1>1 DEF InFlight
<1>8. NoRestore.apply = FALSE /\ NoRestore.chosen = {}
  BY DEF NoRestore
<1>9. AppliesWhatWasRead' /\ ChosenFromThatBackup'
  BY <1>7, <1>8 DEF IInv, AppliesWhatWasRead, ChosenFromThatBackup
<1> QED
  BY <1>4, <1>5, <1>6, <1>9 DEF IInv

LEMMA StepKeeps ==
    ASSUME IInv, [Next]_vars
    PROVE  IInv'
<1>1. ASSUME NEW o \in Tabs, Asking(o) PROVE IInv'
  <2>1. ASSUME NEW a \in Accounts,
               \/ handleRecoverAccount(o, a) \/ handleStartRestore(o, a) \/ startBasket(o, a)
               \/ \E ps \in SUBSET Parts : handleRestoreItems(o, a, ps)
        PROVE  IInv'
    BY <2>1, AskingKeeps
  <2> QED
    BY <1>1, <2>1, DownloadKeeps, RecoverAccountsKeeps DEF Asking
<1>2. ASSUME NEW o \in Tabs, Serves(o) PROVE IInv'
  BY <1>2, ConfirmKeeps, EmptyAfterwardsKeeps, QueueRestoreKeeps DEF Serves
<1>3. CASE UNCHANGED vars
  <2>1. UNCHANGED <<clock, taken, gone, unserved, tenure, basket, stale, flight, page, run, process>>
    BY <1>3 DEF vars, points, accounts, baskets
  <2>2. TypeOK' /\ BasketsAreOfOneBackup' /\ RequestsAgree'
    BY <2>1 DEF IInv, TypeOK, BasketsAreOfOneBackup, Timely, RequestsAgree, Agrees, OneBackup
  <2>3. PagesAreRight'
    BY <2>1 DEF IInv, PagesAreRight, OneBackup, Shows, KeyOf, Key
  <2> QED
    BY <2>1, <2>2, <2>3, FlightsKeep DEF IInv
<1>4. CASE Next
  BY <1>1, <1>2, <1>4, ChoosingKeeps, GrowsOldKeeps, BackUpKeeps, WorkEndsKeeps,
     TerminateKeeps, AccountRemovedKeeps, AccountCreatedKeeps, RestartKeeps DEF Next
<1> QED
  BY <1>3, <1>4

\* The inductive invariant: what baskets, pages, requests and restores in
\* flight say of each other, in every state of the desk.
THEOREM Invariance == Spec => []IInv
BY Initially, StepKeeps, PTL DEF Spec

\* What a confirmed restore writes is what its page named (askFirst,
\* startBasket, QueueRestore).
THEOREM WritesWhatWasRead == Spec => []AppliesWhatWasRead
<1>1. IInv => AppliesWhatWasRead
  BY DEF IInv
<1> QED
  BY <1>1, Invariance, PTL

\* A basket is restored from the backup and for the account it was filled
\* from (basketKey).
THEOREM RestoresFromThatBackup == Spec => []ChosenFromThatBackup
<1>1. IInv => ChosenFromThatBackup
  BY DEF IInv
<1> QED
  BY <1>1, Invariance, PTL

\* Nothing chosen before the removal of an account was on record is handed to
\* the next holder of the name once it is (AccountRemoved, deleteBasketsOf).
THEOREM NoneIsInherited == Spec => []BasketGoesWithItsHolder
<1>1. IInv => BasketGoesWithItsHolder
  BY DEF IInv, BasketsAreOfOneBackup, Timely, BasketGoesWithItsHolder
<1> QED
  BY <1>1, Invariance, PTL
=============================================================================
