------------------------------ MODULE NodeProofs ------------------------------
(* What holds of a standalone server: of the recovery centre its accounts   *)
(* reach, for any number of connections, tokens and ticks and whatever was  *)
(* left in the basket, and of the queue their restores join, for any        *)
(* accounts, policies, records, restarts and failed writes.  Each has its   *)
(* own variables and its own specification here.                            *)
EXTENDS RecoveryCentre, NodeEngine, FiniteSetTheorems, TLAPS

(* Where a request is once it has entered and until it leaves.              *)
Within == {"entered", "gate", "asking", "answered", "serving", "starting", "starting one", "queued"}
Places == Within \cup {"closed", "open", "closing", "verified", "accepted"}
Served == [pc: Places, token: 0..MaxTokens, at: Nat, answer: BOOLEAN, seen: SUBSET Items]

CentreTypes ==
    /\ clock \in Nat /\ feature \in BOOLEAN /\ offAt \in Nat /\ offAt <= clock
    /\ token \in [Tokens -> [iat: Nat, process: Nat, target: {"none", "browse", "restore"}]]
    /\ issued \in 0..MaxTokens /\ process \in Nat /\ used \subseteq 1..issued
    /\ spent \in [Tokens -> Nat] /\ req \in [Conns -> Served] /\ busy \in {0, 1}
    /\ decision \in [allowed: BOOLEAN, until: Nat] /\ basket \subseteq Items

(* A capability that was accepted is remembered for as long as it passes.   *)
Passes(t) == clock < Expiry(t) /\ token[t].process = process

SpentIsRemembered ==
    \A t \in Tokens :
       /\ t > issued => spent[t] = 0
       /\ spent[t] > 0 /\ Passes(t) => t \in used
       /\ t <= issued => token[t].process <= process

(* What waits for the lock of consume read the clock before.                *)
VerifiedIsOurs ==
    \A c \in Conns : At(c, "verified") =>
       /\ req[c].token \in 1..issued /\ token[req[c].token].process = process
       /\ req[c].at <= clock

(* One request of the account at a time.                                    *)
Inside(c) == req[c].pc \in Within

OneInside ==
    /\ \A c \in Conns : Inside(c) => busy = 1
    /\ \A c, d \in Conns : Inside(c) /\ Inside(d) => c = d

(* What a restore is being started from is what is in the basket.           *)
SeenIsBasket ==
    /\ \A c \in Conns : req[c].pc \in {"starting", "queued"} => req[c].seen = basket
    /\ told \subseteq basket

(* An answer that says yes is no younger than the yes of the host.          *)
AnswersAreDated ==
    /\ decision.allowed => feature \/ decision.until <= offAt + TTL
    /\ decision.until <= clock + TTL
    /\ \A c \in Conns : req[c].pc \in {"gate", "asking", "answered"} => req[c].at <= clock
    /\ \A c \in Conns : At(c, "answered") /\ req[c].answer => feature \/ req[c].at <= offAt

CentreInv ==
    CentreTypes /\ SpentIsRemembered /\ VerifiedIsOurs /\ OneInside /\ SeenIsBasket /\ AnswersAreDated

-----------------------------------------------------------------------------
(* One connection's request moves                                           *)

LEMMA BoundsAre ==
    /\ MaxTokens \in Nat /\ TTL \in Nat \ {0} /\ Lifetime \in Nat \ {0} /\ Tokens = 1..MaxTokens
    /\ MaxTotal \in Nat /\ MaxPerUID \in Nat /\ MaxClock \in Nat
BY CentreAssumption DEF Tokens

LEMMA ClosedIs ==
    /\ Closed \in Served /\ Closed.pc = "closed"
    /\ [Closed EXCEPT !.pc = "open"] \in Served /\ [Closed EXCEPT !.pc = "open"].pc = "open"
<1>1. Closed \in Served /\ Closed.pc = "closed"
  BY BoundsAre DEF Closed, Served, Places
<1>. QED  BY <1>1 DEF Served, Places

(* What one request does to what is said of all of them.                    *)
LEMMA RequestMoves ==
    ASSUME CentreInv, NEW c \in Conns, NEW h \in Served, req' = [req EXCEPT ![c] = h],
           UNCHANGED <<clock, feature, offAt, token, issued, process>>,
           \/ UNCHANGED <<used, spent>>
           \/ SpentIsRemembered' /\ used' \subseteq 1..issued /\ spent' \in [Tokens -> Nat],
           h.pc = "verified" => h.token \in 1..issued /\ token[h.token].process = process /\ h.at <= clock,
           busy' \in {0, 1},
           h.pc \in Within => busy' = 1 /\ (Inside(c) \/ busy = 0),
           h.pc \notin Within => busy' = busy \/ Inside(c),
           basket' = basket \/ Inside(c), basket' \subseteq Items, told' \subseteq basket',
           h.pc \in {"starting", "queued"} => h.seen = basket',
           decision' \in [allowed: BOOLEAN, until: Nat],
           decision'.allowed => feature \/ decision'.until <= offAt + TTL,
           decision'.until <= clock + TTL,
           h.pc \in {"gate", "asking", "answered"} => h.at <= clock,
           h.pc = "answered" /\ h.answer => feature \/ h.at <= offAt
    PROVE  CentreInv'
<1>1. /\ CentreTypes /\ req' \in [Conns -> Served] /\ req'[c] = h
      /\ \A d \in Conns \ {c} : req'[d] = req[d]
  BY DEF CentreInv, CentreTypes
<1>2. CentreTypes'
  BY <1>1 DEF CentreTypes
<1>3. SpentIsRemembered'
  BY DEF CentreInv, SpentIsRemembered, Passes, Expiry
<1>4. VerifiedIsOurs'
  BY <1>1 DEF CentreInv, VerifiedIsOurs, At
<1>5. OneInside'
  <2>1. ASSUME NEW d \in Conns, Inside(d)' PROVE busy' = 1
    BY <1>1, <2>1 DEF CentreInv, OneInside, Inside
  <2>2. ASSUME NEW d \in Conns, NEW e \in Conns, Inside(d)', Inside(e)' PROVE d = e
    <3>1. CASE d # c /\ e # c
      BY <1>1, <2>2, <3>1 DEF CentreInv, OneInside, Inside
    <3>2. CASE d = c \/ e = c
      BY <1>1, <2>2, <3>2 DEF CentreInv, OneInside, Inside
    <3>. QED  BY <3>1, <3>2
  <2>. QED  BY <2>1, <2>2 DEF OneInside
<1>6. SeenIsBasket'
  <2>1. ASSUME NEW d \in Conns, req'[d].pc \in {"starting", "queued"} PROVE req'[d].seen = basket'
    <3>1. CASE d = c
      BY <1>1, <2>1, <3>1
    <3>2. CASE d # c
      BY <1>1, <2>1, <3>2 DEF CentreInv, SeenIsBasket, OneInside, Inside, Within
    <3>. QED  BY <3>1, <3>2
  <2>. QED  BY <2>1 DEF SeenIsBasket
<1>7. AnswersAreDated'
  BY <1>1 DEF CentreInv, AnswersAreDated, At
<1>. QED  BY <1>2, <1>3, <1>4, <1>5, <1>6, <1>7 DEF CentreInv

(* A request that goes on keeps what it holds.                              *)
LEMMA Moving ==
    ASSUME req \in [Conns -> Served], NEW c \in Conns, NEW place \in Places, Moves(c, place)
    PROVE  \E h \in Served :
              /\ req' = [req EXCEPT ![c] = h] /\ h.pc = place
              /\ h.token = req[c].token /\ h.at = req[c].at /\ h.answer = req[c].answer /\ h.seen = req[c].seen
<1>. DEFINE g == req[c]  h == [g EXCEPT !.pc = place]
<1>1. g \in Served /\ req' = [req EXCEPT ![c] = h]
  BY DEF Moves
<1>2. h \in Served /\ h.pc = place /\ h.token = g.token /\ h.at = g.at /\ h.answer = g.answer /\ h.seen = g.seen
  <2>. HIDE DEF g
  <2>. QED  BY <1>1 DEF Served
<1>. HIDE DEF h
<1>. QED  BY <1>1, <1>2 DEF g

(* A connection that is only opened, closed or answered; nothing of the     *)
(* account's changes, and a request that was inside gives its place back.   *)
LEMMA Leaving ==
    ASSUME CentreInv, NEW c \in Conns, Returns(c),
           UNCHANGED <<clock, feature, offAt, token, issued, process, used, spent>>,
           busy' = busy \/ (Inside(c) /\ busy' = busy - 1),
           basket' = basket \/ Inside(c), basket' \subseteq Items, told' \subseteq basket',
           decision' \in [allowed: BOOLEAN, until: Nat],
           decision'.allowed => feature \/ decision'.until <= offAt + TTL,
           decision'.until <= clock + TTL
    PROVE  CentreInv'
<1>. DEFINE h == [Closed EXCEPT !.pc = "open"]
<1>1. h \in Served /\ h.pc = "open" /\ req' = [req EXCEPT ![c] = h]
  BY ClosedIs DEF Returns
<1>. HIDE DEF h
<1>2. busy' \in {0, 1}
  BY DEF CentreInv, CentreTypes, OneInside
<1>3. h.pc \notin Within /\ h.pc \notin {"verified", "starting", "queued", "gate", "asking", "answered"}
  BY <1>1 DEF Within
<1>. QED  BY <1>1, <1>2, <1>3, RequestMoves

LEMMA Unhurt ==
    ASSUME CentreInv, UNCHANGED <<clock, feature, offAt, basket, told, decision>>
    PROVE  /\ basket' \subseteq Items /\ told' \subseteq basket' /\ decision' \in [allowed: BOOLEAN, until: Nat]
           /\ decision'.allowed => feature \/ decision'.until <= offAt + TTL
           /\ decision'.until <= clock + TTL
BY DEF CentreInv, CentreTypes, SeenIsBasket, AnswersAreDated

LEMMA ConnectionsKeep ==
    ASSUME CentreInv, NEW c \in Conns, Accept(c) \/ Close(c) \/ CloseAgain(c)
    PROVE  CentreInv'
<1>1. /\ UNCHANGED <<clock, feature, offAt, token, issued, process, used, spent, busy, basket, told, decision>>
      /\ req \in [Conns -> Served] /\ busy \in {0, 1}
  BY DEF Accept, Close, CloseAgain, auth, centre, CentreInv, CentreTypes
<1>2. PICK h \in Served : req' = [req EXCEPT ![c] = h] /\ h.pc \in {"closed", "open", "closing"}
  <2>1. CASE Accept(c)
    BY <2>1, ClosedIs DEF Accept, Returns
  <2>2. CASE Close(c)
    BY <1>1, <2>2, Moving DEF Close, Places
  <2>3. CASE CloseAgain(c)
    BY <2>3, ClosedIs DEF CloseAgain
  <2>. QED  BY <2>1, <2>2, <2>3
<1>3. h.pc \notin Within /\ h.pc \notin {"verified", "starting", "queued", "gate", "asking", "answered"}
  BY <1>2 DEF Within
<1>. QED  BY <1>1, <1>2, <1>3, Unhurt, RequestMoves

(* Capabilities are minted, checked and spent.                              *)
LEMMA MintingKeeps ==
    ASSUME CentreInv, NEW logins, issueWithProof(logins)
    PROVE  CentreInv'
<1>. USE BoundsAre
<1>1. /\ UNCHANGED <<clock, feature, offAt, process, used, spent, req, busy, basket, told, decision>> /\ CentreTypes
      /\ issued < MaxTokens /\ issued' = issued + 1 /\ issued \in Nat
  <2>1. CentreTypes /\ issued \in 0..MaxTokens
    BY DEF CentreInv, CentreTypes
  <2>. QED  BY <2>1 DEF issueWithProof, centre
<1>2. PICK r \in [iat: Nat, process: Nat, target: {"none", "browse", "restore"}] :
         token' = [token EXCEPT ![issued + 1] = r] /\ r.process = process
  <2>1. PICK target \in {"browse", "restore"} :
           token' = [token EXCEPT ![issued + 1] = [iat |-> clock, process |-> process, target |-> target]]
    BY <1>1 DEF issueWithProof
  <2>. DEFINE r == [iat |-> clock, process |-> process, target |-> target]
  <2>2. r \in [iat: Nat, process: Nat, target: {"none", "browse", "restore"}] /\ r.process = process
    BY <1>1 DEF CentreTypes
  <2>3. token' = [token EXCEPT ![issued + 1] = r]
    BY <2>1
  <2>. HIDE DEF r
  <2>. QED  BY <2>2, <2>3
<1>3. \A t \in 1..issued : token'[t] = token[t] /\ t \in Tokens
  BY <1>1, <1>2 DEF CentreTypes
<1>4. CentreTypes'
  <2>1. token' \in [Tokens -> [iat: Nat, process: Nat, target: {"none", "browse", "restore"}]]
    BY <1>1, <1>2 DEF CentreTypes
  <2>2. issued' \in 0..MaxTokens /\ used \subseteq 1..issued'
    BY <1>1 DEF CentreTypes
  <2>. QED  BY <1>1, <2>1, <2>2 DEF CentreTypes
<1>5. SpentIsRemembered'
  <2>1. ASSUME NEW t \in Tokens
        PROVE  /\ t > issued + 1 => spent[t] = 0
               /\ spent[t] > 0 /\ Passes(t)' => t \in used
               /\ t <= issued + 1 => token'[t].process <= process
    <3>1. CASE t \in 1..issued
      BY <1>1, <1>3, <3>1 DEF CentreInv, SpentIsRemembered, Passes, Expiry
    <3>2. CASE t \notin 1..issued
      <4>1. spent[t] = 0 /\ t \in Nat /\ t >= issued + 1
        BY <1>1, <3>2 DEF CentreInv, SpentIsRemembered
      <4>2. t = issued + 1 => token'[t].process = process
        BY <1>1, <1>2 DEF CentreTypes
      <4>. QED  BY <1>1, <4>1, <4>2 DEF CentreTypes
    <3>. QED  BY <3>1, <3>2
  <2>. QED  BY <1>1, <2>1 DEF SpentIsRemembered
<1>6. VerifiedIsOurs'
  BY <1>1, <1>3 DEF CentreInv, VerifiedIsOurs, At
<1>7. OneInside' /\ SeenIsBasket' /\ AnswersAreDated'
  BY <1>1 DEF CentreInv, OneInside, Inside, SeenIsBasket, AnswersAreDated, At
<1>. QED  BY <1>4, <1>5, <1>6, <1>7 DEF CentreInv

LEMMA SpendingKeeps ==
    ASSUME CentreInv, NEW c \in Conns, verify(c) \/ consume(c)
    PROVE  CentreInv'
<1>. USE BoundsAre
<1>0. /\ UNCHANGED <<clock, feature, offAt, token, issued, process, busy, basket, told, decision>>
      /\ CentreTypes /\ busy \in {0, 1} /\ req \in [Conns -> Served] /\ issued \in 0..MaxTokens
  BY DEF verify, consume, auth, centre, CentreInv, CentreTypes
<1>1. CASE verify(c)
  <2>1. PICK t \in 1..issued :
          /\ token[t].process = process /\ clock < Expiry(t)
          /\ req' = [req EXCEPT ![c].pc = "verified", ![c].token = t, ![c].at = clock]
    BY <1>1 DEF verify
  <2>. DEFINE g == req[c]  h == [g EXCEPT !.pc = "verified", !.token = t, !.at = clock]
  <2>2. g \in Served /\ req' = [req EXCEPT ![c] = h]
    BY <1>0, <2>1
  <2>3. h \in Served /\ h.pc = "verified" /\ h.token = t /\ h.at = clock
    <3>1. t \in 0..MaxTokens /\ clock \in Nat
      BY <1>0 DEF CentreTypes
    <3>. HIDE DEF g
    <3>. QED  BY <2>2, <3>1 DEF Served, Places
  <2>. HIDE DEF h
  <2>4. UNCHANGED <<used, spent>>
    BY <1>1 DEF verify, auth
  <2>5. h.pc \notin Within /\ h.pc \notin {"starting", "queued", "gate", "asking", "answered"}
      /\ clock <= clock
    BY <1>0, <2>3 DEF Within, CentreTypes
  <2>. QED  BY <1>0, <2>1, <2>2, <2>3, <2>4, <2>5, Unhurt, RequestMoves
<1>2. CASE consume(c)
  <2>. DEFINE t == req[c].token  kept == Swept(req[c].at)
  <2>1. t \in 1..issued /\ token[t].process = process /\ req[c].at <= clock /\ t \in Tokens
    BY <1>0, <1>2 DEF consume, CentreInv, VerifiedIsOurs
  <2>2. kept = {u \in used : Expiry(u) > req[c].at} /\ req[c].at \in Nat
    BY <1>0 DEF Swept, Served
  <2>3. /\ used \subseteq 1..issued /\ spent \in [Tokens -> Nat] /\ clock \in Nat
        /\ \A u \in Tokens : Expiry(u) \in Nat
    BY <1>0 DEF CentreTypes, Expiry
  <2>4. CASE t \in kept
    <3>1. used' = kept /\ spent' = spent /\ Returns(c)
      BY <1>2, <2>4 DEF consume
    <3>2. \A u \in Tokens : spent[u] > 0 /\ Passes(u) => u \in kept
      BY <2>1, <2>2, <2>3 DEF CentreInv, SpentIsRemembered, Passes
    <3>3. SpentIsRemembered'
      BY <1>0, <3>1, <3>2 DEF CentreInv, SpentIsRemembered, Passes, Expiry
    <3>4. used' \subseteq 1..issued /\ spent' \in [Tokens -> Nat]
      BY <2>2, <2>3, <3>1
    <3>5. PICK h \in Served : req' = [req EXCEPT ![c] = h] /\ h.pc = "open"
      BY <3>1, ClosedIs DEF Returns
    <3>6. h.pc \notin Within /\ h.pc \notin {"verified", "starting", "queued", "gate", "asking", "answered"}
      BY <3>5 DEF Within
    <3>. QED  BY <1>0, <3>3, <3>4, <3>5, <3>6, Unhurt, RequestMoves
  <2>5. CASE t \notin kept
    <3>1. used' = kept \cup {t} /\ spent' = [spent EXCEPT ![t] = @ + 1] /\ Moves(c, "accepted")
      BY <1>2, <2>5 DEF consume
    <3>2. spent[t] \in Nat /\ \A u \in Tokens : u # t => spent'[u] = spent[u]
      BY <2>1, <2>3, <3>1
    <3>4. \A u \in Tokens : spent'[u] > 0 /\ Passes(u) => u \in used'
      BY <2>1, <2>2, <2>3, <3>1, <3>2 DEF CentreInv, SpentIsRemembered, Passes
    <3>5. \A u \in Tokens : (u > issued => spent'[u] = 0) /\ (u <= issued => token[u].process <= process)
      BY <1>0, <2>1, <2>3, <3>2 DEF CentreInv, SpentIsRemembered
    <3>6. SpentIsRemembered'
      <4>1. \A u \in Tokens : Passes(u)' <=> Passes(u)
        BY <1>0 DEF Passes, Expiry
      <4>. QED  BY <1>0, <3>4, <3>5, <4>1 DEF SpentIsRemembered
    <3>7. used' \subseteq 1..issued /\ spent' \in [Tokens -> Nat]
      <4>1. spent' \in [Tokens -> Nat]
        BY <2>1, <2>3, <3>1
      <4>2. kept \subseteq 1..issued
        BY <2>2, <2>3
      <4>. QED  BY <2>1, <3>1, <4>1, <4>2
    <3>8. PICK h \in Served : req' = [req EXCEPT ![c] = h] /\ h.pc = "accepted"
      BY <1>0, <3>1, Moving DEF Places
    <3>9. h.pc \notin Within /\ h.pc \notin {"verified", "starting", "queued", "gate", "asking", "answered"}
      BY <3>8 DEF Within
    <3>. QED  BY <1>0, <3>6, <3>7, <3>8, <3>9, Unhurt, RequestMoves
  <2>. QED  BY <2>4, <2>5
<1>. QED  BY <1>1, <1>2

(* Entering, and passing the feature gate.                                  *)
LEMMA GateKeeps ==
    ASSUME CentreInv, NEW c \in Conns, enter(c) \/ reachGate(c) \/ allowed(c) \/ cpanelFeatureEnabled(c) \/ gate(c)
    PROVE  CentreInv'
<1>. USE BoundsAre
<1>0. /\ UNCHANGED <<clock, feature, offAt, token, issued, process, used, spent, basket, told>>
      /\ CentreTypes /\ busy \in {0, 1} /\ req \in [Conns -> Served] /\ clock \in Nat /\ offAt \in Nat
      /\ decision \in [allowed: BOOLEAN, until: Nat] /\ told \subseteq basket
      /\ feature \in BOOLEAN /\ basket \subseteq Items
  BY DEF enter, reachGate, allowed, cpanelFeatureEnabled, gate, auth, centre, CentreInv, CentreTypes, SeenIsBasket
<1>1. Inside(c) => busy = 1
  BY DEF CentreInv, OneInside
<1>2. CASE enter(c)
  <2>1. decision' = decision
    BY <1>2 DEF enter
  <2>2. CASE Returns(c) /\ busy' = busy
    BY <1>0, <2>1, <2>2, Unhurt, Leaving
  <2>3. CASE busy = 0 /\ busy' = 1 /\ Moves(c, "entered")
    <3>0. "entered" \in Places
      BY DEF Places, Within
    <3>1. PICK h \in Served : req' = [req EXCEPT ![c] = h] /\ h.pc = "entered"
      BY <1>0, <2>3, <3>0, Moving
    <3>2. h.pc \in Within
      BY <3>1 DEF Within
    <3>. QED  BY <1>0, <2>1, <2>3, <3>1, <3>2, Unhurt, RequestMoves
  <2>4. IF Room(busy) THEN busy' = busy + 1 /\ Moves(c, "entered") ELSE busy' = busy /\ Returns(c)
    BY <1>2 DEF enter
  <2>5. Room(busy) => busy = 0
    BY <1>0 DEF Room
  <2>. QED  BY <2>2, <2>3, <2>4, <2>5
<1>6. CASE reachGate(c)
  <2>1. decision' = decision /\ busy' = busy /\ Inside(c) /\ busy = 1
    BY <1>1, <1>6 DEF reachGate, centre, At, Inside, Within
  <2>. DEFINE g == req[c]  h == [g EXCEPT !.pc = "gate", !.at = clock]
  <2>2. g \in Served /\ req' = [req EXCEPT ![c] = h]
    BY <1>0, <1>6 DEF reachGate
  <2>3. h \in Served /\ h.pc = "gate" /\ h.at = clock
    <3>. HIDE DEF g
    <3>. QED  BY <1>0, <2>2 DEF Served, Places, Within
  <2>. HIDE DEF h
  <2>4. h.pc \in Within /\ h.at <= clock
    BY <1>0, <2>3 DEF Within
  <2>. QED  BY <1>0, <2>1, <2>2, <2>3, <2>4, Unhurt, RequestMoves
<1>3. CASE allowed(c)
  <2>1. decision' = decision /\ Inside(c) /\ busy = 1
    BY <1>1, <1>3 DEF allowed, At, Inside, Within
  <2>2. CASE Leaves(c)
    BY <1>0, <2>1, <2>2, Unhurt, Leaving DEF Leaves
  <2>3. CASE Moves(c, "serving") /\ busy' = busy
    <3>0. "serving" \in Places
      BY DEF Places, Within
    <3>1. PICK h \in Served : req' = [req EXCEPT ![c] = h] /\ h.pc = "serving"
      BY <1>0, <2>3, <3>0, Moving
    <3>2. h.pc \in Within
      BY <3>1 DEF Within
    <3>. QED  BY <1>0, <2>1, <2>3, <3>1, <3>2, Unhurt, RequestMoves
  <2>4. CASE Moves(c, "asking") /\ busy' = busy
    <3>0. "asking" \in Places /\ req[c].at <= clock
      BY <1>3 DEF Places, Within, allowed, At, CentreInv, AnswersAreDated
    <3>1. PICK h \in Served : req' = [req EXCEPT ![c] = h] /\ h.pc = "asking" /\ h.at = req[c].at
      BY <1>0, <2>4, <3>0, Moving
    <3>2. h.pc \in Within
      BY <3>1 DEF Within
    <3>. QED  BY <1>0, <2>1, <2>4, <3>0, <3>1, <3>2, Unhurt, RequestMoves
  <2>. QED  BY <1>3, <2>2, <2>3, <2>4 DEF allowed
<1>4. CASE cpanelFeatureEnabled(c)
  <2>1. decision' = decision /\ busy' = busy /\ Inside(c) /\ busy = 1 /\ req[c].at <= clock
    BY <1>1, <1>4 DEF cpanelFeatureEnabled, centre, At, Inside, Within, CentreInv, AnswersAreDated
  <2>. DEFINE g == req[c]  h == [g EXCEPT !.pc = "answered", !.answer = feature]
  <2>2. g \in Served /\ req' = [req EXCEPT ![c] = h]
    BY <1>0, <1>4 DEF cpanelFeatureEnabled
  <2>3. h \in Served /\ h.pc = "answered" /\ h.at = g.at
    <3>. HIDE DEF g
    <3>. QED  BY <1>0, <2>2 DEF Served, Places, Within
  <2>4. h.answer => feature
    <3>. HIDE DEF g
    <3>. QED  BY <2>2 DEF Served
  <2>. HIDE DEF h
  <2>5. h.pc \in Within
    BY <2>3 DEF Within
  <2>. QED  BY <1>0, <2>1, <2>2, <2>3, <2>4, <2>5, Unhurt, RequestMoves
<1>5. CASE gate(c)
  <2>1. /\ Inside(c) /\ busy = 1 /\ req[c].at <= clock /\ req[c].at \in Nat
        /\ req[c].answer => feature \/ req[c].at <= offAt
    BY <1>0, <1>1, <1>5 DEF gate, At, Inside, Within, CentreInv, AnswersAreDated, Served
  <2>2. /\ decision' \in [allowed: BOOLEAN, until: Nat]
        /\ decision'.allowed => feature \/ decision'.until <= offAt + TTL
        /\ decision'.until <= clock + TTL
    <3>1. CASE decision' = decision
      BY <3>1 DEF CentreInv, CentreTypes, AnswersAreDated
    <3>2. CASE decision' = [allowed |-> req[c].answer, until |-> req[c].at + TTL]
      <4>1. req[c].answer \in BOOLEAN /\ req[c].at + TTL \in Nat
        BY <1>0, <2>1 DEF Served
      <4>2. decision'.allowed = req[c].answer /\ decision'.until = req[c].at + TTL
        BY <3>2
      <4>3. decision' \in [allowed: BOOLEAN, until: Nat]
        BY <3>2, <4>1
      <4>. QED  BY <1>0, <2>1, <4>2, <4>3
    <3>. QED  BY <1>5, <3>1, <3>2 DEF gate, Until
  <2>3. CASE Leaves(c)
    BY <1>0, <2>1, <2>2, <2>3, Leaving DEF Leaves
  <2>4. CASE Moves(c, "serving") /\ busy' = busy
    <3>0. "serving" \in Places
      BY DEF Places, Within
    <3>1. PICK h \in Served : req' = [req EXCEPT ![c] = h] /\ h.pc = "serving"
      BY <1>0, <2>4, <3>0, Moving
    <3>2. h.pc \in Within
      BY <3>1 DEF Within
    <3>. QED  BY <1>0, <2>1, <2>2, <2>4, <3>1, <3>2, RequestMoves
  <2>. QED  BY <1>5, <2>3, <2>4 DEF gate
<1>. QED  BY <1>2, <1>3, <1>4, <1>5, <1>6

(* What a request does with the basket, and a restore from it.              *)
LEMMA ServingKeeps ==
    ASSUME CentreInv, NEW c \in Conns,
           \/ handleUserBrowse(c) \/ changeUserBasket(c) \/ handleUserRestore(c)
           \/ queueUserRestore(c) \/ EmptyBasket(c)
    PROVE  CentreInv'
<1>. USE BoundsAre
<1>0. /\ UNCHANGED <<clock, feature, offAt, token, issued, process, used, spent, decision>>
      /\ CentreTypes /\ req \in [Conns -> Served] /\ Inside(c) /\ busy = 1 /\ told \subseteq basket
      /\ basket \subseteq Items
      /\ decision' \in [allowed: BOOLEAN, until: Nat]
      /\ decision'.allowed => feature \/ decision'.until <= offAt + TTL
      /\ decision'.until <= clock + TTL
  <2>1. Inside(c)
    BY DEF handleUserBrowse, changeUserBasket, handleUserRestore, queueUserRestore, EmptyBasket,
           Serves, At, Inside, Within
  <2>2. UNCHANGED <<clock, feature, offAt, token, issued, process, used, spent, decision>>
    BY DEF handleUserBrowse, changeUserBasket, handleUserRestore, queueUserRestore, EmptyBasket, auth, centre
  <2>3. CentreTypes /\ req \in [Conns -> Served] /\ busy = 1 /\ told \subseteq basket /\ basket \subseteq Items
    BY <2>1 DEF CentreInv, CentreTypes, OneInside, SeenIsBasket
  <2>. QED  BY <2>1, <2>2, <2>3 DEF CentreInv, CentreTypes, AnswersAreDated
<1>1. ASSUME Leaves(c), told' \subseteq basket', basket' \subseteq Items
      PROVE  CentreInv'
  BY <1>0, <1>1, Leaving DEF Leaves
<1>2. CASE handleUserBrowse(c)
  BY <1>0, <1>1, <1>2 DEF handleUserBrowse
<1>3. CASE changeUserBasket(c)
  <2>1. told' \subseteq basket' /\ basket' \subseteq Items
    BY <1>0, <1>3 DEF changeUserBasket, PutInBasket, TakeFromBasket
  <2>. QED  BY <1>1, <1>3, <2>1 DEF changeUserBasket
<1>4. ASSUME NEW place \in {"starting", "starting one"}, NEW seen \in SUBSET Items,
             req' = [req EXCEPT ![c].pc = place, ![c].seen = seen], place = "starting" => seen = basket,
             UNCHANGED <<busy, basket, told>>
      PROVE  CentreInv'
  <2>. DEFINE g == req[c]  h == [g EXCEPT !.pc = place, !.seen = seen]
  <2>2. g \in Served /\ req' = [req EXCEPT ![c] = h]
    BY <1>0, <1>4
  <2>3. h \in Served /\ h.pc = place /\ h.seen = seen
    <3>. HIDE DEF g
    <3>. QED  BY <2>2 DEF Served, Places, Within
  <2>. HIDE DEF h
  <2>4. h.pc \in Within /\ h.pc \notin {"verified", "queued", "gate", "asking", "answered"}
    BY <2>3 DEF Within
  <2>. QED  BY <1>0, <1>4, <2>2, <2>3, <2>4, RequestMoves
<1>7. CASE handleUserRestore(c)
  <2>0. UNCHANGED <<busy, basket, told>> /\ basket \subseteq Items
    BY <1>0, <1>7 DEF handleUserRestore, centre
  <2>1. CASE req' = [req EXCEPT ![c].pc = "starting", ![c].seen = basket]
    BY <1>4, <2>0, <2>1
  <2>2. ASSUME NEW i \in Items, req' = [req EXCEPT ![c].pc = "starting one", ![c].seen = {i}]
        PROVE  CentreInv'
    <3>1. {i} \in SUBSET Items
      OBVIOUS
    <3>. QED  BY <1>4, <2>0, <2>2, <3>1
  <2>. QED  BY <1>7, <2>1, <2>2 DEF handleUserRestore
<1>5. CASE queueUserRestore(c)
  <2>0. UNCHANGED <<basket, told>>
    BY <1>5 DEF queueUserRestore
  <2>1. CASE Leaves(c)
    BY <1>0, <1>1, <2>0, <2>1
  <2>2. CASE At(c, "starting") /\ Moves(c, "queued") /\ busy' = busy
    <3>1. "queued" \in Places /\ req[c].seen = basket
      BY <2>2 DEF Places, Within, At, CentreInv, SeenIsBasket
    <3>2. PICK h \in Served : req' = [req EXCEPT ![c] = h] /\ h.pc = "queued" /\ h.seen = basket
      BY <1>0, <2>2, <3>1, Moving
    <3>3. h.pc \in Within
      BY <3>2 DEF Within
    <3>. QED  BY <1>0, <2>0, <2>2, <3>2, <3>3, RequestMoves
  <2>. QED  BY <1>5, <2>1, <2>2 DEF queueUserRestore
<1>6. CASE EmptyBasket(c)
  <2>1. req[c].seen = basket
    BY <1>6 DEF EmptyBasket, At, CentreInv, SeenIsBasket
  <2>2. told' \subseteq basket' /\ basket' \subseteq Items
    BY <1>0, <1>6, <2>1 DEF EmptyBasket
  <2>. QED  BY <1>1, <1>6, <2>2 DEF EmptyBasket
<1>. QED  BY <1>2, <1>3, <1>5, <1>6, <1>7

-----------------------------------------------------------------------------
(* The clock, the host, the account and the process                         *)

LEMMA SurroundingsKeep ==
    ASSUME CentreInv, WorkEnds \/ Tick \/ HostDisables \/ LogsOut \/ UNCHANGED vars
    PROVE  CentreInv'
<1>. USE BoundsAre
<1>0. /\ UNCHANGED <<token, issued, process, used, spent, req, busy, basket, told, decision>>
      /\ CentreTypes /\ clock \in Nat /\ offAt \in Nat /\ offAt <= clock
      /\ \A t \in Tokens : Expiry(t) \in Nat
    <2>1. UNCHANGED <<token, issued, process, used, spent, req, busy, basket, told, decision>>
    BY DEF WorkEnds, Tick, HostDisables, LogsOut, vars, auth, centre
  <2>. QED  BY <2>1 DEF CentreInv, CentreTypes, Expiry
<1>1. /\ clock' \in Nat /\ clock <= clock' /\ feature' \in BOOLEAN /\ offAt' \in Nat /\ offAt' <= clock'
      /\ feature' => feature
      /\ \/ feature' = feature /\ offAt' = offAt
         \/ ~feature' /\ offAt' = clock /\ clock' = clock
  <2>0. feature \in BOOLEAN
    BY <1>0 DEF CentreTypes
  <2>1. CASE WorkEnds \/ LogsOut \/ UNCHANGED vars
    <3>1. clock' = clock /\ feature' = feature /\ offAt' = offAt
      BY <2>1 DEF WorkEnds, LogsOut, vars
    <3>. QED  BY <1>0, <2>0, <3>1
  <2>2. CASE Tick
    <3>1. clock' = clock + 1 /\ feature' = feature /\ offAt' = offAt
      BY <2>2 DEF Tick
    <3>. QED  BY <1>0, <2>0, <3>1
  <2>3. CASE HostDisables
    <3>1. clock' = clock /\ feature' = FALSE /\ offAt' = clock
      BY <2>3 DEF HostDisables
    <3>2. ~feature' /\ feature' \in BOOLEAN
      BY <3>1
    <3>3. clock <= clock
      BY <1>0
    <3>. QED  BY <1>0, <3>1, <3>2, <3>3
  <2>. QED  BY <2>1, <2>2, <2>3
<1>2. CentreTypes'
  BY <1>0, <1>1 DEF CentreTypes
<1>3. SpentIsRemembered'
  BY <1>0, <1>1 DEF CentreInv, SpentIsRemembered, Passes, Expiry
<1>4. VerifiedIsOurs'
  <2>1. \A c \in Conns : req[c].at \in Nat
    BY <1>0 DEF CentreTypes, Served
  <2>. QED  BY <1>0, <1>1, <2>1 DEF CentreInv, VerifiedIsOurs, At
<1>5. OneInside' /\ SeenIsBasket'
  BY <1>0 DEF CentreInv, OneInside, Inside, SeenIsBasket
<1>6. AnswersAreDated'
  <2>1. /\ decision.until \in Nat /\ decision.until <= clock + TTL
        /\ decision.allowed => feature \/ decision.until <= offAt + TTL
    BY DEF CentreInv, CentreTypes, AnswersAreDated
  <2>2. \A c \in Conns :
          /\ req[c].pc \in {"gate", "asking", "answered"} => req[c].at <= clock
          /\ At(c, "answered") /\ req[c].answer => feature \/ req[c].at <= offAt
          /\ req[c].at \in Nat
    BY DEF CentreInv, CentreTypes, AnswersAreDated, Served
  <2>3. decision.until <= clock' + TTL /\ (decision.allowed => feature' \/ decision.until <= offAt' + TTL)
    BY <1>0, <1>1, <2>1
  <2>4. \A c \in Conns : req[c].pc \in {"gate", "asking", "answered"} => req[c].at <= clock'
    BY <1>0, <1>1, <2>2
  <2>5. \A c \in Conns : At(c, "answered") /\ req[c].answer => feature' \/ req[c].at <= offAt'
    BY <1>0, <1>1, <2>2 DEF At
  <2>. QED  BY <1>0, <2>3, <2>4, <2>5 DEF AnswersAreDated, At
<1>. QED  BY <1>2, <1>3, <1>4, <1>5, <1>6 DEF CentreInv

LEMMA CrashKeeps ==
    ASSUME CentreInv, Crash
    PROVE  CentreInv'
<1>. USE BoundsAre
<1>0. /\ UNCHANGED <<clock, feature, offAt, token, issued, spent, basket, told>> /\ CentreTypes
      /\ process' = process + 1 /\ process \in Nat /\ used' = {} /\ busy' = 0 /\ decision' = NoDecision
      /\ req' = [c \in Conns |-> Closed]
  BY DEF Crash, CentreInv, CentreTypes
<1>1. req' \in [Conns -> Served] /\ \A c \in Conns : req'[c].pc = "closed"
  BY <1>0, ClosedIs
<1>2. decision' \in [allowed: BOOLEAN, until: Nat] /\ ~decision'.allowed /\ decision'.until = 0
  BY <1>0 DEF NoDecision
<1>3. CentreTypes'
  BY <1>0, <1>1, <1>2 DEF CentreTypes
<1>4. SpentIsRemembered'
  <2>1. \A t \in Tokens : t <= issued => token[t].process <= process /\ token[t].process \in Nat
    BY <1>0 DEF CentreInv, SpentIsRemembered, CentreTypes
  <2>2. \A t \in Tokens : spent[t] > 0 => t <= issued
    BY <1>0 DEF CentreInv, SpentIsRemembered, CentreTypes
  <2>3. \A t \in Tokens : t <= issued => ~Passes(t)' /\ token[t].process <= process'
    BY <1>0, <2>1 DEF Passes
  <2>. QED  BY <1>0, <2>2, <2>3 DEF CentreInv, SpentIsRemembered
<1>5. VerifiedIsOurs' /\ OneInside' /\ SeenIsBasket'
  BY <1>0, <1>1 DEF CentreInv, VerifiedIsOurs, At, OneInside, Inside, Within, SeenIsBasket
<1>6. AnswersAreDated'
  BY <1>0, <1>1, <1>2 DEF CentreTypes, AnswersAreDated, At
<1>. QED  BY <1>3, <1>4, <1>5, <1>6 DEF CentreInv

LEMMA StartsTrue == Init => CentreInv
<1>. SUFFICES ASSUME Init PROVE CentreInv
  OBVIOUS
<1>. USE BoundsAre
<1>1. req \in [Conns -> Served] /\ \A c \in Conns : req[c].pc = "closed"
  BY ClosedIs DEF Init
<1>2. decision \in [allowed: BOOLEAN, until: Nat] /\ ~decision.allowed /\ decision.until = 0
  BY DEF Init, NoDecision
<1>3. token \in [Tokens -> [iat: Nat, process: Nat, target: {"none", "browse", "restore"}]]
  BY DEF Init
<1>4. CentreTypes
  <2>1. basket \subseteq Items
    BY CentreAssumption DEF Init
  <2>. QED  BY <1>1, <1>2, <1>3, <2>1 DEF Init, CentreTypes
<1>5. SpentIsRemembered
  BY DEF Init, SpentIsRemembered
<1>6. VerifiedIsOurs /\ OneInside /\ SeenIsBasket
  BY <1>1 DEF Init, VerifiedIsOurs, At, OneInside, Inside, Within, SeenIsBasket
<1>7. AnswersAreDated
  BY <1>1, <1>2 DEF Init, AnswersAreDated, At
<1>. QED  BY <1>4, <1>5, <1>6, <1>7 DEF CentreInv

LEMMA StepsKeep == CentreInv /\ [Next]_vars => CentreInv'
<1>. SUFFICES ASSUME CentreInv, [Next]_vars PROVE CentreInv'
  OBVIOUS
<1>1. ASSUME NEW c \in Conns, Accept(c) \/ Close(c) \/ CloseAgain(c) PROVE CentreInv'
  BY <1>1, ConnectionsKeep
<1>2. ASSUME NEW c \in Conns, issueUserCapability(c) PROVE CentreInv'
  BY <1>2, MintingKeeps DEF issueUserCapability
<1>3. CASE issueAdminUserCapability
  BY <1>3, MintingKeeps DEF issueAdminUserCapability
<1>4. ASSUME NEW c \in Conns, verify(c) \/ consume(c) PROVE CentreInv'
  BY <1>4, SpendingKeeps
<1>5. ASSUME NEW c \in Conns, enter(c) \/ reachGate(c) \/ allowed(c) \/ cpanelFeatureEnabled(c) \/ gate(c) PROVE CentreInv'
  BY <1>5, GateKeeps
<1>6. ASSUME NEW c \in Conns,
             \/ handleUserBrowse(c) \/ changeUserBasket(c) \/ handleUserRestore(c)
             \/ queueUserRestore(c) \/ EmptyBasket(c)
      PROVE  CentreInv'
  BY <1>6, ServingKeeps
<1>7. CASE WorkEnds \/ Tick \/ HostDisables \/ LogsOut \/ UNCHANGED vars
  BY <1>7, SurroundingsKeep
<1>8. CASE Crash
  BY <1>8, CrashKeeps
<1>. QED  BY <1>1, <1>2, <1>3, <1>4, <1>5, <1>6, <1>7, <1>8 DEF Next

LEMMA CentreInvHolds == Spec => []CentreInv
BY StartsTrue, StepsKeep, PTL DEF Spec

-----------------------------------------------------------------------------
(* What follows                                                             *)

(* While it lasts a capability serves one request, however often it is      *)
(* sent, at once or while nonces are swept, and across restarts.            *)
THEOREM CapabilityServesOnce == Spec => ServesOnce
<1>. DEFINE Once == \A t \in Tokens : spent'[t] # spent[t] /\ clock < Expiry(t) => spent[t] = 0
<1>1. CentreInv /\ [Next]_vars => [Once]_vars
  <2>. SUFFICES ASSUME CentreInv, Next, NEW t \in Tokens, spent'[t] # spent[t], clock < Expiry(t)
                PROVE  spent[t] = 0
    OBVIOUS
  <2>1. PICK c \in Conns : consume(c)
    <3>1. UNCHANGED spent \/ \E c \in Conns : consume(c)
      BY DEF Next, Accept, Close, CloseAgain, issueUserCapability, issueAdminUserCapability, issueWithProof,
             verify, enter, reachGate, allowed, cpanelFeatureEnabled, gate, handleUserBrowse, changeUserBasket,
             handleUserRestore, queueUserRestore, EmptyBasket, WorkEnds, Tick, HostDisables, LogsOut, Crash, auth
    <3>. QED  BY <3>1
  <2>2. /\ req[c] \in Served /\ spent \in [Tokens -> Nat] /\ clock \in Nat /\ used \subseteq 1..issued
        /\ \A u \in Tokens : Expiry(u) \in Nat
    BY BoundsAre DEF CentreInv, CentreTypes, Expiry
  <2>3. /\ token[req[c].token].process = process /\ req[c].at <= clock /\ req[c].at \in Nat
    BY <2>1, <2>2 DEF consume, CentreInv, VerifiedIsOurs, Served
  <2>4. t = req[c].token /\ t \notin Swept(req[c].at)
    BY <2>1, <2>2 DEF consume
  <2>5. t \notin used
    BY <2>2, <2>3, <2>4 DEF Swept
  <2>. QED  BY <2>2, <2>3, <2>4, <2>5 DEF CentreInv, SpentIsRemembered, Passes
<1>. QED  BY <1>1, CentreInvHolds, PTL DEF Spec, ServesOnce

(* Nothing the account was told is in its basket is lost.                   *)
THEOREM ChosenStays == Spec => []NothingChosenIsLost
<1>1. CentreInv => NothingChosenIsLost
  BY DEF CentreInv, SeenIsBasket, NothingChosenIsLost
<1>. QED  BY <1>1, CentreInvHolds, PTL

(* Who reaches the gate later than the cache's life after the feature went  *)
(* off is not served, by a remembered answer or by its own: an answer is    *)
(* dated from before it was asked for, however late it came.                *)
THEOREM GateClosesInTime == Spec => CutOffInTime
<1>. DEFINE Gated == \A c \in Conns : ~At(c, "serving") /\ req'[c].pc = "serving" =>
                        feature \/ req[c].at < offAt + TTL
<1>1. CentreInv /\ [Next]_vars => [Gated]_vars
  <2>. SUFFICES ASSUME CentreInv, Next, NEW c \in Conns, ~At(c, "serving"), req'[c].pc = "serving"
                PROVE  feature \/ req[c].at < offAt + TTL
    OBVIOUS
  <2>0. req \in [Conns -> Served] /\ req[c] \in Served
    BY DEF CentreInv, CentreTypes
  <2>a. \A d \in Conns : req[d] \in Served
    BY <2>0
  <2>b. ASSUME NEW d \in Conns, NEW p, Moves(d, p), p # "serving" PROVE FALSE
    <3>. DEFINE g == req[d]
    <3>1. req' = [req EXCEPT ![d] = [g EXCEPT !.pc = p]] /\ g \in Served
      BY <2>a, <2>b DEF Moves
    <3>. HIDE DEF g
    <3>2. [g EXCEPT !.pc = p].pc = p
      BY <3>1 DEF Served
    <3>. QED  BY <2>0, <2>b, <3>1, <3>2 DEF At
  <2>c. ASSUME NEW d \in Conns, Returns(d) PROVE FALSE
    BY <2>0, <2>c, ClosedIs DEF Returns, At
  <2>d. ASSUME NEW d \in Conns, NEW h \in Served, h.pc # "serving", req' = [req EXCEPT ![d] = h] PROVE FALSE
    BY <2>0, <2>d DEF At
  <2>1. PICK d \in Conns : allowed(d) \/ gate(d)
    <3>1. ASSUME NEW d \in Conns, Accept(d) \/ Close(d) \/ CloseAgain(d) \/ enter(d) PROVE FALSE
      BY <2>b, <2>c, <2>d, <3>1, ClosedIs DEF Accept, Close, CloseAgain, enter
    <3>2. ASSUME NEW d \in Conns, verify(d) PROVE FALSE
      <4>. DEFINE g == req[d]
      <4>1. PICK t \in 1..issued : req' = [req EXCEPT ![d] = [g EXCEPT !.pc = "verified", !.token = t, !.at = clock]]
        BY <3>2 DEF verify
      <4>2. g \in Served
        BY <2>a
      <4>. HIDE DEF g
      <4>3. [g EXCEPT !.pc = "verified", !.token = t, !.at = clock].pc = "verified"
        BY <4>2 DEF Served
      <4>. QED  BY <2>0, <4>1, <4>3 DEF At
    <3>7. ASSUME NEW d \in Conns, reachGate(d) \/ cpanelFeatureEnabled(d) PROVE FALSE
      <4>. DEFINE g == req[d]
      <4>1. \/ req' = [req EXCEPT ![d] = [g EXCEPT !.pc = "gate", !.at = clock]]
            \/ req' = [req EXCEPT ![d] = [g EXCEPT !.pc = "answered", !.answer = feature]]
        BY <3>7 DEF reachGate, cpanelFeatureEnabled
      <4>2. g \in Served
        BY <2>a
      <4>. HIDE DEF g
      <4>3. /\ [g EXCEPT !.pc = "gate", !.at = clock].pc = "gate"
            /\ [g EXCEPT !.pc = "answered", !.answer = feature].pc = "answered"
        BY <4>2 DEF Served
      <4>. QED  BY <2>0, <4>1, <4>3 DEF At
    <3>8. ASSUME NEW d \in Conns, consume(d) PROVE FALSE
      BY <2>b, <2>c, <3>8 DEF consume
    <3>3. ASSUME NEW d \in Conns, handleUserBrowse(d) \/ changeUserBasket(d) PROVE FALSE
      BY <2>c, <3>3 DEF handleUserBrowse, changeUserBasket, Leaves
    <3>9. ASSUME NEW d \in Conns, handleUserRestore(d) PROVE FALSE
      <4>. DEFINE g == req[d]
      <4>1. PICK p \in {"starting", "starting one"} : \E seen :
               req' = [req EXCEPT ![d] = [g EXCEPT !.pc = p, !.seen = seen]]
        BY <3>9 DEF handleUserRestore
      <4>s. PICK seen : req' = [req EXCEPT ![d] = [g EXCEPT !.pc = p, !.seen = seen]]
        BY <4>1
      <4>2. g \in Served
        BY <2>a
      <4>. HIDE DEF g
      <4>3. [g EXCEPT !.pc = p, !.seen = seen].pc = p
        BY <4>2 DEF Served
      <4>4. req'[d].pc = p /\ \A e \in Conns \ {d} : req'[e] = req[e]
        BY <2>0, <4>s, <4>3
      <4>. QED  BY <2>0, <4>4 DEF At
    <3>4. ASSUME NEW d \in Conns, queueUserRestore(d) \/ EmptyBasket(d) PROVE FALSE
      BY <2>b, <2>c, <3>4 DEF queueUserRestore, EmptyBasket, Leaves
    <3>5. ASSUME UNCHANGED req PROVE FALSE
      BY <2>0, <3>5 DEF At
    <3>6. CASE Crash
      BY <2>0, <3>6, ClosedIs DEF Crash
    <3>. QED  BY <3>1, <3>2, <3>3, <3>4, <3>5, <3>6, <3>7, <3>8, <3>9 DEF Next, issueUserCapability,
                  issueAdminUserCapability, issueWithProof, WorkEnds, Tick, HostDisables, LogsOut
  <2>2. d = c
    BY <2>0, <2>1 DEF allowed, gate, At, Moves, Leaves, Returns
  <2>3. ~Leaves(c)
    BY <2>0 DEF Leaves, Returns, Closed
  <2>4. /\ req[c].at \in Nat /\ offAt \in Nat /\ TTL \in Nat \ {0} /\ decision.until \in Nat
    BY <2>0, BoundsAre DEF CentreInv, CentreTypes, Served
  <2>5. CASE allowed(c)
    <3>1. ~Moves(c, "asking")
      BY <2>b
    <3>2. req[c].at < decision.until /\ decision.allowed
      BY <2>3, <2>5, <3>1 DEF allowed
    <3>. QED  BY <2>4, <3>2 DEF CentreInv, AnswersAreDated
  <2>6. CASE gate(c)
    <3>1. req[c].answer /\ At(c, "answered")
      BY <2>3, <2>6 DEF gate
    <3>. QED  BY <2>4, <3>1 DEF CentreInv, AnswersAreDated
  <2>. QED  BY <2>1, <2>2, <2>5, <2>6
<1>. QED  BY <1>1, CentreInvHolds, PTL DEF Spec, CutOffInTime

(* A capability is minted only on the login of somebody who may have one:   *)
(* no record that cPanel can hold passes for the owner or for a member of   *)
(* the team that it does not name.                                          *)
LEMMA LoginsAreApart == NonePassesForAnother
<1>. SUFFICES ASSUME NEW s \in SessionRecords, NEW e \in {Nobody, Owner} \cup Team, NEW key \in BOOLEAN,
                     NEW administrators \in SUBSET Team, verifyCPanelSession(s, e, key, administrators)
              PROVE  LET people == s.markers \cup ({s.user} \ {Owner})
                     IN  Cardinality(people) <= 1 /\ people \subseteq administrators
  BY DEF NonePassesForAnother
<1>. DEFINE M == s.markers  u == s.user  people == M \cup ({u} \ {Owner})
            team == sessionTeamUser(s)  who == SessionPrincipal(s, e)
<1>1. /\ M \in SUBSET Team /\ u \in {Owner} \cup Team
      /\ Owner # Nobody /\ Owner \notin Team /\ Nobody \notin Team
  BY DEF SessionRecords, Team, Owner, Nobody
<1>2. who = Owner \/ (who # Nobody /\ who \in administrators)
  BY DEF verifyCPanelSession, cpanelTeamAdministrator
<1>3. IsFiniteSet(M) /\ Cardinality(M) \in Nat
  <2>1. IsFiniteSet({"editor"} \cup {"admin"})
    BY FS_Singleton, FS_AddElement
  <2>2. Team = {"editor"} \cup {"admin"}
    BY DEF Team
  <2>. QED  BY <1>1, <2>1, <2>2, FS_Subset, FS_CardinalityType
<1>4. Cardinality(M) <= 1
  <2>1. Cardinality(M) > 1 => who = Nobody
    BY DEF SessionPrincipal
  <2>. QED  BY <1>1, <1>2, <1>3, <2>1
<1>5. M = {} \/ \E m \in Team : M = {m}
  BY <1>1, <1>3, <1>4, FS_EmptySet, FS_Singleton
<1>. DEFINE Named(m) == IF M = {} THEN m = Nobody ELSE m \in M
<1>6. team = CHOOSE m \in Team \cup {Nobody} : Named(m)
  BY DEF sessionTeamUser
<1>7. \E m \in Team \cup {Nobody} : Named(m)
  BY <1>1
<1>8. team \in Team \cup {Nobody} /\ Named(team)
  <2>. HIDE DEF Named
  <2>. QED  BY <1>6, <1>7
<1>. HIDE DEF team
<1>9. /\ e = Nobody => who = (IF u # Owner THEN Nobody ELSE IF team = Nobody THEN Owner ELSE team)
      /\ e = Owner => who = (IF u = Owner /\ team = Nobody THEN Owner ELSE Nobody)
      /\ e \in Team => who = (IF (u = e \/ (u = Owner /\ team = e)) /\ team \in {Nobody, e} THEN e ELSE Nobody)
  <2>1. ~(Cardinality(M) > 1)
    BY <1>3, <1>4
  <2>2. e = Nobody => e # Owner
    BY <1>1
  <2>3. e \in Team => e # Owner /\ e # Nobody
    BY <1>1
  <2>. QED  BY <2>1, <2>2, <2>3 DEF SessionPrincipal, team
<1>. HIDE DEF who
<1>10. people = {} \/ \E m \in administrators : people = {m}
  <2>1. CASE e = Nobody
    BY <1>1, <1>2, <1>5, <1>8, <1>9, <2>1
  <2>2. CASE e = Owner
    BY <1>1, <1>2, <1>5, <1>8, <1>9, <2>2
  <2>3. CASE e \in Team
    <3>1. who = e /\ e \in administrators /\ (u = e \/ (u = Owner /\ team = e)) /\ team \in {Nobody, e}
      BY <1>1, <1>2, <1>9, <2>3
    <3>2. M = {} \/ M = {e}
      BY <1>1, <1>5, <1>8, <2>3, <3>1
    <3>3. people = {e}
      BY <1>1, <1>8, <3>1, <3>2, <2>3
    <3>. QED  BY <3>1, <3>3
  <2>. QED  BY <2>1, <2>2, <2>3
<1>. HIDE DEF people
<1>11. Cardinality(people) <= 1 /\ people \subseteq administrators
  <2>1. CASE people = {}
    BY <2>1, FS_EmptySet
  <2>2. ASSUME NEW m \in administrators, people = {m} PROVE Cardinality(people) = 1
    BY <2>2, FS_Singleton
  <2>3. CASE \E m \in administrators : people = {m}
    BY <2>2, <2>3
  <2>. QED  BY <1>10, <2>1, <2>3
<1>. QED  BY <1>11 DEF people

(* A capability is minted only on the login of the owner or of a team       *)
(* member who is an administrator now: no record that cPanel can hold, and  *)
(* no principal the bridge can name, passes for another's.                  *)
THEOREM MintedForTheEntitled == Spec => []LoginIsEntitled
<1>1. LoginIsEntitled
  BY LoginsAreApart DEF LoginIsEntitled
<1>. QED  BY <1>1, PTL
-----------------------------------------------------------------------------
(* The connection budget                                                    *)

Mine(u) == {c \in Open : Uid(c) = u}

BudgetInv ==
    /\ byUID \in [{"account", "stranger"} -> Nat] /\ total = Cardinality(Open)
    /\ \A u \in {"account", "stranger"} : byUID[u] = Cardinality(Mine(u))

LEMMA OpenIsFinite == IsFiniteSet(Open) /\ \A u : IsFiniteSet(Mine(u))
<1>1. Open \subseteq Conns /\ \A u : Mine(u) \subseteq Conns
  BY DEF Open, Mine
<1>. QED  BY <1>1, CentreAssumption, FS_Subset

(* A request that moves on while its connection is open.                    *)
LEMMA OpenStays ==
    ASSUME req \in [Conns -> Served], basket \in SUBSET Items, NEW c \in Conns,
           \/ verify(c) \/ consume(c) \/ enter(c) \/ reachGate(c) \/ allowed(c) \/ cpanelFeatureEnabled(c) \/ gate(c)
           \/ handleUserBrowse(c) \/ changeUserBasket(c) \/ handleUserRestore(c)
           \/ queueUserRestore(c) \/ EmptyBasket(c)
    PROVE  Open' = Open
<1>1. req[c].pc \notin {"closed", "closing"} /\ \A d \in Conns \ {c} : req'[d] = req[d]
  BY DEF verify, Attributed, consume, enter, reachGate, allowed, cpanelFeatureEnabled, gate, handleUserBrowse, changeUserBasket,
         handleUserRestore, queueUserRestore, EmptyBasket, Serves, At, Moves, Leaves, Returns
<1>2. req'[c].pc \notin {"closed", "closing"}
  <2>. DEFINE g == req[c]
  <2>a. g \in Served
    OBVIOUS
  <2>. HIDE DEF g
  <2>b. \A p : [g EXCEPT !.pc = p].pc = p
    BY <2>a DEF Served
  <2>0. /\ \A p : Moves(c, p) => req'[c].pc = p
        /\ Returns(c) => req'[c].pc = "open"
        /\ Leaves(c) => req'[c].pc = "open"
    <3>1. ASSUME NEW p, Moves(c, p) PROVE req'[c].pc = p
      <4>1. req'[c] = [g EXCEPT !.pc = p]
        BY <3>1 DEF Moves, g
      <4>. QED  BY <4>1, <2>b
    <3>2. Returns(c) => req'[c] = [Closed EXCEPT !.pc = "open"]
      BY DEF Returns
    <3>. QED  BY <3>1, <3>2, ClosedIs DEF Leaves
  <2>1. CASE verify(c) \/ consume(c) \/ enter(c)
    <3>1. ASSUME verify(c) PROVE req'[c].pc = "verified"
      <4>1. PICK t \in 1..issued : req'[c] = [g EXCEPT !.pc = "verified", !.token = t, !.at = clock]
        BY <3>1 DEF verify, g
      <4>2. [g EXCEPT !.pc = "verified", !.token = t, !.at = clock].pc = "verified"
        BY <2>a DEF Served
      <4>. QED  BY <4>1, <4>2, Zenon
    <3>. QED  BY <2>0, <2>1, <3>1 DEF consume, enter
  <2>6. CASE reachGate(c)
    <3>1. req'[c] = [g EXCEPT !.pc = "gate", !.at = clock]
      BY <2>6 DEF reachGate, g
    <3>2. [g EXCEPT !.pc = "gate", !.at = clock].pc = "gate"
      BY <2>a DEF Served
    <3>. QED  BY <3>1, <3>2, Zenon
  <2>2. CASE allowed(c) \/ cpanelFeatureEnabled(c) \/ gate(c)
    <3>2. cpanelFeatureEnabled(c) => req'[c] = [g EXCEPT !.pc = "answered", !.answer = feature]
      BY DEF cpanelFeatureEnabled, g
    <3>g. gate(c) => Leaves(c) \/ Moves(c, "serving")
      BY DEF gate
    <3>h. (Leaves(c) => req'[c].pc = "open") /\ (Moves(c, "serving") => req'[c].pc = "serving")
      BY <2>0
    <3>3. gate(c) => (req'[c].pc = "open" \/ req'[c].pc = "serving")
      BY <3>g, <3>h, Zenon
    <3>i. [g EXCEPT !.pc = "answered", !.answer = feature].pc = "answered"
      BY <2>a DEF Served
    <3>4. cpanelFeatureEnabled(c) => req'[c].pc = "answered"
      BY <3>i, <3>2, Zenon
    <3>5. allowed(c) => req'[c].pc \in {"serving", "open", "asking"}
      BY <2>0 DEF allowed
    <3>. QED  BY <2>2, <3>3, <3>4, <3>5
  <2>3. CASE handleUserBrowse(c) \/ changeUserBasket(c)
    BY <2>0, <2>3 DEF handleUserBrowse, changeUserBasket
  <2>4. CASE handleUserRestore(c)
    <3>1. \A p, seen : req' = [req EXCEPT ![c].pc = p, ![c].seen = seen] => req'[c].pc = p
      <4>. SUFFICES ASSUME NEW p, NEW seen, req' = [req EXCEPT ![c].pc = p, ![c].seen = seen]
                    PROVE  req'[c].pc = p
        OBVIOUS
      <4>1. req'[c] = [g EXCEPT !.pc = p, !.seen = seen]
        BY DEF g
      <4>2. [g EXCEPT !.pc = p, !.seen = seen].pc = p
        BY <2>a DEF Served
      <4>. QED  BY <4>1, <4>2, Zenon
    <3>. QED  BY <2>4, <3>1 DEF handleUserRestore
  <2>5. CASE queueUserRestore(c) \/ EmptyBasket(c)
    BY <2>0, <2>5 DEF queueUserRestore, EmptyBasket
  <2>. QED  BY <2>1, <2>2, <2>3, <2>4, <2>5, <2>6
<1>. QED  BY <1>1, <1>2 DEF Open, At

LEMMA BudgetStays ==
    ASSUME BudgetInv, Open' = Open, UNCHANGED budget
    PROVE  BudgetInv'
<1>1. \A u : Mine(u)' = Mine(u)
  BY DEF Mine
<1>. QED  BY <1>1 DEF BudgetInv, budget

LEMMA BudgetStep == CentreInv /\ BudgetInv /\ [Next]_vars => BudgetInv'
<1>. SUFFICES ASSUME CentreInv, BudgetInv, [Next]_vars PROVE BudgetInv'
  OBVIOUS
<1>0. /\ req \in [Conns -> Served] /\ byUID \in [{"account", "stranger"} -> Nat] /\ total \in Nat
      /\ basket \in SUBSET Items /\ \A c \in Conns : Uid(c) \in {"account", "stranger"}
  BY OpenIsFinite, FS_CardinalityType DEF CentreInv, CentreTypes, BudgetInv, Uid
<1>1. ASSUME NEW c \in Conns, Accept(c) PROVE BudgetInv'
  <2>1. /\ total' = total + 1 /\ byUID' = [byUID EXCEPT ![Uid(c)] = byUID[Uid(c)] + 1]
        /\ req[c].pc = "closed" /\ req'[c].pc = "open" /\ \A d \in Conns \ {c} : req'[d] = req[d]
    BY <1>0, <1>1, ClosedIs DEF Accept, Returns, At
  <2>2. c \notin Open /\ Open' = Open \cup {c}
    BY <2>1 DEF Open, At
  <2>3. \A u : c \notin Mine(u) /\ Mine(u)' = IF u = Uid(c) THEN Mine(u) \cup {c} ELSE Mine(u)
    BY <2>2 DEF Mine
  <2>4. total' = Cardinality(Open')
    BY <2>1, <2>2, OpenIsFinite, FS_AddElement DEF BudgetInv
  <2>5. ASSUME NEW u \in {"account", "stranger"} PROVE byUID'[u] = Cardinality(Mine(u)')
    <3>1. CASE u = Uid(c)
      <4>1. Cardinality(Mine(u) \cup {c}) = Cardinality(Mine(u)) + 1
        BY <2>3, OpenIsFinite, FS_AddElement
      <4>2. byUID'[u] = byUID[u] + 1 /\ byUID[u] = Cardinality(Mine(u))
        BY <1>0, <2>1, <3>1 DEF BudgetInv
      <4>. QED  BY <2>3, <3>1, <4>1, <4>2
    <3>2. CASE u # Uid(c)
      BY <1>0, <2>1, <2>3, <3>2 DEF BudgetInv
    <3>. QED  BY <3>1, <3>2
  <2>6. byUID' \in [{"account", "stranger"} -> Nat]
    BY <1>0, <2>1
  <2>. QED  BY <2>4, <2>5, <2>6 DEF BudgetInv
<1>2. ASSUME NEW c \in Conns, Close(c) PROVE BudgetInv'
  <2>1. /\ total' = total - 1 /\ byUID' = [byUID EXCEPT ![Uid(c)] = byUID[Uid(c)] - 1]
        /\ req[c].pc = "open" /\ req'[c].pc = "closing" /\ \A d \in Conns \ {c} : req'[d] = req[d]
    BY <1>0, <1>2 DEF Close, Moves, At
  <2>2. c \in Open /\ Open' = Open \ {c}
    BY <2>1 DEF Open, At
  <2>3. \A u : Mine(u)' = IF u = Uid(c) THEN Mine(u) \ {c} ELSE Mine(u)
    BY <2>2 DEF Mine
  <2>4. total' = Cardinality(Open')
    BY <2>1, <2>2, OpenIsFinite, FS_RemoveElement DEF BudgetInv
  <2>5. ASSUME NEW u \in {"account", "stranger"}
        PROVE  byUID'[u] = Cardinality(Mine(u)') /\ byUID'[u] \in Nat
    <3>1. CASE u = Uid(c)
      <4>1. Cardinality(Mine(u) \ {c}) = Cardinality(Mine(u)) - 1 /\ Cardinality(Mine(u) \ {c}) \in Nat
        <5>1. c \in Mine(u) /\ IsFiniteSet(Mine(u))
          BY <2>2, <3>1, OpenIsFinite DEF Mine
        <5>. QED  BY <5>1, FS_RemoveElement, FS_CardinalityType
      <4>2. byUID'[u] = byUID[u] - 1 /\ byUID[u] = Cardinality(Mine(u))
        BY <1>0, <2>1, <3>1 DEF BudgetInv
      <4>. QED  BY <2>3, <3>1, <4>1, <4>2
    <3>2. CASE u # Uid(c)
      BY <1>0, <2>1, <2>3, <3>2 DEF BudgetInv
    <3>. QED  BY <3>1, <3>2
  <2>6. byUID' \in [{"account", "stranger"} -> Nat]
    <3>1. byUID' = [u \in {"account", "stranger"} |-> byUID'[u]]
      BY <1>0, <2>1
    <3>. QED  BY <2>5, <3>1
  <2>. QED  BY <2>4, <2>5, <2>6 DEF BudgetInv
<1>3. ASSUME NEW c \in Conns, CloseAgain(c) PROVE BudgetInv'
  <2>1. total' = total
    BY <1>0, <1>3 DEF CloseAgain, releasedByClosingAgain
  <2>2. byUID' = byUID
    <3>1. byUID[Uid(c)] \in Nat
      BY <1>0
    <3>2. byUID' = [byUID EXCEPT ![Uid(c)] = IF byUID[Uid(c)] > 0 THEN byUID[Uid(c)] ELSE 0]
      BY <1>3 DEF CloseAgain, releasedByClosingAgain
    <3>3. (IF byUID[Uid(c)] > 0 THEN byUID[Uid(c)] ELSE 0) = byUID[Uid(c)]
      BY <3>1
    <3>4. byUID' = [byUID EXCEPT ![Uid(c)] = byUID[Uid(c)]]
      BY <3>2, <3>3
    <3>. QED  BY <1>0, <3>4
  <2>3. Open' = Open
    BY <1>0, <1>3, ClosedIs DEF CloseAgain, Open, At
  <2>. QED  BY <2>1, <2>2, <2>3, BudgetStays DEF budget
<1>4. ASSUME NEW c \in Conns,
             \/ verify(c) \/ consume(c) \/ enter(c) \/ reachGate(c) \/ allowed(c) \/ cpanelFeatureEnabled(c) \/ gate(c)
             \/ handleUserBrowse(c) \/ changeUserBasket(c) \/ handleUserRestore(c)
             \/ queueUserRestore(c) \/ EmptyBasket(c)
      PROVE  BudgetInv'
  <2>1. UNCHANGED budget
    BY <1>4 DEF verify, consume, enter, reachGate, allowed, cpanelFeatureEnabled, gate, handleUserBrowse, changeUserBasket,
                handleUserRestore, queueUserRestore, EmptyBasket
  <2>. QED  BY <1>0, <1>4, <2>1, OpenStays, BudgetStays
<1>5. ASSUME UNCHANGED <<req, budget>> PROVE BudgetInv'
  BY <1>5, BudgetStays DEF Open, At
<1>6. CASE Crash
  <2>1. Open' = {} /\ \A u : Mine(u)' = {}
    BY <1>6, ClosedIs DEF Crash, Open, Mine, At
  <2>2. total' = 0 /\ byUID' = [u \in {"account", "stranger"} |-> 0]
    BY <1>0, <1>6 DEF Crash
  <2>. QED  BY <2>1, <2>2, FS_EmptySet DEF BudgetInv
<1>. QED  BY <1>1, <1>2, <1>3, <1>4, <1>5, <1>6 DEF Next, issueUserCapability, issueAdminUserCapability,
              issueWithProof, WorkEnds, Tick, HostDisables, LogsOut, vars

(* The budget counts the connections that are open, each once, however      *)
(* often one is closed and in whatever order: connectionBudget's places     *)
(* neither leak nor are given out twice.                                    *)
THEOREM PlacesAreCounted == Spec => []BudgetIsExact
<1>1. Init => BudgetInv
  <2>. SUFFICES ASSUME Init PROVE BudgetInv
    OBVIOUS
  <2>1. Open = {} /\ \A u : Mine(u) = {}
    BY ClosedIs DEF Init, Open, Mine, At
  <2>. QED  BY <2>1, FS_EmptySet DEF Init, BudgetInv
<1>2. BudgetInv => BudgetIsExact
  BY DEF BudgetInv, BudgetIsExact, Mine
<1>. QED  BY <1>1, <1>2, BudgetStep, CentreInvHolds, PTL DEF Spec
-----------------------------------------------------------------------------
(* The queue and its one worker.                                            *)

\* The copy RunOnce holds is of a record that has not been begun, and that is
\* pending unless it has been forgotten since
HeldIsFresh ==
    pc = "held" => rec[cur].begun = 0 /\ (rec[cur].status = "pending" \/ cur \in forgotten)

\* The record being worked on is not pending, whoever forgot it meanwhile
WorkIsBegun == pc = "work" => rec[cur].status \in {"running", "none"}

EngineInv ==
    /\ TypeOK /\ BegunAtMostOnce /\ OneRequestInFlight /\ RunningIsWorkedOn
    /\ HeldIsFresh /\ WorkIsBegun

-----------------------------------------------------------------------------
LEMMA NoRecordIsOne == NoRecord \in Records
BY EngineAssumption DEF NoRecord, Records

LEMMA Initially == EngineInit => EngineInv
<1> SUFFICES ASSUME EngineInit PROVE EngineInv
  OBVIOUS
<1>1. TypeOK
  BY EngineAssumption, NoRecordIsOne DEF EngineInit, TypeOK
<1>2. \A i \in Ids : rec[i] = NoRecord
  BY DEF EngineInit
<1>3. \A i \in Ids : rec[i].status = "none" /\ rec[i].begun = 0
  BY <1>2 DEF NoRecord
<1> QED
  BY <1>1, <1>3 DEF EngineInit, EngineInv, BegunAtMostOnce, OneRequestInFlight, RunningIsWorkedOn, Running,
     InFlight, Pending, HeldIsFresh, WorkIsBegun

\* Steps that leave the records and what the worker holds alone.
LEMMA Elsewhere ==
    ASSUME EngineInv, TypeOK', UNCHANGED <<rec, forgotten, cur>>, unwritten \subseteq unwritten',
           \/ pc' = pc
           \/ {pc, pc'} \subseteq {"sleep", "tick", "drain"}
    PROVE  EngineInv'
<1>1. RunningIsWorkedOn'
  BY DEF EngineInv, RunningIsWorkedOn, Running
<1> QED
  BY <1>1 DEF EngineInv, BegunAtMostOnce, OneRequestInFlight, InFlight, Pending, HeldIsFresh, WorkIsBegun

-----------------------------------------------------------------------------
(* Requests.                                                                *)

\* New records are of one request, for an account that has nothing in flight.
LEMMA PutKeeps ==
    ASSUME EngineInv, NEW kind \in {"backup", "restore"}, NEW a \in Accounts, NEW count \in Nat,
           NEW s \in Nat, ~RunningJobFor(a), Put(kind, a, count, s)
    PROVE  /\ rec' \in [Ids -> Records] /\ n' \in n..MaxRecords
           /\ \A i \in Ids : i > n' => rec'[i] = NoRecord
           /\ \A i \in Ids : i <= n => rec'[i] = rec[i]
           /\ UNCHANGED <<forgotten, cur, pc, unwritten>> =>
                /\ BegunAtMostOnce' /\ OneRequestInFlight' /\ RunningIsWorkedOn'
                /\ HeldIsFresh' /\ WorkIsBegun'
<1> DEFINE new == [kind |-> kind, account |-> a, status |-> "pending",
                   batch |-> n + 1, slot |-> s, begun |-> 0]
<1>1. n \in Nat /\ n' = n + count /\ n' <= MaxRecords /\ rec \in [Ids -> Records]
      /\ \A i \in Ids : i > n => rec[i] = NoRecord
  BY EngineAssumption DEF Put, EngineInv, TypeOK
<1>2. rec' = [i \in Ids |-> IF i \in (n + 1)..(n + count) THEN new ELSE rec[i]]
  BY DEF Put
<1>3. new \in Records /\ new.status = "pending" /\ new.account = a /\ new.batch = n + 1 /\ new.begun = 0
  BY <1>1 DEF Records
<1> HIDE DEF new
<1>4. \A i \in Ids : \/ rec'[i] = rec[i] /\ (i > n => i > n')
                     \/ rec'[i] = new /\ i > n /\ i <= n'
  BY <1>1, <1>2 DEF Ids
<1>5. rec' \in [Ids -> Records] /\ n' \in n..MaxRecords
  BY <1>1, <1>2, <1>3, EngineAssumption
<1>6. \A i \in Ids : (i > n' => rec'[i] = NoRecord) /\ (i <= n => rec'[i] = rec[i])
  BY <1>1, <1>4, EngineAssumption DEF Ids
<1>7. ASSUME UNCHANGED <<forgotten, cur, pc, unwritten>>
      PROVE  /\ BegunAtMostOnce' /\ OneRequestInFlight' /\ RunningIsWorkedOn'
             /\ HeldIsFresh' /\ WorkIsBegun'
  <2>1. BegunAtMostOnce'
    BY <1>3, <1>4 DEF EngineInv, BegunAtMostOnce, Pending
  <2>2. RunningIsWorkedOn'
    BY <1>3, <1>4, <1>7 DEF EngineInv, RunningIsWorkedOn, Running
  <2>3. pc \in {"held", "work"} => cur \in Ids /\ rec'[cur] = rec[cur]
    BY <1>1, <1>6, EngineAssumption DEF EngineInv, TypeOK, Ids
  <2>4. HeldIsFresh' /\ WorkIsBegun'
    BY <1>7, <2>3 DEF EngineInv, HeldIsFresh, WorkIsBegun
  <2>5. \A i \in Ids : rec[i].account = a => ~InFlight(i)
    BY DEF RunningJobFor
  <2>6. \A i \in Ids : InFlight(i)' => \/ rec'[i] = new
                                       \/ rec'[i] = rec[i] /\ InFlight(i) /\ rec[i].account # a
    BY <1>4, <1>3, <2>5 DEF InFlight
  <2>7. OneRequestInFlight'
    BY <1>3, <1>7, <2>6 DEF EngineInv, OneRequestInFlight
  <2> QED
    BY <2>1, <2>2, <2>4, <2>7
<1> QED
  BY <1>5, <1>6, <1>7

LEMMA QueueKeeps ==
    ASSUME EngineInv, NEW kind \in {"backup", "restore"}, NEW a \in Accounts, NEW count \in 1..2,
           Queue(kind, a, count)
    PROVE  EngineInv'
<1>1. ~RunningJobFor(a) /\ Put(kind, a, count, 0) /\ count \in Nat
      /\ UNCHANGED <<due, slots, pc, looking, firing, slot, cur, unwritten, forgotten, restarts, faults>>
  BY DEF Queue, schedule, tick, events
<1>2. /\ rec' \in [Ids -> Records] /\ n' \in n..MaxRecords
      /\ \A i \in Ids : i > n' => rec'[i] = NoRecord
      /\ BegunAtMostOnce' /\ OneRequestInFlight' /\ RunningIsWorkedOn' /\ HeldIsFresh' /\ WorkIsBegun'
  BY <1>1, PutKeeps
<1>3. TypeOK'
  BY <1>1, <1>2, EngineAssumption DEF EngineInv, TypeOK
<1> QED
  BY <1>2, <1>3 DEF EngineInv

LEMMA ForgetKeeps ==
    ASSUME EngineInv, NEW a \in Accounts, ForgetAccount(a)
    PROVE  EngineInv'
<1> DEFINE of == {i \in 1..n : rec[i].account = a}
<1>1. /\ rec' = [i \in Ids |-> IF i \notin of THEN rec[i]
                                 ELSE IF i = cur THEN [rec[i] EXCEPT !.status = "none"]
                                 ELSE NoRecord]
      /\ forgotten' = of /\ forgotten = {}
      /\ UNCHANGED <<n, due, slots, pc, looking, firing, slot, cur, unwritten, restarts, faults>>
  BY DEF ForgetAccount, schedule, tick, events
<1>2. of \subseteq 1..n
  OBVIOUS
<1> HIDE DEF of
<1>3. ASSUME NEW i \in Ids
      PROVE  /\ rec'[i] \in Records
             /\ i \notin of => rec'[i] = rec[i]
             /\ i \in of => rec'[i].status = "none" /\ rec'[i].begun \in {0, rec[i].begun}
             /\ i = cur => rec'[i].begun = rec[i].begun
  <2>1. rec[i] \in Records /\ [rec[i] EXCEPT !.status = "none"] \in Records
        /\ [rec[i] EXCEPT !.status = "none"].status = "none"
        /\ [rec[i] EXCEPT !.status = "none"].begun = rec[i].begun
    BY DEF EngineInv, TypeOK, Records
  <2>2. NoRecord \in Records /\ NoRecord.status = "none" /\ NoRecord.begun = 0
    BY NoRecordIsOne DEF NoRecord
  <2>3. rec'[i] = IF i \notin of THEN rec[i]
                  ELSE IF i = cur THEN [rec[i] EXCEPT !.status = "none"]
                  ELSE NoRecord
    BY <1>1
  <2>4. CASE i \notin of
    BY <2>1, <2>3, <2>4
  <2>5. CASE i \in of /\ i = cur
    BY <2>1, <2>3, <2>5
  <2>6. CASE i \in of /\ i # cur
    BY <2>2, <2>3, <2>6
  <2> QED
    BY <2>4, <2>5, <2>6
<1>4. TypeOK'
  <2>1. rec' \in [Ids -> Records]
    BY <1>1, <1>3
  <2>2. \A i \in Ids : i > n => i \notin of
    BY <1>2, EngineAssumption DEF EngineInv, TypeOK, Ids
  <2> QED
    BY <1>1, <1>2, <1>3, <2>1, <2>2 DEF EngineInv, TypeOK
<1>5. BegunAtMostOnce'
  BY <1>3 DEF EngineInv, BegunAtMostOnce, Pending
<1>6. OneRequestInFlight' /\ RunningIsWorkedOn'
  <2>1. \A i \in Ids : rec'[i].status \in {"pending", "running"} => rec'[i] = rec[i]
    BY <1>3
  <2>2. \A i \in Ids : InFlight(i)' => InFlight(i) /\ rec'[i] = rec[i] /\ i \notin forgotten
    BY <1>1, <2>1 DEF InFlight
  <2>3. OneRequestInFlight'
    BY <2>2 DEF EngineInv, OneRequestInFlight
  <2>4. RunningIsWorkedOn'
    BY <1>1, <2>1 DEF EngineInv, RunningIsWorkedOn, Running
  <2> QED
    BY <2>3, <2>4
<1>7. HeldIsFresh' /\ WorkIsBegun'
  <2>1. pc \in {"held", "work"} => cur \in Ids
    BY EngineAssumption DEF EngineInv, TypeOK, Ids
  <2> QED
    BY <1>1, <1>3, <2>1 DEF EngineInv, HeldIsFresh, WorkIsBegun
<1> QED
  BY <1>4, <1>5, <1>6, <1>7 DEF EngineInv

-----------------------------------------------------------------------------
(* The schedule.                                                            *)

LEMMA QueueNextKeeps ==
    ASSUME EngineInv, NEW a \in Accounts, QueueNext(a)
    PROVE  EngineInv'
<1>1. firing' = firing \ {a} /\ faults' \in {faults, faults + 1} /\ (faults' # faults => faults < MaxFaults)
      /\ UNCHANGED <<forgotten, due, slots, pc, looking, slot, cur, unwritten, restarts>>
  BY DEF QueueNext, Fault, schedule
<1>2. CASE ~RunningJobFor(a) /\ Put("backup", a, 1, slot)
  <2>1. slot \in Nat
    BY DEF EngineInv, TypeOK
  <2>2. /\ rec' \in [Ids -> Records] /\ n' \in n..MaxRecords
        /\ \A i \in Ids : i > n' => rec'[i] = NoRecord
        /\ BegunAtMostOnce' /\ OneRequestInFlight' /\ RunningIsWorkedOn' /\ HeldIsFresh' /\ WorkIsBegun'
    BY <1>1, <1>2, <2>1, PutKeeps
  <2>3. TypeOK'
    BY <1>1, <2>2, EngineAssumption DEF EngineInv, TypeOK
  <2> QED
    BY <2>2, <2>3 DEF EngineInv
<1>3. CASE UNCHANGED <<rec, n>>
  <2>1. TypeOK'
    BY <1>1, <1>3, EngineAssumption DEF EngineInv, TypeOK
  <2> QED
    BY <1>1, <1>3, <2>1, Elsewhere
<1> QED
  BY <1>2, <1>3 DEF QueueNext

LEMMA ScheduleKeeps ==
    ASSUME EngineInv,
           \/ BeginTick \/ EndTick \/ Drained
           \/ \E p \in Policies : LookAt(p) \/ LookFails(p) \/ SlotArrives(p) \/ SlotExpires(p)
    PROVE  EngineInv'
<1> USE EngineAssumption DEF store, schedule, tick, events
<1>1. CASE BeginTick
  BY <1>1, Elsewhere DEF BeginTick, EngineInv, TypeOK
<1>2. CASE EndTick
  BY <1>2, Elsewhere DEF EndTick, EngineInv, TypeOK
<1>3. CASE Drained
  BY <1>3, Elsewhere DEF Drained, EngineInv, TypeOK
<1>4. ASSUME NEW p \in Policies, LookAt(p) PROVE EngineInv'
  BY <1>4, Elsewhere DEF LookAt, EngineInv, TypeOK
<1>5. ASSUME NEW p \in Policies, LookFails(p) PROVE EngineInv'
  BY <1>5, Elsewhere DEF LookFails, Fault, EngineInv, TypeOK
<1>6. ASSUME NEW p \in Policies, SlotArrives(p) PROVE EngineInv'
  BY <1>6, Elsewhere DEF SlotArrives, EngineInv, TypeOK
<1>7. ASSUME NEW p \in Policies, SlotExpires(p) PROVE EngineInv'
  BY <1>7, Elsewhere DEF SlotExpires, EngineInv, TypeOK
<1> QED
  BY <1>1, <1>2, <1>3, <1>4, <1>5, <1>6, <1>7

-----------------------------------------------------------------------------
(* The worker.                                                              *)

LEMMA FetchKeeps ==
    ASSUME EngineInv, NEW i \in Ids, Fetch(i)
    PROVE  EngineInv'
<1>1. pc = "drain" /\ Pending(i) /\ pc' = "held" /\ cur' = i
      /\ UNCHANGED <<rec, n, forgotten, due, slots, looking, firing, slot, unwritten, restarts, faults>>
  BY DEF Fetch, NextWork, store, schedule, tick, events
<1>2. i \in 1..n
  BY <1>1, EngineAssumption DEF Pending, NoRecord, Ids, EngineInv, TypeOK
<1>3. TypeOK'
  BY <1>1, <1>2 DEF EngineInv, TypeOK
<1>4. rec[i].begun = 0
  BY <1>1 DEF EngineInv, BegunAtMostOnce
<1>5. BegunAtMostOnce' /\ OneRequestInFlight' /\ RunningIsWorkedOn'
  BY <1>1 DEF EngineInv, BegunAtMostOnce, OneRequestInFlight, RunningIsWorkedOn, Running, InFlight, Pending
<1> QED
  BY <1>1, <1>3, <1>4, <1>5 DEF EngineInv, HeldIsFresh, WorkIsBegun, Pending

\* What RunOnce holds is closed, begun or not.
LEMMA EndKeeps ==
    ASSUME EngineInv, FailEarly \/ FinishWork
    PROVE  EngineInv'
<1>1. pc \in {"held", "work"} /\ rec' = [rec EXCEPT ![cur].status = "ended"] /\ pc' = "drain" /\ cur' = 0
      /\ UNCHANGED <<n, forgotten, due, slots, looking, firing, slot, unwritten, restarts, faults>>
  BY DEF FailEarly, FinishWork, schedule, tick, events
<1>2. cur \in Ids /\ cur \in 1..n
  BY <1>1, EngineAssumption DEF EngineInv, TypeOK, Ids
<1>3. rec'[cur] \in Records /\ rec'[cur].status = "ended" /\ rec'[cur].begun = rec[cur].begun
      /\ rec' \in [Ids -> Records]
  BY <1>1, <1>2 DEF EngineInv, TypeOK, Records
<1>4. \A i \in Ids : i # cur => rec'[i] = rec[i]
  BY <1>1, <1>2 DEF EngineInv, TypeOK
<1>5. TypeOK'
  BY <1>1, <1>2, <1>3, <1>4 DEF EngineInv, TypeOK
<1>6. BegunAtMostOnce'
  BY <1>3, <1>4 DEF EngineInv, BegunAtMostOnce, Pending
<1>7. OneRequestInFlight'
  BY <1>1, <1>3, <1>4 DEF EngineInv, OneRequestInFlight, InFlight
<1>8. RunningIsWorkedOn'
  BY <1>1, <1>3, <1>4 DEF EngineInv, RunningIsWorkedOn, Running
<1> QED
  BY <1>1, <1>5, <1>6, <1>7, <1>8 DEF EngineInv, HeldIsFresh, WorkIsBegun

LEMMA StartWorkKeeps ==
    ASSUME EngineInv, StartWork
    PROVE  EngineInv'
<1>1. pc = "held" /\ rec' = [rec EXCEPT ![cur].status = "running", ![cur].begun = @ + 1] /\ pc' = "work"
      /\ UNCHANGED <<n, forgotten, due, slots, looking, firing, slot, cur, unwritten, restarts, faults>>
  BY DEF StartWork, schedule, tick, events
<1>2. cur \in Ids /\ cur \in 1..n
  BY <1>1, EngineAssumption DEF EngineInv, TypeOK, Ids
<1>3. rec[cur].begun = 0 /\ (rec[cur].status = "pending" \/ cur \in forgotten)
  BY <1>1 DEF EngineInv, HeldIsFresh
<1>4. rec'[cur] \in Records /\ rec'[cur].status = "running" /\ rec'[cur].begun = 1
      /\ rec'[cur].account = rec[cur].account /\ rec'[cur].batch = rec[cur].batch
      /\ rec' \in [Ids -> Records]
  BY <1>1, <1>2, <1>3 DEF EngineInv, TypeOK, Records
<1>5. \A i \in Ids : i # cur => rec'[i] = rec[i]
  BY <1>1, <1>2 DEF EngineInv, TypeOK
<1>6. TypeOK'
  BY <1>1, <1>2, <1>4, <1>5 DEF EngineInv, TypeOK
<1>7. BegunAtMostOnce'
  BY <1>4, <1>5 DEF EngineInv, BegunAtMostOnce, Pending
<1>8. \A i \in Ids \ forgotten : InFlight(i)' =>
          InFlight(i) /\ rec'[i].account = rec[i].account /\ rec'[i].batch = rec[i].batch
  BY <1>3, <1>4, <1>5 DEF InFlight
<1>9. ASSUME NEW i \in Ids \ forgotten', NEW j \in Ids \ forgotten',
             InFlight(i)', InFlight(j)', rec'[i].account = rec'[j].account
      PROVE  rec'[i].batch = rec'[j].batch
  <2>1. i \in Ids \ forgotten /\ j \in Ids \ forgotten
    BY <1>1
  <2>2. InFlight(i) /\ InFlight(j) /\ rec[i].account = rec[j].account
    BY <1>8, <1>9, <2>1
  <2>3. rec[i].batch = rec[j].batch
    BY <2>1, <2>2 DEF EngineInv, OneRequestInFlight
  <2> QED
    BY <1>8, <1>9, <2>1, <2>3
<1>10. RunningIsWorkedOn'
  BY <1>1, <1>5 DEF EngineInv, RunningIsWorkedOn, Running
<1> QED
  BY <1>1, <1>4, <1>6, <1>7, <1>9, <1>10 DEF EngineInv, OneRequestInFlight, HeldIsFresh, WorkIsBegun

\* A write fails, or the process dies: the records stay as they are.
LEMMA FaultKeeps ==
    ASSUME EngineInv, HeldFails \/ FinishFails \/ Stops
    PROVE  EngineInv'
<1>1. UNCHANGED <<rec, n, forgotten, due, slots>> /\ cur' = 0
      /\ looking' \subseteq looking /\ firing' \subseteq firing /\ slot' \in {slot, 0}
      /\ restarts' \in 0..MaxRestarts /\ faults' \in 0..MaxFaults
  BY EngineAssumption DEF HeldFails, FinishFails, Stops, Fault, store, schedule, tick, EngineInv, TypeOK
<1>2. \/ pc = "held" /\ pc' = "sleep" /\ unwritten' = unwritten
      \/ pc = "work" /\ pc' = "sleep" /\ unwritten' = unwritten \cup {cur}
      \/ pc' = "off" /\ unwritten' = unwritten
  BY DEF HeldFails, FinishFails, Stops
<1>3. TypeOK'
  <2>a. n \in Nat /\ cur \in 0..n /\ (pc = "work" => cur # 0) /\ unwritten \subseteq 1..n
    BY EngineAssumption DEF EngineInv, TypeOK
  <2>b. pc = "work" => cur \in 1..n
    BY <2>a
  <2>1. unwritten' \subseteq 1..n
    <3>1. CASE unwritten' = unwritten
      BY <2>a, <3>1
    <3>2. CASE pc = "work" /\ unwritten' = unwritten \cup {cur}
      <4>1. {cur} \subseteq 1..n
        BY <2>b, <3>2
      <4>2. unwritten \cup {cur} \subseteq 1..n
        BY <2>a, <4>1
      <4> QED
        BY <3>2, <4>2
    <3> QED
      BY <1>2, <3>1, <3>2
  <2> QED
    BY <1>1, <1>2, <2>1, EngineAssumption DEF EngineInv, TypeOK
<1>4. RunningIsWorkedOn'
  BY <1>1, <1>2 DEF EngineInv, RunningIsWorkedOn, Running
<1>5. BegunAtMostOnce' /\ OneRequestInFlight'
  BY <1>1 DEF EngineInv, BegunAtMostOnce, OneRequestInFlight, InFlight, Pending
<1> QED
  BY <1>2, <1>3, <1>4, <1>5 DEF EngineInv, HeldIsFresh, WorkIsBegun

-----------------------------------------------------------------------------
(* The process.                                                             *)

\* What was running is closed, all of it or as far as the pass came.
LEMMA RecoverKeeps ==
    ASSUME EngineInv, NEW closed \in SUBSET Running, pc = "off", Marked(closed, "ended"),
           \/ closed = Running /\ pc' = "sleep"
           \/ pc' = "off",
           unwritten' \subseteq unwritten, faults' \in 0..MaxFaults,
           UNCHANGED <<n, forgotten, due, slots, looking, firing, slot, cur, restarts>>
    PROVE  EngineInv'
<1>1. closed \subseteq Ids
  BY DEF Running
<1>2. ASSUME NEW i \in Ids
      PROVE  /\ rec'[i] \in Records /\ rec'[i].begun = rec[i].begun
             /\ i \notin closed => rec'[i] = rec[i]
             /\ i \in closed => rec'[i].status = "ended" /\ rec[i].status = "running"
  <2>1. rec[i] \in Records /\ [rec[i] EXCEPT !.status = "ended"] \in Records
        /\ [rec[i] EXCEPT !.status = "ended"].status = "ended"
        /\ [rec[i] EXCEPT !.status = "ended"].begun = rec[i].begun
    BY DEF EngineInv, TypeOK, Records
  <2>2. rec'[i] = IF i \in closed THEN [rec[i] EXCEPT !.status = "ended"] ELSE rec[i]
    BY DEF Marked
  <2> QED
    BY <2>1, <2>2 DEF Running
<1>3. rec' \in [Ids -> Records]
  BY <1>2 DEF Marked
<1>4. \A i \in Ids : i > n => rec'[i] = NoRecord
  BY <1>2 DEF EngineInv, TypeOK, NoRecord
<1>5. TypeOK'
  BY <1>3, <1>4 DEF EngineInv, TypeOK
<1>6. BegunAtMostOnce' /\ OneRequestInFlight'
  BY <1>2 DEF EngineInv, BegunAtMostOnce, OneRequestInFlight, InFlight, Pending
<1>7. RunningIsWorkedOn'
  BY <1>2 DEF EngineInv, RunningIsWorkedOn, Running
<1> QED
  BY <1>5, <1>6, <1>7 DEF EngineInv, HeldIsFresh, WorkIsBegun

LEMMA StepKeeps ==
    ASSUME EngineInv, [EngineNext]_engineVars
    PROVE  EngineInv'
<1>1. CASE UNCHANGED engineVars
  <2>1. TypeOK'
    BY <1>1 DEF engineVars, EngineInv, TypeOK
  <2> QED
    BY <1>1, <2>1, Elsewhere DEF engineVars
<1>2. CASE RecoverFromRestart
  <2>1. Marked(Running, "ended") /\ pc = "off" /\ pc' = "sleep" /\ unwritten' = {}
        /\ UNCHANGED <<n, forgotten, due, slots, looking, firing, slot, cur, restarts, faults>>
    BY <1>2 DEF RecoverFromRestart, schedule, tick, events
  <2> QED
    BY <2>1, RecoverKeeps DEF EngineInv, TypeOK
<1>3. ASSUME NEW closed \in SUBSET Ids, RecoverFails(closed) PROVE EngineInv'
  <2>1. closed \in SUBSET Running /\ Marked(closed, "ended") /\ pc = "off" /\ pc' = "off"
        /\ UNCHANGED <<n, forgotten, due, slots, looking, firing, slot, cur, restarts, unwritten>>
        /\ faults < MaxFaults /\ faults' = faults + 1
    BY <1>3 DEF RecoverFails, Fault, schedule, tick
  <2>2. faults' \in 0..MaxFaults
    BY <2>1, EngineAssumption DEF EngineInv, TypeOK
  <2> QED
    BY <2>1, <2>2, RecoverKeeps
<1>4. CASE Request
  BY <1>4, QueueKeeps, ForgetKeeps DEF Request
<1>5. CASE Scheduling
  BY <1>5, QueueNextKeeps, ScheduleKeeps DEF Scheduling
<1>6. CASE Work
  BY <1>6, FetchKeeps, EndKeeps, StartWorkKeeps, FaultKeeps, ScheduleKeeps DEF Work
<1> QED
  BY <1>1, <1>2, <1>3, <1>4, <1>5, <1>6, FaultKeeps, ScheduleKeeps DEF EngineNext

\* The inductive invariant of the queue and its worker, in every state.
THEOREM EngineInvHolds == EngineSpec => []EngineInv
BY Initially, StepKeeps, PTL DEF EngineSpec

\* Whatever an account has in flight was asked for by one request (workMu).
THEOREM OneRequest == EngineSpec => []OneRequestInFlight
<1>1. EngineInv => OneRequestInFlight
  BY DEF EngineInv
<1> QED
  BY <1>1, EngineInvHolds, PTL

\* No work is begun twice, whatever crashes or fails to be written
\* (RecoverFromRestart, RunOnce).
THEOREM NoneTwice == EngineSpec => []BegunAtMostOnce
<1>1. EngineInv => BegunAtMostOnce
  BY DEF EngineInv
<1> QED
  BY <1>1, EngineInvHolds, PTL

\* No account is left busy by a record nobody is working on (RunOnce).
THEOREM NoneIsStranded == EngineSpec => []RunningIsWorkedOn
<1>1. EngineInv => RunningIsWorkedOn
  BY DEF EngineInv
<1> QED
  BY <1>1, EngineInvHolds, PTL
===============================================================================
