------------------------------ MODULE WorkQueue ------------------------------
(* What the controller promises whoever queues work, with agents, leases,   *)
(* messages and targets left out: work is queued once, held by one claim at *)
(* a time, may be taken back, and once closed stays closed.  Work that must *)
(* not be repeated is never handed out a second time.                       *)
CONSTANTS Work, Once, Tokens, NoToken

VARIABLES
    phase,   \* [Work -> {"absent", "queued", "held", "closed"}]
    holder,  \* [Work -> Tokens \cup {NoToken}]
    begun    \* [Work -> BOOLEAN]

vars == <<phase, holder, begun>>

Init ==
    /\ phase = [w \in Work |-> "absent"]
    /\ holder = [w \in Work |-> NoToken]
    /\ begun = [w \in Work |-> FALSE]

Submit(w) ==
    /\ phase[w] = "absent"
    /\ phase' = [phase EXCEPT ![w] = "queued"]
    /\ UNCHANGED <<holder, begun>>

Acquire(w, t) ==
    /\ phase[w] = "queued"
    /\ w \in Once => ~ begun[w]
    /\ \A v \in Work : holder[v] # t
    /\ phase' = [phase EXCEPT ![w] = "held"]
    /\ holder' = [holder EXCEPT ![w] = t]
    /\ begun' = [begun EXCEPT ![w] = TRUE]

(* Held work is taken back, several pieces at a time.  What may be repeated *)
(* is queued again, the rest is closed.                                     *)
Revoke(S) ==
    /\ S # {} /\ \A w \in S : phase[w] = "held"
    /\ phase' = [w \in Work |-> IF w \notin S THEN phase[w]
                                ELSE IF w \in Once THEN "closed" ELSE "queued"]
    /\ holder' = [w \in Work |-> IF w \in S THEN NoToken ELSE holder[w]]
    /\ UNCHANGED begun

Complete(w) ==
    /\ phase[w] = "held"
    /\ phase' = [phase EXCEPT ![w] = "closed"]
    /\ holder' = [holder EXCEPT ![w] = NoToken]
    /\ UNCHANGED begun

Next ==
    \/ \E w \in Work : Submit(w) \/ Complete(w)
    \/ \E w \in Work, t \in Tokens : Acquire(w, t)
    \/ \E S \in SUBSET Work : Revoke(S)

Spec == Init /\ [][Next]_vars
==============================================================================
