---------------------------- MODULE MessageLife ----------------------------
(***************************************************************************)
(* What an operator and an auditor are promised of one update: it is       *)
(* accepted at most once, claude runs for it at most once and it is        *)
(* answered at most once, both only between its acceptance and its end,    *)
(* and it ends at most once, as done only after the answer.  Restarts,     *)
(* redelivery and failures are not visible here.                           *)
(***************************************************************************)
EXTENDS Naturals

CONSTANT Updates

VARIABLES
    life,       \* of each update: "new", "open", "done", "failed"
    launched,   \* claude processes started for it
    answered    \* replies delivered for it

vars == <<life, launched, answered>>

Init ==
    /\ life = [u \in Updates |-> "new"]
    /\ launched = [u \in Updates |-> 0]
    /\ answered = [u \in Updates |-> 0]

Accept(u) ==
    /\ life[u] = "new"
    /\ life' = [life EXCEPT ![u] = "open"]
    /\ UNCHANGED <<launched, answered>>

Launch(u) ==
    /\ life[u] = "open" /\ launched[u] = 0
    /\ launched' = [launched EXCEPT ![u] = 1]
    /\ UNCHANGED <<life, answered>>

Answer(u) ==
    /\ life[u] = "open" /\ answered[u] = 0
    /\ answered' = [answered EXCEPT ![u] = 1]
    /\ UNCHANGED <<life, launched>>

Finish(u) ==
    /\ life[u] = "open"
    /\ \/ life' = [life EXCEPT ![u] = "failed"]
       \/ answered[u] = 1 /\ life' = [life EXCEPT ![u] = "done"]
    /\ UNCHANGED <<launched, answered>>

Next == \E u \in Updates : Accept(u) \/ Launch(u) \/ Answer(u) \/ Finish(u)

Spec == Init /\ [][Next]_vars
=============================================================================
