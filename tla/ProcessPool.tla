---------------------------- MODULE ProcessPool ----------------------------
(***************************************************************************)
(* What a caller of Spawner.spawn is promised: each call runs claude at    *)
(* most once, at most MaxConcurrent of them live at the same time, and a   *)
(* result comes only after the process is gone.                            *)
(***************************************************************************)
EXTENDS Naturals, FiniteSets

CONSTANTS Calls, MaxConcurrent

VARIABLES
    alive,      \* the live processes
    over,       \* those that ended
    results     \* the calls that have a result
vars == <<alive, over, results>>

Init == alive = {} /\ over = {} /\ results = {}

Start(c) ==
    /\ c \notin alive \union over
    /\ Cardinality(alive) < MaxConcurrent
    /\ alive' = alive \union {c}
    /\ UNCHANGED <<over, results>>

End(c) ==
    /\ c \in alive
    /\ alive' = alive \ {c}
    /\ over' = over \union {c}
    /\ UNCHANGED results

Deliver(c) ==
    /\ c \in over \ results
    /\ results' = results \union {c}
    /\ UNCHANGED <<alive, over>>

Next == \E c \in Calls : Start(c) \/ End(c) \/ Deliver(c)

Spec == Init /\ [][Next]_vars
=============================================================================
