----------------------------- MODULE Lifecycle -----------------------------
(***************************************************************************)
(* The daemon as Telegram, an operator and /healthz see it: when it takes  *)
(* messages and what state it is in.  Module Daemon implements this with   *)
(* every step of _run and of systemd, module Dispatch with every step of   *)
(* the message handlers.                                                   *)
(***************************************************************************)

VARIABLES
    stage,  \* "down", "up", "stopping" (signal seen), "draining" (polling off)
    state   \* StateMachine.state, "starting" when down

vars == <<stage, state>>

Init == stage = "down" /\ state = "starting"

Boot ==
    /\ stage = "down" /\ stage' = "up"
    /\ state' \in {"healthy", "degraded"}

\* A quota is hit only where claude runs: never in a degraded daemon, but also
\* after the signal.
Throttle ==
    /\ stage # "down" /\ state # "degraded"
    /\ state' = "quota_throttled"
    /\ UNCHANGED stage

Signal ==
    /\ stage = "up" /\ stage' = "stopping"
    /\ state' = "shutting_down"

StopPolling ==
    /\ stage = "stopping" /\ stage' = "draining"
    /\ UNCHANGED state

\* The drain is over, or the process died at any moment.
Down ==
    /\ stage # "down" /\ stage' = "down"
    /\ state' = "starting"

Next == Boot \/ Throttle \/ Signal \/ StopPolling \/ Down

Spec == Init /\ [][Next]_vars
=============================================================================
