----------------------------- MODULE Heartbeat -----------------------------
(***************************************************************************)
(* The heartbeat table (0001_init.sql) and its methods in class Ledger     *)
(* (db.py).  Rows are stamped by the wall clock, kept by their stamp and   *)
(* read by their id.                                                       *)
(***************************************************************************)
EXTENDS Naturals, FiniteSets

CONSTANT Keep   \* keep_rows

ASSUME HeartbeatAssumption == Keep \in Nat \ {0}

VARIABLES
    beats,      \* the rows: heartbeat_id and ts
    written,    \* the last heartbeat_id AUTOINCREMENT gave out
    clock       \* the wall clock

table == <<beats, written, clock>>

TableInit == beats = {} /\ written = 0 /\ clock = 0

WriteHeartbeat ==
    /\ beats' = beats \union {[id |-> written + 1, ts |-> clock]}
    /\ written' = written + 1
    /\ UNCHANGED clock

\* A LIMIT is met, or there are no more rows.
Limited(kept) ==
    \/ Cardinality(kept) = Keep
    \/ kept = beats /\ Cardinality(beats) =< Keep

\* Slip: ORDER BY ts without DESC.
PruneAscending ==
    /\ beats' \in {kept \in SUBSET beats :
                      /\ Limited(kept)
                      /\ \A b \in kept, c \in beats \ kept : b.ts =< c.ts}
    /\ UNCHANGED <<written, clock>>

\* prune_heartbeats: ORDER BY ts DESC LIMIT keep_rows leaves open which of two
\* rows with the same ts stays.
PruneHeartbeats ==
    /\ beats' \in {kept \in SUBSET beats :
                      /\ Limited(kept)
                      /\ \A b \in kept, c \in beats \ kept : c.ts =< b.ts}
    /\ UNCHANGED <<written, clock>>

\* The row latest_heartbeat returns.
LatestHeartbeat == CHOOSE b \in beats : \A c \in beats : c.id =< b.id

Tick ==
    /\ clock' = clock + 1
    /\ UNCHANGED <<beats, written>>

\* The wall clock is set back, by less than the time Keep rows stand for.
StepBack ==
    /\ clock' \in {t \in 0..clock : t < clock}
    /\ Cardinality({b \in beats : b.ts >= clock'}) < Keep
    /\ UNCHANGED <<beats, written>>
=============================================================================
