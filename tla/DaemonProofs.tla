---------------------------- MODULE DaemonProofs ----------------------------
(***************************************************************************)
(* Daemon proved for every script, every number of boots and crashes and   *)
(* every size of the heartbeat table: what holds before traffic, what a    *)
(* 200 of /healthz means, what the heartbeat table keeps, and that each    *)
(* life of the process is one that Lifecycle allows.                       *)
(***************************************************************************)
EXTENDS Daemon, TLAPS, FiniteSetTheorems

-----------------------------------------------------------------------------
(* The inductive invariant *)

Before == {"off", "secrets", "open", "migrate", "version", "ok", "reap"}
Migrated == {"version", "ok", "reap", "healthz", "connect", "up", "join", "stopping", "draining"}

\* What each stretch of _run has of the process: nothing without one, the
\* ledger from Ledger.open to its close, the heartbeat only between READY=1 and
\* the signal, messages only from then to the end of the drain, and readers that
\* one of them left behind until the process ends or hangs.  A process that
\* hangs may have been anywhere in Ledger.open.
PhaseOK ==
    /\ pc = "off" => child = NoChild /\ result = FALSE
    /\ pc # "hung" => opened = (pc \notin {"off", "secrets", "open", "exit"})
    /\ pc \notin {"off", "secrets"} => keys # "none"
    /\ hb # "off" => pc = "up"
    /\ work # 0 => Handling
    /\ left # 0 => Handling \/ pc \in {"raising", "site", "close", "exit"}

\* The script's version is stamped when all of its tables are there, whichever
\* boot created them; a boot that migrates has created those before its line.
SchemaOK ==
    /\ stamped => made = 1..Tables
    /\ pc \in {"off", "secrets", "open"} => line = 1
    /\ pc = "migrate" => line =< Tables + 1 /\ 1..(line - 1) \subseteq made
    /\ pc \in Migrated => stamped

\* The state is decided once a boot, by what its self-test saw.
VerdictOK ==
    /\ pc \in Before => state = "starting"
    /\ pc \in {"ok", "reap"} => child.version = "exited 0"
    /\ pc \in {"healthz", "connect"} => state \in {"healthy", "degraded"}
    /\ Handling => state # "starting"
    /\ Handling => Passed \/ state \in {"degraded", "shutting_down"}
    /\ state = "healthy" => Passed
    /\ state = "degraded" => ~ Passed

\* The rows that prune prefers to one stamped t, or may.
NotBefore(t) == {b \in beats : b.ts >= t}

\* The last row is there, and Keep rows at most are stamped like it or later; so
\* it is for the row to come: fewer than Keep are stamped later than now, and
\* where a heartbeat is due, than the time it will get.
BeatsOK ==
    /\ IsFiniteSet(beats)
    /\ written # 0 => \E b \in beats : b.id = written
    /\ \A b \in beats : b.id = written => Cardinality(NotBefore(b.ts)) =< Keep
    /\ Cardinality(NotBefore(clock + 1)) < Keep
    /\ pc \in Booting \/ hb = "write" => Cardinality(NotBefore(clock)) < Keep

IInv == TypeOK /\ PhaseOK /\ SchemaOK /\ VerdictOK /\ BeatsOK

-----------------------------------------------------------------------------

LEMMA InvInit == Init => IInv
<1> SUFFICES ASSUME Init PROVE IInv
  OBVIOUS
<1> USE DaemonAssumption, HeartbeatAssumption DEF Init, TableInit
<1>1. TypeOK
  <2>1. /\ pc = "off" /\ line \in 1..(Tables + 2) /\ made \subseteq 1..Tables
        /\ child \in [version : Ends, ok : Ends]
        /\ work \in 0..MaxWork /\ left \in 0..MaxLeft /\ beats \subseteq [id : 1..written, ts : Nat]
    BY DEF NoChild, Ends
  <2> QED BY <2>1 DEF TypeOK
<1>2. PhaseOK /\ SchemaOK
  BY DEF PhaseOK, SchemaOK, Migrated
<1>3. VerdictOK
  BY DEF VerdictOK, Handling, Polling
<1>4. BeatsOK
  <2>1. \A t : NotBefore(t) = {}
    BY DEF NotBefore
  <2>2. IsFiniteSet({}) /\ Cardinality({}) = 0
    BY FS_EmptySet
  <2> QED BY <2>1, <2>2 DEF BeatsOK
<1> QED BY <1>1, <1>2, <1>3, <1>4 DEF IInv

\* However the process ends, memory goes and the database stays.
LEMMA GoneStep ==
    ASSUME IInv, NEW next \in {"inactive", "auto-restart"}, Gone(next), crashes' \in Nat
    PROVE  TypeOK' /\ PhaseOK' /\ SchemaOK' /\ VerdictOK'
<1> USE DEF IInv, Gone, schema
<1>1. TypeOK'
  <2>1. /\ pc' = "off" /\ line' \in 1..(Tables + 2) /\ child' \in [version : Ends, ok : Ends]
        /\ work' \in 0..MaxWork /\ left' \in 0..MaxLeft
    BY DaemonAssumption DEF NoChild, Ends
  <2>2. UNCHANGED <<made, stamped, beats, written, clock, boots>>
    BY DEF table
  <2> QED BY <2>1, <2>2 DEF TypeOK
<1>2. PhaseOK'
  BY DEF PhaseOK
<1>3. SchemaOK'
  BY DEF SchemaOK, Migrated
<1>4. VerdictOK'
  BY DEF VerdictOK, Handling, Polling
<1> QED BY <1>1, <1>2, <1>3, <1>4

\* The process ends; it is kept by the ledger's thread; or it goes on.
Dies == \E next \in {"inactive", "auto-restart"} : Gone(next) /\ crashes' \in Nat

Hangs ==
    /\ pc \in {"open", "migrate", "version", "ok", "healthz", "connect",
               "raising", "site", "close"}
    /\ pc' = "hung" /\ left' = 0
    /\ UNCHANGED <<systemd, notified, schema, locals, opened, state, hb, work, table>>

Booted == Open \/ Migrate \/ Version \/ Ok \/ Reap \/ StartHealthz \/ GoLive
Winds == Join \/ StopPolling \/ Drained \/ StopHealthz \/ CloseLedger

LEMMA Ways ==
    ASSUME TypeOK, [Next]_vars
    PROVE  \/ Dies \/ Hangs \/ UNCHANGED vars
           \/ Start \/ LoadSecrets \/ Booted
           \/ Heartbeats \/ Messages \/ Signal \/ Winds
<1>1. crashes \in Nat /\ AfterFailure \in {"inactive", "auto-restart"}
  BY DEF TypeOK, AfterFailure
<1>2. Crash \/ StartTimeout \/ StopTimeout \/ StopEarly => Dies
  BY <1>1 DEF Crash, StartTimeout, StopTimeout, StopEarly, Dies
<1>3. SecretsFail \/ Exit => Dies
  BY <1>1 DEF SecretsFail, Exit, Dies
<1>4. Raise => Dies \/ Hangs
  BY <1>1 DEF Raise, Dies, Hangs
<1> QED BY <1>2, <1>3, <1>4 DEF Next, Boot, Booted, Shutdown, Winds, Kill

\* The two parts of TypeOK.
ProcessType ==
    /\ pc \in Booting \union {"off", "up", "join", "stopping", "draining", "site",
                              "close", "exit", "raising", "hung"}
    /\ unit \in {"inactive", "auto-restart", "on", "stop"}
    /\ notified \in BOOLEAN /\ opened \in BOOLEAN /\ stamped \in BOOLEAN /\ result \in BOOLEAN
    /\ boots \in Nat /\ crashes \in Nat
    /\ made \subseteq 1..Tables /\ line \in 1..(Tables + 2)
    /\ keys \in {"none", "bare", "traced"}
    /\ child \in [version : Ends, ok : Ends]
    /\ state \in {"starting", "healthy", "degraded", "quota_throttled", "shutting_down"}
    /\ hb \in {"off", "write", "prune", "sleep"}
    /\ work \in 0..MaxWork /\ left \in 0..MaxLeft

TableType ==
    /\ beats \subseteq [id : 1..written, ts : Nat]
    /\ written \in Nat /\ clock \in Nat

LEMMA TypeParts == TypeOK = (ProcessType /\ TableType)
BY DEF TypeOK, ProcessType, TableType

LEMMA TableTypeStep ==
    ASSUME TypeOK, [Next]_vars
    PROVE  TableType'
<1> USE DEF TableType
<1>0. TableType
  BY DEF TypeOK
<1>1. ASSUME UNCHANGED <<beats, written, clock>> PROVE TableType'
  BY <1>0, <1>1
<1>2. CASE WriteHeartbeat
  <2>1. written' = written + 1 /\ beats' = beats \union {[id |-> written + 1, ts |-> clock]}
        /\ clock' = clock
    BY <1>2 DEF WriteHeartbeat
  <2> QED BY <1>0, <2>1
<1>3. CASE PruneHeartbeats \/ Tick \/ StepBack
  BY <1>0, <1>3 DEF PruneHeartbeats, Tick, StepBack
<1>4. UNCHANGED <<beats, written, clock>> \/ WriteHeartbeat \/ PruneHeartbeats \/ Tick \/ StepBack
  BY Ways DEF Dies, Gone, Hangs, vars, Start, LoadSecrets, Booted, Open, Migrate, Version, Ok,
              Reap, StartHealthz, GoLive, Heartbeats, Beat, Trim, BeatRaises, Wake, ClockSet,
              Messages, Accept, Handled, LeaveReader, Report, Throttle, Signal, Winds, Join,
              StopPolling, Drained, StopHealthz, CloseLedger, table
<1> QED BY <1>1, <1>2, <1>3, <1>4

LEMMA TypeStep ==
    ASSUME IInv, [Next]_vars
    PROVE  TypeOK'
<1> USE DEF IInv, systemd, schema, locals
<1>0. ProcessType /\ MaxWork \in Nat /\ MaxLeft \in Nat /\ Tables \in Nat
  BY DaemonAssumption, TypeParts
<1> HIDE DEF IInv
<1> USE DEF ProcessType
<1>1. ASSUME UNCHANGED <<unit, boots, crashes, notified, made, stamped, line, keys, child, result,
                         opened, state, hb, work, left, pc>>
      PROVE  ProcessType'
  BY <1>0, <1>1
<1>2. ASSUME Hangs \/ UNCHANGED vars PROVE ProcessType'
  <2>1. UNCHANGED <<unit, boots, crashes, notified, made, stamped, line, keys, child, result,
                    opened, state, hb, work>> /\ pc' \in {pc, "hung"} /\ left' \in {left, 0}
    BY <1>2 DEF Hangs, vars
  <2> QED BY <1>0, <2>1
<1>3. ASSUME Start \/ LoadSecrets PROVE ProcessType'
  <2>1. UNCHANGED <<crashes, notified, made, stamped, line, child, result, opened, state, hb, work,
                    left>>
    BY <1>3 DEF Start, LoadSecrets
  <2>2. /\ pc' \in Booting /\ unit' \in {unit, "on"} /\ keys' \in {keys, "bare", "traced"}
        /\ boots' \in {boots, boots + 1}
    BY <1>3 DEF Start, LoadSecrets, Booting
  <2> QED BY <1>0, <2>1, <2>2
<1>4. ASSUME Open \/ StartHealthz \/ GoLive PROVE ProcessType'
  <2>1. UNCHANGED <<unit, boots, crashes, made, stamped, line, keys, child, result, state, work, left>>
    BY <1>4 DEF Open, StartHealthz, GoLive
  <2>2. /\ pc' \in Booting \union {"up"} /\ hb' \in {hb, "write"}
        /\ notified' \in {notified, TRUE} /\ opened' \in {opened, TRUE}
    BY <1>4 DEF Open, StartHealthz, GoLive, Booting
  <2>3. /\ hb' \in {"off", "write", "prune", "sleep"}
        /\ notified' \in BOOLEAN /\ opened' \in BOOLEAN
    BY <1>0, <2>2
  <2> QED BY <1>0, <2>1, <2>2, <2>3
<1>5. ASSUME Migrate PROVE ProcessType'
  <2>1. line \in Nat /\ line =< Tables + 1 /\ line >= 1
    BY <1>0, <1>5 DEF IInv, Migrate, SchemaOK
  <2>2. made' \subseteq 1..Tables /\ stamped' \in BOOLEAN
    <3>1. CASE line =< Tables /\ made' = made \union {line} /\ stamped' = stamped
      BY <1>0, <2>1, <3>1
    <3>2. CASE stamped' = TRUE /\ made' = made
      BY <1>0, <3>2
    <3> QED BY <1>5, <3>1, <3>2 DEF Migrate, Statement
  <2>3. line' \in 1..(Tables + 2) /\ pc' \in Booting
    BY <1>0, <1>5, <2>1 DEF Migrate, Booting
  <2> QED BY <1>0, <1>5, <2>2, <2>3 DEF Migrate
<1>6. ASSUME Version \/ Ok \/ Reap PROVE ProcessType'
  <2>1. child' \in [version : Ends, ok : Ends]
    BY <1>0, <1>6 DEF Version, Ok, Reap, Ends
  <2>2. pc' \in Booting /\ result' \in BOOLEAN
    BY <1>0, <1>6 DEF Version, Ok, Reap, Judge, Booting
  <2>3. state' \in {state, "healthy", "degraded"}
    BY <1>6 DEF Version, Ok, Reap, Judge, NextState
  <2>4. UNCHANGED <<unit, boots, crashes, notified, made, stamped, line, keys, opened, hb, work, left>>
    BY <1>6 DEF Version, Ok, Reap
  <2> QED BY <1>0, <2>1, <2>2, <2>3, <2>4
<1>7. ASSUME Heartbeats PROVE ProcessType'
  <2>1. UNCHANGED <<unit, boots, crashes, notified, made, stamped, line, keys, child, result,
                    opened, state, work, left, pc>> /\ hb' \in {hb, "write", "prune", "sleep"}
    BY <1>7 DEF Heartbeats, Beat, Trim, BeatRaises, Wake, ClockSet
  <2> QED BY <1>0, <2>1
<1>8. ASSUME Messages PROVE ProcessType'
  <2>1. UNCHANGED <<unit, boots, crashes, notified, made, stamped, line, keys, child, result,
                    opened, hb, pc>>
    BY <1>8 DEF Messages, Accept, Handled, LeaveReader, Report, Throttle
  <2>2. work' \in 0..MaxWork /\ left' \in 0..MaxLeft
    BY <1>0, <1>8 DEF Messages, Accept, Handled, LeaveReader, Report, Throttle
  <2>3. state' \in {state, "quota_throttled"}
    BY <1>8 DEF Messages, Accept, Handled, LeaveReader, Report, Throttle, NextState
  <2> QED BY <1>0, <2>1, <2>2, <2>3
<1>9. ASSUME Signal \/ Winds PROVE ProcessType'
  <2>1. UNCHANGED <<boots, crashes, notified, made, stamped, line, keys, child, result, work, left>>
    BY <1>9 DEF Signal, Winds, Join, StopPolling, Drained, StopHealthz, CloseLedger
  <2>2. /\ state' \in {state, "shutting_down"} /\ unit' \in {unit, "stop"}
        /\ opened' \in {opened, FALSE} /\ hb' \in {hb, "off"}
        /\ pc' \in {"join", "stopping", "draining", "site", "raising", "close", "exit"}
    BY <1>9 DEF Signal, NextState, Cancelled, Winds, Join, StopPolling, Drained, StopHealthz,
                CloseLedger
  <2>3. state' \in {"starting", "healthy", "degraded", "quota_throttled", "shutting_down"}
    BY <1>0, <2>2
  <2>4. unit' \in {"inactive", "auto-restart", "on", "stop"} /\ opened' \in BOOLEAN
        /\ hb' \in {"off", "write", "prune", "sleep"}
    BY <1>0, <2>2
  <2> QED BY <1>0, <2>1, <2>2, <2>3, <2>4
<1>10. Dies \/ ProcessType'
  BY <1>2, <1>3, <1>4, <1>5, <1>6, <1>7, <1>8, <1>9, Ways DEF Booted, IInv
<1>11. CASE Dies
  BY <1>11, GoneStep DEF Dies
<1>12. CASE ProcessType'
  <2>1. TableType'
    BY TableTypeStep DEF IInv
  <2> QED BY <1>12, <2>1 DEF TableType, TypeOK
<1> QED BY <1>10, <1>11, <1>12

LEMMA PhaseStep ==
    ASSUME IInv, [Next]_vars
    PROVE  PhaseOK'
<1> USE DEF IInv, systemd, schema, locals, table
<1>1. CASE Dies
  BY <1>1, GoneStep DEF Dies
<1>2. CASE Hangs \/ UNCHANGED vars
  BY <1>2 DEF Hangs, vars, PhaseOK, Handling, Polling
<1>3. CASE Start \/ LoadSecrets
  BY <1>3 DEF Start, LoadSecrets, PhaseOK, Handling, Polling
<1>4. CASE Booted
  BY <1>4 DEF Booted, Open, Migrate, Version, Ok, Reap, Judge, StartHealthz, GoLive, PhaseOK,
              Handling, Polling
<1>5. CASE Heartbeats
  BY <1>5 DEF Heartbeats, Beat, Trim, BeatRaises, Wake, ClockSet, PhaseOK, Handling, Polling
<1>6. CASE Messages
  BY <1>6 DEF Messages, Accept, Handled, LeaveReader, Report, Throttle, PhaseOK, Handling, Polling
<1>7. CASE Signal \/ Winds
  BY <1>7 DEF Signal, Cancelled, Winds, Join, StopPolling, Drained, StopHealthz, CloseLedger,
              PhaseOK, Handling, Polling
<1> QED BY <1>1, <1>2, <1>3, <1>4, <1>5, <1>6, <1>7, Ways

LEMMA SchemaStep ==
    ASSUME IInv, [Next]_vars
    PROVE  SchemaOK'
<1> USE DEF IInv, systemd, schema, locals
<1>0. Tables \in Nat /\ line \in Nat /\ line >= 1 /\ made \subseteq 1..Tables
  BY DaemonAssumption DEF TypeOK
<1>1. CASE Dies
  BY <1>1, GoneStep DEF Dies
<1>2. CASE Hangs \/ UNCHANGED vars
  BY <1>2 DEF Hangs, vars, SchemaOK, Migrated
<1>3. CASE Start \/ LoadSecrets
  BY <1>3 DEF Start, LoadSecrets, SchemaOK, Migrated
<1>4. CASE Open
  BY <1>0, <1>4 DEF Open, SchemaOK, Migrated
<1>5. CASE Migrate
  <2>1. line =< Tables + 1 /\ 1..(line - 1) \subseteq made /\ line' = line + 1
    BY <1>5 DEF Migrate, SchemaOK
  <2>2. CASE line =< Tables
    <3>1. made' = made \union {line} /\ stamped' = stamped /\ pc' = "migrate"
      BY <1>0, <1>5, <2>2 DEF Migrate, Statement
    <3>2. 1..(line' - 1) \subseteq made'
      BY <1>0, <2>1, <3>1
    <3> QED BY <1>0, <2>1, <2>2, <3>1, <3>2 DEF SchemaOK, Migrated
  <2>3. CASE line = Tables + 1
    <3>1. made' = made /\ stamped' = TRUE /\ pc' = "version"
      BY <1>0, <1>5, <2>3 DEF Migrate, Statement
    <3>2. made = 1..Tables
      <4>1. line - 1 = Tables
        BY <1>0, <2>3
      <4> QED BY <1>0, <2>1, <4>1
    <3> QED BY <3>1, <3>2 DEF SchemaOK, Migrated
  <2> QED BY <1>0, <2>1, <2>2, <2>3
<1>6. CASE Version \/ Ok \/ Reap \/ StartHealthz \/ GoLive
  BY <1>6 DEF Version, Ok, Reap, Judge, StartHealthz, GoLive, SchemaOK, Migrated
<1>7. CASE Heartbeats
  BY <1>7 DEF Heartbeats, Beat, Trim, BeatRaises, Wake, ClockSet, SchemaOK, Migrated
<1>8. CASE Messages
  BY <1>8 DEF Messages, Accept, Handled, LeaveReader, Report, Throttle, SchemaOK, Migrated
<1>9. CASE Signal \/ Winds
  BY <1>9 DEF Signal, Winds, Join, StopPolling, Drained, StopHealthz, CloseLedger, SchemaOK,
              Migrated
<1> QED BY <1>1, <1>2, <1>3, <1>4, <1>5, <1>6, <1>7, <1>8, <1>9, Ways DEF Booted

LEMMA VerdictStep ==
    ASSUME IInv, [Next]_vars
    PROVE  VerdictOK'
<1> USE DEF IInv, systemd, schema, locals, VerdictOK, Before, Passed, Handling, Polling
<1>0. child \in [version : Ends, ok : Ends]
  BY DEF TypeOK
<1>1. CASE Dies
  BY <1>1, GoneStep DEF Dies
<1>2. CASE Hangs \/ UNCHANGED vars
  <2>1. UNCHANGED <<child, result, state>> /\ pc' \in {pc, "hung"}
    BY <1>2 DEF Hangs, vars
  <2> QED BY <2>1
<1>3. CASE Start \/ LoadSecrets \/ Open \/ Migrate
  BY <1>3 DEF Start, LoadSecrets, Open, Migrate
<1>4. CASE Version
  BY <1>0, <1>4 DEF Version, Judge, NextState
<1>5. CASE Ok
  BY <1>0, <1>5 DEF Ok, Judge, NextState
<1>6. CASE Reap
  BY <1>0, <1>6 DEF Reap, Judge, NextState
<1>7. CASE StartHealthz \/ GoLive
  <2>1. UNCHANGED <<child, result, state>>
    BY <1>7 DEF StartHealthz, GoLive
  <2> QED BY <1>7, <2>1 DEF StartHealthz, GoLive
<1>8. CASE Heartbeats
  <2>1. UNCHANGED <<child, result, state, pc>>
    BY <1>8 DEF Heartbeats, Beat, Trim, BeatRaises, Wake, ClockSet
  <2> QED BY <2>1
<1>9. CASE Messages
  <2>1. UNCHANGED <<child, result, pc>>
    BY <1>9 DEF Messages, Accept, Handled, LeaveReader, Report, Throttle
  <2>2. state' = state \/ (Handling /\ Passed /\ state' = NextState(state, "quota_throttled"))
    BY <1>9 DEF Messages, Accept, Handled, LeaveReader, Report, Throttle
  <2> QED BY <2>1, <2>2 DEF NextState
<1>10. CASE Signal \/ Winds
  <2>1. UNCHANGED <<child, result>>
    BY <1>10 DEF Signal, Winds, Join, StopPolling, Drained, StopHealthz, CloseLedger
  <2>2. /\ state' = state \/ (pc = "up" /\ state' = NextState(state, "shutting_down"))
        /\ pc \notin Before /\ pc' \notin Before /\ pc' \notin {"healthz", "connect"}
        /\ (pc' \in {"up", "join", "stopping", "draining"} =>
              pc \in {"up", "join", "stopping", "draining"})
    BY <1>10 DEF Signal, Winds, Join, StopPolling, Drained, StopHealthz, CloseLedger
  <2> QED BY <2>1, <2>2 DEF NextState
<1> QED BY <1>1, <1>2, <1>3, <1>4, <1>5, <1>6, <1>7, <1>8, <1>9, <1>10, Ways DEF Booted

-----------------------------------------------------------------------------
(* The heartbeat table *)

LEMMA NotBeforeFacts ==
    ASSUME IsFiniteSet(beats)
    PROVE  \A t : IsFiniteSet(NotBefore(t)) /\ Cardinality(NotBefore(t)) \in Nat
<1>1. \A t : NotBefore(t) \in SUBSET beats
  BY DEF NotBefore
<1> QED BY <1>1, FS_Subset, FS_CardinalityType

\* The later the stamp, the fewer the rows.
LEMMA FewerLater ==
    ASSUME TypeOK, IsFiniteSet(beats), NEW t \in Nat, NEW u \in Nat, t =< u
    PROVE  Cardinality(NotBefore(u)) =< Cardinality(NotBefore(t))
<1>1. \A b \in beats : b.ts \in Nat
  BY DEF TypeOK
<1>2. NotBefore(u) \in SUBSET NotBefore(t)
  BY <1>1 DEF NotBefore
<1> QED BY <1>2, NotBeforeFacts, FS_Subset

\* One row more makes the count of rows at most one more.
LEMMA BeatAdds ==
    ASSUME TypeOK, IsFiniteSet(beats), WriteHeartbeat
    PROVE  /\ IsFiniteSet(beats')
           /\ Cardinality(NotBefore(clock)') =< Cardinality(NotBefore(clock)) + 1
           /\ NotBefore(clock + 1)' = NotBefore(clock + 1)
<1> DEFINE b == [id |-> written + 1, ts |-> clock]
<1>1. beats' = beats \union {b} /\ clock' = clock /\ clock \in Nat
  BY DEF TypeOK, WriteHeartbeat
<1>2. NotBefore(clock)' = NotBefore(clock) \union {b}
  BY <1>1 DEF NotBefore
<1>3. NotBefore(clock + 1)' = NotBefore(clock + 1)
  BY <1>1 DEF NotBefore
<1>4. /\ Cardinality(NotBefore(clock) \union {b}) =
            IF b \in NotBefore(clock) THEN Cardinality(NotBefore(clock))
                                      ELSE Cardinality(NotBefore(clock)) + 1
      /\ Cardinality(NotBefore(clock)) \in Nat
  BY NotBeforeFacts, FS_AddElement
<1>5. IsFiniteSet(beats')
  BY <1>1, FS_AddElement
<1> QED BY <1>2, <1>3, <1>4, <1>5

\* Prune keeps the last row: otherwise it kept Keep others that are stamped like
\* it or later.
LEMMA PruneKeepsLast ==
    ASSUME TypeOK, BeatsOK, PruneHeartbeats, NEW b \in beats, b.id = written
    PROVE  b \in beats'
<1>1. /\ beats' \in SUBSET beats /\ Limited(beats')
      /\ \A a \in beats', c \in beats \ beats' : c.ts =< a.ts
  BY DEF PruneHeartbeats
<1>2. SUFFICES ASSUME b \notin beats' PROVE FALSE
  OBVIOUS
<1>3. IsFiniteSet(beats) /\ Cardinality(NotBefore(b.ts)) =< Keep /\ Keep \in Nat
  BY HeartbeatAssumption DEF BeatsOK
<1>4. beats' # beats /\ Cardinality(beats') = Keep
  BY <1>1, <1>2 DEF Limited
<1>5. \A a \in beats : a.ts \in Nat
  BY DEF TypeOK
<1>6. beats' \union {b} \in SUBSET NotBefore(b.ts)
  BY <1>1, <1>2, <1>5 DEF NotBefore
<1>7. IsFiniteSet(beats')
  BY <1>1, <1>3, FS_Subset
<1>8. Cardinality(beats' \union {b}) = Keep + 1
  BY <1>2, <1>4, <1>7, FS_AddElement
<1>9. Cardinality(beats' \union {b}) =< Cardinality(NotBefore(b.ts))
        /\ Cardinality(NotBefore(b.ts)) \in Nat
  BY <1>3, <1>6, NotBeforeFacts, FS_Subset
<1> QED BY <1>3, <1>8, <1>9

LEMMA BeatsStep ==
    ASSUME IInv, [Next]_vars
    PROVE  BeatsOK'
<1> USE DEF table
<1>0. /\ TypeOK /\ PhaseOK /\ BeatsOK /\ IsFiniteSet(beats)
      /\ clock \in Nat /\ written \in Nat /\ Keep \in Nat
      /\ \A b \in beats : b.id \in Nat /\ b.id =< written /\ b.ts \in Nat
  BY HeartbeatAssumption DEF IInv, BeatsOK, TypeOK
<1>1. ASSUME UNCHANGED <<beats, written, clock>>,
             pc' \in Booting \/ hb' = "write" => pc \in Booting \/ hb = "write"
      PROVE  BeatsOK'
  <2>1. \A t : NotBefore(t)' = NotBefore(t)
    BY <1>1 DEF NotBefore
  <2>2. NotBefore(clock)' = NotBefore(clock) /\ NotBefore(clock + 1)' = NotBefore(clock + 1)
    BY <1>1 DEF NotBefore
  <2>3. \A b \in beats' : b.id = written' => Cardinality(NotBefore(b.ts)') =< Keep
    BY <1>0, <1>1, <2>1 DEF BeatsOK
  <2> QED BY <1>0, <1>1, <2>2, <2>3 DEF BeatsOK
<1>2. CASE Dies
  BY <1>1, <1>2 DEF Dies, Gone, Booting
<1>3. CASE Hangs \/ UNCHANGED vars \/ LoadSecrets \/ Booted \/ Messages \/ Signal \/ Winds
  <2>1. UNCHANGED <<beats, written, clock>>
    BY <1>3 DEF Hangs, vars, LoadSecrets, Booted, Open, Migrate, Version, Ok, Reap, StartHealthz,
                GoLive, Messages, Accept, Handled, LeaveReader, Report, Throttle, Signal, Winds,
                Join, StopPolling, Drained, StopHealthz, CloseLedger
  <2>2. pc' \in Booting \/ hb' = "write" => pc \in Booting \/ hb = "write"
    BY <1>3 DEF Hangs, vars, LoadSecrets, Booted, Open, Migrate, Version, Ok, Reap, Judge,
                StartHealthz, GoLive, Messages, Accept, Handled, LeaveReader, Report, Throttle,
                Signal, Cancelled, Winds, Join, StopPolling, Drained, StopHealthz, CloseLedger, Booting
  <2> QED BY <1>1, <2>1, <2>2
<1>4. CASE Start \/ Wake
  <2>1. UNCHANGED <<beats, written>> /\ clock' = clock + 1
    BY <1>4 DEF Start, Wake, Tick
  <2>2. \A t : NotBefore(t)' = NotBefore(t)
    BY <2>1 DEF NotBefore
  <2>3. /\ NotBefore(clock)' = NotBefore(clock + 1)
        /\ NotBefore(clock + 1)' = NotBefore(clock + 1 + 1)
    BY <2>1 DEF NotBefore
  <2>4. /\ Cardinality(NotBefore(clock + 1)) < Keep
        /\ Cardinality(NotBefore(clock + 1 + 1)) =< Cardinality(NotBefore(clock + 1))
        /\ Cardinality(NotBefore(clock + 1)) \in Nat /\ Cardinality(NotBefore(clock + 1 + 1)) \in Nat
    BY <1>0, FewerLater, NotBeforeFacts DEF BeatsOK
  <2>5. \A b \in beats' : b.id = written' => Cardinality(NotBefore(b.ts)') =< Keep
    BY <1>0, <2>1, <2>2 DEF BeatsOK
  <2> QED BY <1>0, <2>1, <2>3, <2>4, <2>5 DEF BeatsOK
<1>5. CASE Beat
  <2>1. /\ WriteHeartbeat /\ hb = "write" /\ hb' = "prune" /\ pc' = pc /\ pc = "up"
        /\ written' = written + 1 /\ clock' = clock
        /\ beats' = beats \union {[id |-> written + 1, ts |-> clock]}
    BY <1>0, <1>5 DEF Beat, WriteHeartbeat, PhaseOK
  <2>2. /\ IsFiniteSet(beats') /\ Cardinality(NotBefore(clock)') =< Cardinality(NotBefore(clock)) + 1
        /\ NotBefore(clock + 1)' = NotBefore(clock + 1)
    BY <1>0, <2>1, BeatAdds
  <2>3. Cardinality(NotBefore(clock)) < Keep /\ Cardinality(NotBefore(clock)) \in Nat
    BY <1>0, <2>1, NotBeforeFacts DEF BeatsOK
  <2>4. IsFiniteSet(NotBefore(clock)') /\ Cardinality(NotBefore(clock)') \in Nat
    <3>1. NotBefore(clock)' \in SUBSET beats'
      BY DEF NotBefore
    <3> QED BY <2>2, <3>1, FS_Subset, FS_CardinalityType
  <2>5. ASSUME NEW b \in beats', b.id = written' PROVE Cardinality(NotBefore(b.ts)') =< Keep
    <3>1. b.ts = clock
      BY <1>0, <2>1, <2>5
    <3>2. NotBefore(b.ts)' = NotBefore(clock)'
      BY <2>1, <3>1 DEF NotBefore
    <3> QED BY <1>0, <2>2, <2>3, <2>4, <3>2
  <2>6. \E b \in beats' : b.id = written'
    <3>1. [id |-> written + 1, ts |-> clock] \in beats'
      BY <2>1
    <3>2. [id |-> written + 1, ts |-> clock].id = written'
      BY <2>1
    <3> QED BY <3>1, <3>2
  <2>7. pc' \notin Booting /\ hb' # "write"
    BY <2>1 DEF Booting
  <2> QED BY <1>0, <2>1, <2>2, <2>5, <2>6, <2>7 DEF BeatsOK
<1>6. CASE Trim
  <2>1. PruneHeartbeats /\ UNCHANGED <<written, clock>> /\ beats' \in SUBSET beats
        /\ hb' # "write" /\ pc' = pc
    BY <1>6 DEF Trim, PruneHeartbeats
  <2>2. IsFiniteSet(beats')
    BY <1>0, <2>1, FS_Subset
  <2>3. \A t : /\ Cardinality(NotBefore(t)') =< Cardinality(NotBefore(t))
              /\ Cardinality(NotBefore(t)') \in Nat /\ Cardinality(NotBefore(t)) \in Nat
    <3>1. \A t : NotBefore(t)' \in SUBSET NotBefore(t)
      BY <2>1 DEF NotBefore
    <3>2. \A t : IsFiniteSet(NotBefore(t)) /\ Cardinality(NotBefore(t)) \in Nat
      BY <1>0, NotBeforeFacts
    <3> QED BY <3>1, <3>2, FS_Subset, FS_CardinalityType
  <2>4. /\ Cardinality(NotBefore(clock)') =< Cardinality(NotBefore(clock))
        /\ Cardinality(NotBefore(clock + 1)') =< Cardinality(NotBefore(clock + 1))
        /\ Cardinality(NotBefore(clock)') \in Nat /\ Cardinality(NotBefore(clock)) \in Nat
        /\ Cardinality(NotBefore(clock + 1)') \in Nat /\ Cardinality(NotBefore(clock + 1)) \in Nat
    <3>1. /\ NotBefore(clock)' \in SUBSET NotBefore(clock)
          /\ NotBefore(clock + 1)' \in SUBSET NotBefore(clock + 1)
      BY <2>1 DEF NotBefore
    <3> QED BY <1>0, <3>1, NotBeforeFacts, FS_Subset, FS_CardinalityType
  <2>5. ASSUME NEW b \in beats', b.id = written' PROVE Cardinality(NotBefore(b.ts)') =< Keep
    <3>1. b \in beats /\ b.id = written
      BY <2>1, <2>5
    <3>2. Cardinality(NotBefore(b.ts)) =< Keep
      BY <1>0, <3>1 DEF BeatsOK
    <3> QED BY <1>0, <2>3, <3>2
  <2>6. ASSUME written' # 0 PROVE \E b \in beats' : b.id = written'
    <3>0. written' = written /\ written # 0
      BY <2>1, <2>6
    <3>1. PICK b \in beats : b.id = written
      BY <1>0, <3>0 DEF BeatsOK
    <3>2. b \in beats'
      BY <1>0, <2>1, <3>1, PruneKeepsLast
    <3>3. b.id = written'
      BY <3>0, <3>1
    <3> QED BY <3>2, <3>3
  <2> QED BY <1>0, <2>1, <2>2, <2>4, <2>5, <2>6 DEF BeatsOK
<1>7. CASE BeatRaises
  BY <1>1, <1>7 DEF BeatRaises
<1>8. CASE ClockSet
  <2>1. /\ UNCHANGED <<beats, written>> /\ clock' \in Nat
        /\ Cardinality({b \in beats : b.ts >= clock'}) < Keep
    BY <1>0, <1>8 DEF ClockSet, StepBack
  <2>2. \A t : NotBefore(t)' = NotBefore(t)
    BY <2>1 DEF NotBefore
  <2>3. /\ NotBefore(clock)' = NotBefore(clock')
        /\ NotBefore(clock + 1)' = NotBefore(clock' + 1)
        /\ NotBefore(clock') = {b \in beats : b.ts >= clock'}
    BY <2>1 DEF NotBefore
  <2>4. /\ Cardinality(NotBefore(clock' + 1)) =< Cardinality(NotBefore(clock'))
        /\ Cardinality(NotBefore(clock' + 1)) \in Nat /\ Cardinality(NotBefore(clock')) \in Nat
    BY <1>0, <2>1, FewerLater, NotBeforeFacts
  <2>5. \A b \in beats' : b.id = written' => Cardinality(NotBefore(b.ts)') =< Keep
    BY <1>0, <2>1, <2>2 DEF BeatsOK
  <2> QED BY <1>0, <2>1, <2>3, <2>4, <2>5 DEF BeatsOK
<1> QED BY <1>0, <1>2, <1>3, <1>4, <1>5, <1>6, <1>7, <1>8, Ways DEF Heartbeats

LEMMA InvStep == IInv /\ [Next]_vars => IInv'
BY TypeStep, PhaseStep, SchemaStep, VerdictStep, BeatsStep DEF IInv

-----------------------------------------------------------------------------
(* The theorems *)

\* The inductive invariant holds in every reachable state: what each stretch of
\* _run has of the process, what is in the database, and what was seen of claude.
THEOREM InvHolds == Spec => []IInv
<1>1. Init => IInv
  BY InvInit
<1>2. IInv /\ [Next]_vars => IInv'
  BY InvStep
<1> QED BY <1>1, <1>2, PTL DEF Spec

\* Type correctness of Daemon, for every script, table size and bound.
THEOREM TypeCorrect == Spec => []TypeOK
<1>1. IInv => TypeOK
  BY DEF IInv
<1> QED BY <1>1, InvHolds, PTL

\* No update is fetched before every table is there, the self-test has its
\* verdict and the secrets are loaded, however often and wherever the boots
\* before were killed, in the middle of the script too; and without a working
\* claude the daemon is degraded as long as it is up.
THEOREM TrafficCorrect == Spec => []TrafficReady
<1>1. IInv => TrafficReady
  BY DEF IInv, TrafficReady, PhaseOK, SchemaOK, VerdictOK, Migrated, Polling, Handling
<1> QED BY <1>1, InvHolds, PTL

\* A 200 of /healthz is the verdict of this process's own self-test.
THEOREM HealthyCorrect == Spec => []HealthyProven
<1>0. HealthzStatus = 200 => state = "healthy"
  BY DEF HealthzStatus
<1>1. IInv => HealthyProven
  BY <1>0 DEF IInv, HealthyProven, VerdictOK
<1> QED BY <1>1, InvHolds, PTL

\* No handler and no heartbeat uses the ledger before it is open, or after it
\* was closed; the readers that a failed spawn left behind may, after the close.
THEOREM ClosedCorrect == Spec => []ClosedLast
<1>1. IInv => ClosedLast
  BY DEF IInv, ClosedLast, PhaseOK, Handling, Polling
<1> QED BY <1>1, InvHolds, PTL

\* LatestHeartbeat is the last row written.
LEMMA LastIsLatest ==
    ASSUME IInv, written # 0
    PROVE  beats # {} /\ LatestHeartbeat.id = written
<1>1. \A b \in beats : b.id \in Nat /\ b.id =< written
  BY DEF IInv, TypeOK
<1>2. PICK last \in beats : last.id = written
  BY DEF IInv, BeatsOK
<1>3. \A c \in beats : last.id >= c.id
  BY <1>1, <1>2
<1>4. \E b \in beats : \A c \in beats : b.id >= c.id
  BY <1>3
<1>5. LatestHeartbeat \in beats /\ \A c \in beats : LatestHeartbeat.id >= c.id
  BY <1>4 DEF LatestHeartbeat
<1>6. LatestHeartbeat.id >= written
  BY <1>2, <1>5
<1> QED BY <1>1, <1>2, <1>5, <1>6

\* Prune, which goes by the wall clock, never takes the row /healthz is to show.
THEOREM LatestCorrect == Spec => []LatestIsLast
<1>1. IInv => LatestIsLast
  BY LastIsLatest DEF LatestIsLast
<1> QED BY <1>1, InvHolds, PTL

-----------------------------------------------------------------------------
(* Lifecycle *)

LEMMA SeenStep ==
    ASSUME IInv, [Next]_vars
    PROVE  [Seen!Next]_(Seen!vars)
<1> USE DEF Seen!vars, Seen!Next
<1>1. ASSUME Stage' = Stage, Stage = "down" \/ state' = state
      PROVE  UNCHANGED Seen!vars
  BY <1>1
<1>2. CASE Dies \/ Hangs
  <2>1. Stage' = "down"
    BY <1>2 DEF Dies, Gone, Hangs, Stage
  <2>2. CASE Stage = "down"
    BY <1>1, <2>1, <2>2
  <2>3. CASE Stage # "down"
    BY <2>1, <2>3 DEF Seen!Down
  <2> QED BY <2>2, <2>3
<1>3. CASE UNCHANGED vars
  BY <1>1, <1>3 DEF vars, Stage
<1>4. CASE Start \/ LoadSecrets \/ Open \/ Migrate \/ Version \/ Ok \/ Reap \/ StartHealthz
  <2>1. Stage = "down" /\ Stage' = "down"
    BY <1>4 DEF Start, LoadSecrets, Open, Migrate, Version, Ok, Reap, Judge, StartHealthz, Stage
  <2> QED BY <1>1, <2>1
<1>5. CASE GoLive
  <2>1. Stage = "down" /\ Stage' = "up" /\ state' = state /\ state \in {"healthy", "degraded"}
    BY <1>5 DEF GoLive, Stage, IInv, VerdictOK
  <2> QED BY <2>1 DEF Seen!Boot
<1>6. CASE Heartbeats \/ Accept \/ Handled \/ LeaveReader \/ Report
  BY <1>1, <1>6 DEF Heartbeats, Beat, Trim, BeatRaises, Wake, ClockSet, Accept, Handled,
                    LeaveReader, Report, Stage
<1>7. CASE Throttle
  <2>1. Handling /\ Passed /\ pc' = pc /\ state' = NextState(state, "quota_throttled")
    BY <1>7 DEF Throttle
  <2>2. state # "degraded" /\ state' = "quota_throttled"
    BY <2>1 DEF IInv, VerdictOK, NextState
  <2>3. Stage # "down" /\ Stage' = Stage
    BY <2>1 DEF Handling, Polling, Stage
  <2> QED BY <2>2, <2>3 DEF Seen!Throttle
<1>8. CASE Signal
  <2>1. Stage = "up" /\ Stage' = "stopping" /\ state' = "shutting_down"
    BY <1>8 DEF Signal, NextState, Stage
  <2> QED BY <2>1 DEF Seen!Signal
<1>9. CASE StopPolling
  <2>1. Stage = "stopping" /\ Stage' = "draining" /\ state' = state
    BY <1>9 DEF StopPolling, Stage
  <2> QED BY <2>1 DEF Seen!StopPolling
<1>10. CASE Drained
  <2>1. Stage = "draining" /\ Stage' = "down"
    BY <1>10 DEF Drained, Stage
  <2> QED BY <2>1 DEF Seen!Down
<1>11. CASE Join \/ StopHealthz \/ CloseLedger
  BY <1>1, <1>11 DEF Join, StopHealthz, CloseLedger, Stage
<1> QED BY <1>2, <1>3, <1>4, <1>5, <1>6, <1>7, <1>8, <1>9, <1>10, <1>11, Ways
        DEF IInv, Booted, Messages, Winds

\* What Telegram, an operator and /healthz see of the daemon, crashes, timeouts
\* and hung boots included, is a behaviour of Lifecycle.
THEOREM LifecycleCorrect == Spec => ImplementsLifecycle
<1>1. Init => Seen!Init
  BY DEF Init, Seen!Init, Stage
<1>2. IInv /\ [Next]_vars => [Seen!Next]_(Seen!vars)
  BY SeenStep
<1> QED BY <1>1, <1>2, InvHolds, PTL DEF Spec, ImplementsLifecycle, Seen!Spec

=============================================================================
