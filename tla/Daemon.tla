------------------------------- MODULE Daemon -------------------------------
(***************************************************************************)
(* One life after another of the daemon process: _run (__main__.py) step   *)
(* by step, with load_secrets (secrets.py), Ledger.open and                *)
(* apply_migrations (db.py), run_selftest (selftest.py), the heartbeat     *)
(* task and the shutdown, under the systemd unit (deploy/).  What the      *)
(* message handlers do is module Dispatch; here they are a number.         *)
(***************************************************************************)
EXTENDS Heartbeat

CONSTANTS
    Tables,     \* tables and indexes that 0001_init.sql creates
    MaxWork,    \* bound: messages received and not yet handled
    MaxLeft,    \* bound: stdout readers left behind
    MaxBeats,   \* bound: heartbeats written
    MaxClock,   \* bound: time the heartbeats of a boot take
    MaxBoots,   \* bound: starts of the process
    MaxCrashes  \* bound: crashes among them

ASSUME DaemonAssumption ==
    /\ Tables \in Nat /\ MaxWork \in Nat /\ MaxLeft \in Nat /\ MaxBeats \in Nat
    /\ MaxClock \in Nat /\ MaxBoots \in Nat /\ MaxCrashes \in Nat

VARIABLES
    pc,         \* what _run awaits; "off" without a process
    unit,       \* systemd: "inactive", "auto-restart", "on", "stop" (job running)
    notified,   \* READY=1 sent
    boots, crashes,
    made,       \* tables in the database
    stamped,    \* schema_version has the row of 0001_init.sql
    line,       \* next statement of the script
    keys,       \* HarnessSecrets: "none", "bare", or "traced" with the langfuse keys
    opened,     \* the ledger's connection
    child,      \* the self-test's two processes
    result,     \* saw_result
    state,      \* StateMachine._state
    hb,         \* the heartbeat task: "off", "write", "prune", "sleep"
    work,       \* messages received and not yet handled
    left        \* stdout readers that outlived their spawn (Dispatch.readers) and
                \* have not seen a session id yet

systemd == <<unit, boots, crashes>>
schema == <<made, stamped>>
locals == <<line, keys, child, result>>
vars == <<pc, systemd, notified, schema, locals, opened, state, hb, work, left, table>>

\* A child has "failed" when it was not found, was killed or exited with non-zero.
NoChild == [version |-> "none", ok |-> "none"]

\* Where _run is between two awaits, in its order.
Booting == {"secrets", "open", "migrate", "version", "ok", "reap", "healthz", "connect"}
Polling == pc \in {"up", "join", "stopping"}
Handling == Polling \/ pc = "draining"

Init ==
    /\ pc = "off" /\ unit = "inactive" /\ notified = FALSE
    /\ boots = 0 /\ crashes = 0
    /\ made = {} /\ stamped = FALSE
    /\ line = 1 /\ keys = "none" /\ child = NoChild /\ result = FALSE
    /\ opened = FALSE /\ state = "starting" /\ hb = "off"
    /\ work = 0 /\ left = 0
    /\ TableInit

-----------------------------------------------------------------------------
(* systemd.  Without a process nothing in memory is left, and the cgroup's   *)
(* other processes are killed with it.                                       *)

Gone(next) ==
    /\ pc' = "off" /\ unit' = next /\ notified' = FALSE
    /\ line' = 1 /\ keys' = "none" /\ child' = NoChild /\ result' = FALSE
    /\ opened' = FALSE /\ state' = "starting" /\ hb' = "off"
    /\ work' = 0 /\ left' = 0
    /\ UNCHANGED <<boots, schema, table>>

\* Restart=on-failure, unless the failure comes after systemctl stop.
AfterFailure == IF unit = "stop" THEN "inactive" ELSE "auto-restart"

\* By systemctl start, or after RestartSec.
Start ==
    /\ pc = "off" /\ boots < MaxBoots
    /\ pc' = "secrets" /\ unit' = "on" /\ boots' = boots + 1
    /\ Tick
    /\ UNCHANGED <<notified, crashes, schema, locals, opened, state, hb, work, left>>

Crash ==
    /\ pc # "off" /\ crashes < MaxCrashes
    /\ crashes' = crashes + 1
    /\ Gone(AfterFailure)

StartTimeout ==
    /\ pc # "off" /\ unit = "on" /\ ~ notified
    /\ Gone("auto-restart") /\ UNCHANGED crashes

StopTimeout ==
    /\ pc # "off" /\ unit = "stop"
    /\ Gone("inactive") /\ UNCHANGED crashes

-----------------------------------------------------------------------------
(* load_secrets, in one go: nothing in it awaits *)

Reads == {"full", "partial", "absent", "denied"}
Vault == [client : {"ok", "refused"}, telegram : Reads, plane : Reads, langfuse : Reads]

\* load_secrets returns.  Of the optional langfuse path only a SecretsError is
\* caught; a read that is denied raises hvac's own exception.
Loads(v) ==
    /\ v.client = "ok" /\ v.telegram = "full" /\ v.plane = "full"
    /\ v.langfuse # "denied"

LoadSecrets ==
    /\ pc = "secrets"
    /\ \E v \in Vault :
         /\ Loads(v)
         /\ keys' = IF v.langfuse = "full" THEN "traced" ELSE "bare"
    /\ pc' = "open"
    /\ UNCHANGED <<systemd, notified, schema, line, child, result, opened, state, hb, work, left, table>>

\* EX_CONFIG, or a traceback: systemd restarts either.
SecretsFail ==
    /\ pc = "secrets"
    /\ \E v \in Vault : ~ Loads(v)
    /\ Gone(AfterFailure) /\ UNCHANGED crashes

-----------------------------------------------------------------------------
(* Ledger.open and apply_migrations *)

\* Slip: READY=1 as soon as the ledger is open.
OpenNotified ==
    /\ pc = "open"
    /\ opened' = TRUE /\ notified' = TRUE
    /\ pc' = IF stamped THEN "version" ELSE "migrate"
    /\ UNCHANGED <<systemd, schema, locals, state, hb, work, left, table>>

Open ==
    /\ pc = "open"
    /\ opened' = TRUE
    /\ pc' = IF stamped THEN "version" ELSE "migrate"
    /\ UNCHANGED <<systemd, notified, schema, locals, state, hb, work, left, table>>

\* Slip: the script stamps its version before it creates the tables.
StatementStampFirst(n) ==
    \/ n = 1 /\ stamped' = TRUE /\ UNCHANGED made
    \/ n > 1 /\ made' = made \union {n - 1} /\ UNCHANGED stamped

\* executescript commits statement by statement; CREATE ... IF NOT EXISTS, and
\* INSERT OR IGNORE at last, make it safe to run again.
Statement(n) ==
    \/ n =< Tables /\ made' = made \union {n} /\ UNCHANGED stamped
    \/ n = Tables + 1 /\ stamped' = TRUE /\ UNCHANGED made

Migrate ==
    /\ pc = "migrate"
    /\ Statement(line)
    /\ line' = line + 1
    /\ pc' = IF line > Tables THEN "version" ELSE "migrate"
    /\ UNCHANGED <<systemd, notified, keys, child, result, opened, state, hb, work, left, table>>

-----------------------------------------------------------------------------
(* run_selftest, and the transition on its verdict *)

\* Slip: DEGRADED is never left.
NextStateOneWay(old, new) == IF old = "degraded" THEN old ELSE new

NextState(old, new) == IF old = "degraded" /\ new = "healthy" THEN old ELSE new

Judge(healthy) ==
    /\ state' = NextState(state, IF healthy THEN "healthy" ELSE "degraded")
    /\ pc' = "healthz"

\* claude --version: not found, left running after 10 s, or exited.
Version ==
    /\ pc = "version"
    /\ \/ /\ child' = [child EXCEPT !.version = "exited 0"]
          /\ pc' = "ok" /\ UNCHANGED state
       \/ /\ child' \in {[child EXCEPT !.version = end] : end \in {"running", "failed"}}
          /\ Judge(FALSE)
    /\ UNCHANGED <<systemd, notified, schema, line, keys, result, opened, hb, work, left, table>>

\* claude -p: its output ends, or it is not found, or it is killed at the timeout.
Ok ==
    /\ pc = "ok"
    /\ \/ /\ child' = [child EXCEPT !.ok = "running"]
          /\ result' \in BOOLEAN
          /\ pc' = "reap" /\ UNCHANGED state
       \/ /\ child' = [child EXCEPT !.ok = "failed"]
          /\ Judge(FALSE) /\ UNCHANGED result
    /\ UNCHANGED <<systemd, notified, schema, line, keys, opened, hb, work, left, table>>

\* Slip: a result is enough, whatever the exit code.
ReapTrusting ==
    /\ pc = "reap"
    /\ \E code \in {"exited 0", "failed"} :
         /\ child' = [child EXCEPT !.ok = code]
         /\ Judge(result)
    /\ UNCHANGED <<systemd, notified, schema, line, keys, result, opened, hb, work, left, table>>

\* proc.wait() has no timeout: a claude that closed its output may stay.
Reap ==
    /\ pc = "reap"
    /\ \E code \in {"exited 0", "failed"} :
         /\ child' = [child EXCEPT !.ok = code]
         /\ Judge(code = "exited 0" /\ result)
    /\ UNCHANGED <<systemd, notified, schema, line, keys, result, opened, hb, work, left, table>>

-----------------------------------------------------------------------------
(* The rest of the boot *)

StartHealthz ==
    /\ pc = "healthz" /\ pc' = "connect"
    /\ UNCHANGED <<systemd, notified, schema, locals, opened, state, hb, work, left, table>>

\* The port is bound, and what a request is answered (http.py).
Serving == pc \in {"connect", "up", "join", "stopping", "draining", "site"}
HealthzStatus == IF state = "healthy" THEN 200 ELSE 503

\* Nothing awaits between start_polling's last step and stop.wait(): polling,
\* the heartbeat task, READY=1 and the signal handlers come at once.
GoLive ==
    /\ pc = "connect" /\ pc' = "up"
    /\ hb' = "write" /\ notified' = TRUE
    /\ UNCHANGED <<systemd, schema, locals, opened, state, work, left, table>>

\* Any other exception ends _run: sqlite, exec or a pipe of the self-test, the
\* port, Telegram, ingress.stop, the calls after it.  asyncio.run cancels what
\* still runs, but the thread that aiosqlite.connect started, and that nobody
\* closes, may keep the process.
Raise ==
    /\ pc \in {"open", "migrate", "version", "ok", "healthz", "connect",
               "raising", "site", "close"}
    /\ \/ Gone(AfterFailure) /\ UNCHANGED crashes
       \/ /\ pc' = "hung" /\ left' = 0
          /\ UNCHANGED <<systemd, notified, schema, locals, opened, state, hb, work, table>>

-----------------------------------------------------------------------------
(* The heartbeat task *)

Beat ==
    /\ hb = "write" /\ written < MaxBeats
    /\ WriteHeartbeat
    /\ hb' = "prune"
    /\ UNCHANGED <<pc, systemd, notified, schema, locals, opened, state, work, left>>

Trim ==
    /\ hb = "prune"
    /\ PruneHeartbeats
    /\ hb' = "sleep"
    /\ UNCHANGED <<pc, systemd, notified, schema, locals, opened, state, work, left>>

\* Either call raises: it is logged.
BeatRaises ==
    /\ hb \in {"write", "prune"}
    /\ hb' = "sleep"
    /\ UNCHANGED <<pc, systemd, notified, schema, locals, opened, state, work, left, table>>

Wake ==
    /\ hb = "sleep" /\ clock < MaxClock
    /\ Tick
    /\ hb' = "write"
    /\ UNCHANGED <<pc, systemd, notified, schema, locals, opened, state, work, left>>

ClockSet ==
    /\ StepBack
    /\ UNCHANGED <<pc, systemd, notified, schema, locals, opened, state, hb, work, left>>

-----------------------------------------------------------------------------
(* Messages, as far as the life of the process depends on them *)

Accept ==
    /\ Polling /\ work < MaxWork
    /\ work' = work + 1
    /\ UNCHANGED <<pc, systemd, notified, schema, locals, opened, state, hb, left, table>>

Handled ==
    /\ Handling /\ work > 0
    /\ work' = work - 1
    /\ UNCHANGED <<pc, systemd, notified, schema, locals, opened, state, hb, left, table>>

\* Only a healthy boot launches claude (Dispatch.Gate).
Passed == child.version = "exited 0" /\ child.ok = "exited 0" /\ result

\* A spawn whose stderr reader raised: its handler ends, its stdout reader, which
\* gather does not cancel (spawner.py 201), does not.
LeaveReader ==
    /\ Handling /\ work > 0 /\ Passed /\ left < MaxLeft
    /\ work' = work - 1 /\ left' = left + 1
    /\ UNCHANGED <<pc, systemd, notified, schema, locals, opened, state, hb, table>>

\* Such a reader sees claude's session id and calls attach_claude_session_id.
Report ==
    /\ left > 0
    /\ left' = left - 1
    /\ UNCHANGED <<pc, systemd, notified, schema, locals, opened, state, hb, work, table>>

\* Slip: the session's status for the daemon's state.
ThrottleExhausted ==
    /\ Handling /\ work > 0 /\ Passed
    /\ state' = NextState(state, "quota_exhausted")
    /\ UNCHANGED <<pc, systemd, notified, schema, locals, opened, hb, work, left, table>>

\* A claude hit its quota.
Throttle ==
    /\ Handling /\ work > 0 /\ Passed
    /\ state' = NextState(state, "quota_throttled")
    /\ UNCHANGED <<pc, systemd, notified, schema, locals, opened, hb, work, left, table>>

-----------------------------------------------------------------------------
(* Shutdown *)

\* Slip: the heartbeat loop catches BaseException.
CancelledSwallowed(task) == IF task = "sleep" THEN "off" ELSE "sleep"

\* CancelledError is no Exception: it ends the loop at any await.
Cancelled(task) == "off"

\* systemctl stop; SIGTERM sets the event that _run waits for ...
Signal ==
    /\ pc = "up" /\ pc' = "join"
    /\ unit' = "stop"
    /\ state' = NextState(state, "shutting_down")
    /\ hb' = Cancelled(hb)
    /\ UNCHANGED <<boots, crashes, notified, schema, locals, opened, work, left, table>>

\* ... and kills a process that has not come so far.
StopEarly ==
    /\ \/ pc \in Booting \union {"hung"} /\ unit = "on"
       \/ unit = "auto-restart"
    /\ Gone("inactive") /\ UNCHANGED crashes

Join ==
    /\ pc = "join" /\ hb = "off"
    /\ pc' = "stopping"
    /\ UNCHANGED <<systemd, notified, schema, locals, opened, state, hb, work, left, table>>

StopPolling ==
    /\ pc = "stopping" /\ pc' = "draining"
    /\ UNCHANGED <<systemd, notified, schema, locals, opened, state, hb, work, left, table>>

\* Slip: the handlers are not awaited.
DrainedAtOnce ==
    /\ pc = "draining"
    /\ pc' \in {"site", "raising"}
    /\ UNCHANGED <<systemd, notified, schema, locals, opened, state, hb, work, left, table>>

\* ingress.stop, which waits for the handlers and for no reader that one of them
\* left behind, returns, or raises what updater.stop or shutdown raised.
Drained ==
    /\ pc = "draining" /\ work = 0
    /\ pc' \in {"site", "raising"}
    /\ UNCHANGED <<systemd, notified, schema, locals, opened, state, hb, work, left, table>>

StopHealthz ==
    /\ pc = "site" /\ pc' = "close"
    /\ UNCHANGED <<systemd, notified, schema, locals, opened, state, hb, work, left, table>>

\* The readers that are left go on: only asyncio.run will cancel them.
CloseLedger ==
    /\ pc = "close" /\ pc' = "exit"
    /\ opened' = FALSE
    /\ UNCHANGED <<systemd, notified, schema, locals, state, hb, work, left, table>>

Exit == pc = "exit" /\ Gone("inactive") /\ UNCHANGED crashes

-----------------------------------------------------------------------------

Boot == Start \/ LoadSecrets \/ SecretsFail \/ Open \/ Migrate \/ Version \/ Ok \/ Reap
          \/ StartHealthz \/ GoLive
Heartbeats == Beat \/ Trim \/ BeatRaises \/ Wake \/ ClockSet
Messages == Accept \/ Handled \/ LeaveReader \/ Report \/ Throttle
Shutdown == Join \/ StopPolling \/ Drained \/ StopHealthz \/ CloseLedger \/ Exit
Kill == Crash \/ StartTimeout \/ StopTimeout \/ StopEarly

Next == Boot \/ Raise \/ Heartbeats \/ Messages \/ Signal \/ Shutdown \/ Kill

Spec == Init /\ [][Next]_vars

\* systemd's start timer; and once the signal is seen, the code: each handler
\* ends, and each call of the shutdown returns or raises.  Of the boot, and of
\* systemd's stop timer, nothing is assumed.
Fairness ==
    /\ WF_vars(StartTimeout)
    /\ WF_vars(Handled)
    /\ WF_vars(Shutdown)
    /\ WF_vars(pc = "raising" /\ Raise)

LiveSpec == Spec /\ Fairness

-----------------------------------------------------------------------------

Ends == {"none", "running", "failed", "exited 0"}

\* Every variable holds one of its values; the state is one the CHECK of the
\* heartbeat table accepts.
TypeOK ==
    /\ pc \in Booting \union {"off", "up", "join", "stopping", "draining", "site",
                              "close", "exit", "raising", "hung"}
    /\ unit \in {"inactive", "auto-restart", "on", "stop"}
    /\ notified \in BOOLEAN /\ opened \in BOOLEAN /\ stamped \in BOOLEAN /\ result \in BOOLEAN
    /\ boots \in Nat /\ crashes \in Nat
    /\ made \subseteq 1..Tables /\ line \in 1..(Tables + 2)
    /\ keys \in {"none", "bare", "traced"}
    /\ child \in [version : Ends, ok : Ends]
    /\ state \in {"starting", "healthy", "degraded", "quota_throttled", "shutting_down"}
    /\ hb \in {"off", "write", "prune", "sleep"}
    /\ work \in 0..MaxWork /\ left \in 0..MaxLeft
    /\ beats \subseteq [id : 1..written, ts : Nat]
    /\ written \in Nat /\ clock \in Nat

\* "BEFORE accepting Telegram traffic" (selftest.py 5-8): while updates are
\* fetched, the database has every table, whichever of the boots created them
\* and wherever those were killed, and the required secrets are there; the
\* self-test has its verdict, and where claude does not work it stays DEGRADED
\* until the signal.  Then it polls and refuses spawns (selftest.py 8,
\* __main__.py 9); README.md 34 has it refuse the traffic itself.
TrafficReady ==
    Polling => /\ opened /\ made = 1..Tables /\ keys # "none"
               /\ state # "starting"
               /\ Passed \/ state \in {"degraded", "shutting_down"}

\* /healthz answers 200 only in a process whose own self-test saw claude
\* --version succeed, and claude -p deliver a result or an assistant chunk
\* (selftest.py 113 takes either) and exit with 0.
HealthyProven == Serving /\ HealthzStatus = 200 => Passed

\* The row /healthz shows is the last one written, across restarts and although
\* prune keeps rows by their wall-clock stamp.
LatestIsLast == written # 0 => beats # {} /\ LatestHeartbeat.id = written

\* The ledger is closed after all whom _run waits for are done: no handler and no
\* heartbeat is left when it is, and none runs before it is open.  Nobody waits
\* for the readers that a failed spawn left behind: between the close and the end
\* of the process, and only then, one may still bring a session id that is lost.
ClosedLast ==
    ~ opened => /\ work = 0 /\ hb = "off" /\ ~ Handling
                /\ left = 0 \/ pc = "exit"

\* A boot that hangs (a self-test claude that does not exit, a process kept by
\* the ledger's thread) does not count as running: it becomes ready or it is
\* ended (overwatch-harness.service 19-21).
StartSettles == unit = "on" ~> pc \in {"up", "off"}

\* After SIGTERM the daemon ends by itself, without systemd's SIGKILL, unless an
\* exception of the shutdown leaves the ledger's thread behind.
StopEnds == unit = "stop" ~> pc \in {"off", "hung"}

\* Seen from outside, every boot, signal and death is a step of Lifecycle.
Stage ==
    CASE pc = "up" -> "up"
      [] pc \in {"join", "stopping"} -> "stopping"
      [] pc = "draining" -> "draining"
      [] OTHER -> "down"
Seen == INSTANCE Lifecycle WITH stage <- Stage,
                                state <- IF Stage = "down" THEN "starting" ELSE state
ImplementsLifecycle == Seen!Spec
=============================================================================
