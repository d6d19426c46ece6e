------------------------------ MODULE Spawner ------------------------------
(***************************************************************************)
(* class Spawner (src/harness/spawner.py): calls of spawn() share a        *)
(* semaphore, each runs one claude process, reads its pipes to the end or  *)
(* for 600 seconds, and terminates it with SIGTERM and, 5 seconds later,   *)
(* SIGKILL.  asyncio.Semaphore and the operating system's process are      *)
(* external: a release hands the permit to the longest waiter, which runs  *)
(* again later; a process ends when it likes, or by a signal, or lives on. *)
(***************************************************************************)
EXTENDS Integers, Sequences, FiniteSets, SequencesExt

CONSTANTS
    Calls,          \* calls of spawn()
    MaxConcurrent,  \* the semaphore's initial value
    ReaderFaults,   \* may feeding stdin or a reader's body raise?
    EarlyEof,       \* may claude close its pipes and live on?
    Cancels         \* may a caller cancel its task?

ASSUME SpawnerAssumption ==
    /\ MaxConcurrent \in Nat \ {0}
    /\ ReaderFaults \in BOOLEAN /\ EarlyEof \in BOOLEAN /\ Cancels \in BOOLEAN

VARIABLES
    pc,         \* the await each call is at
    waiters,    \* Semaphore._waiters, in order
    woken,      \* waiters that were handed a permit and have not run yet
    permits,    \* Semaphore._value
    inFlight,   \* Spawner._in_flight
    proc,       \* each call's claude: "none", "alive", "exited"
    signal      \* the last signal sent to it: "none", "TERM", "KILL"

vars == <<pc, waiters, woken, permits, inFlight, proc, signal>>
pool == <<waiters, woken, permits, inFlight>>
os == <<proc, signal>>

Init ==
    /\ pc = [c \in Calls |-> "new"]
    /\ waiters = <<>> /\ woken = {} /\ permits = MaxConcurrent
    /\ inFlight = 0
    /\ proc = [c \in Calls |-> "none"]
    /\ signal = [c \in Calls |-> "none"]

Goto(c, p) == pc' = [pc EXCEPT ![c] = p]

-----------------------------------------------------------------------------
(* The semaphore *)

\* Slips: a free permit is taken past those who wait; the count is not looked at.
LockedBarging == permits = 0
LockedUncounted == waiters # <<>> \/ woken # {}

\* Semaphore.locked(): no permit, or somebody is already waiting for one.
Locked == permits = 0 \/ waiters # <<>> \/ woken # {}

\* With n permits free, hand one each to the first waiters w, `most` at most.
Grant(w, k, n, most) ==
    LET served == Min({n, Len(w), most}) IN
    /\ woken' = k \union {w[i] : i \in 1..served}
    /\ waiters' = SubSeq(w, served + 1, Len(w))
    /\ permits' = n - served

\* Semaphore.release(): one permit more, and one waiter woken.
Release == Grant(waiters, woken, permits + 1, 1)

\* spawn's finally block
Leave == inFlight' = inFlight - 1 /\ Release

Call(c) ==
    /\ pc[c] = "new"
    /\ IF Locked
       THEN /\ Goto(c, "waiting")
            /\ waiters' = Append(waiters, c)
            /\ UNCHANGED <<permits, inFlight>>
       ELSE /\ Goto(c, "exec")
            /\ permits' = permits - 1 /\ inFlight' = inFlight + 1
            /\ UNCHANGED waiters
    /\ UNCHANGED <<woken, os>>

\* Slip: no look at the permits that became free meanwhile.
WakeAlone(c) ==
    /\ c \in woken
    /\ woken' = woken \ {c}
    /\ Goto(c, "exec")
    /\ inFlight' = inFlight + 1
    /\ UNCHANGED <<waiters, permits, os>>

\* acquire() returns, after waking whoever else a permit is free for.
Wake(c) ==
    /\ c \in woken
    /\ Grant(waiters, woken \ {c}, permits, Len(waiters))
    /\ Goto(c, "exec")
    /\ inFlight' = inFlight + 1
    /\ UNCHANGED os

-----------------------------------------------------------------------------
(* The subprocess *)

Exec(c) ==
    /\ pc[c] = "exec"
    /\ proc' = [proc EXCEPT ![c] = "alive"]
    /\ Goto(c, "feed")
    /\ UNCHANGED <<pool, signal>>

\* binary not found, no memory
ExecRaises(c) ==
    /\ pc[c] = "exec"
    /\ Goto(c, "raised")
    /\ Leave
    /\ UNCHANGED os

\* stdin.drain: the prompt is written
Feed(c) ==
    /\ pc[c] = "feed"
    /\ Goto(c, "read")
    /\ UNCHANGED <<pool, os>>

\* Both pipes are at their end.
ReadersEnd(c) ==
    /\ pc[c] = "read"
    /\ proc[c] = "exited" \/ EarlyEof
    /\ Goto(c, "reap")
    /\ UNCHANGED <<pool, os>>

\* A broken stdin pipe; a line over the stream's limit, a JSON line that is no
\* object, an exception of on_session_id.  Nothing here terminates claude.
ReaderRaises(c) ==
    /\ ReaderFaults
    /\ pc[c] \in {"feed", "read"}
    /\ Goto(c, "raised")
    /\ Leave
    /\ UNCHANGED os

\* _terminate, up to its wait: nothing to do for a process that has exited.
Terminate(c, ended, waiting) ==
    IF proc[c] = "exited"
    THEN Goto(c, ended) /\ UNCHANGED signal
    ELSE Goto(c, waiting) /\ signal' = [signal EXCEPT ![c] = "TERM"]

Timeout(c) ==
    /\ pc[c] = "read"
    /\ Terminate(c, "reap", "term")
    /\ UNCHANGED <<pool, proc>>

\* Slip: no SIGKILL after the 5 seconds.
TerminatedPolitely(c) ==
    /\ pc[c] = "term"
    /\ Goto(c, "reap")
    /\ UNCHANGED <<pool, os>>

\* _terminate's wait ends: claude is gone, or 5 seconds are and it is killed.
Terminated(c) ==
    /\ pc[c] = "term"
    /\ signal' = [signal EXCEPT ![c] = IF proc[c] = "exited" THEN @ ELSE "KILL"]
    /\ Goto(c, "reap")
    /\ UNCHANGED <<pool, proc>>

\* Slip: no wait for the exit.
ReturnAtOnce(c) ==
    /\ pc[c] = "reap"
    /\ Goto(c, "returned")
    /\ Leave
    /\ UNCHANGED os

Return(c) ==
    /\ pc[c] = "reap"
    /\ proc[c] = "exited"
    /\ Goto(c, "returned")
    /\ Leave
    /\ UNCHANGED os

-----------------------------------------------------------------------------
(* Cancellation of the caller's task, at each await *)

\* Slip: a permit already handed over is not given back.
CancelWaitingKeeps(c) ==
    /\ Cancels
    /\ pc[c] = "waiting"
    /\ Goto(c, "cancelled")
    /\ \/ /\ c \in woken
          /\ Grant(waiters, woken \ {c}, permits, Len(waiters))
       \/ \E i \in DOMAIN waiters :
            /\ waiters[i] = c
            /\ Grant(RemoveAt(waiters, i), woken, permits, Len(waiters))
    /\ UNCHANGED <<inFlight, os>>

\* In acquire(): give a permit already handed over back, or leave the queue, and
\* wake whom the free ones allow.
CancelWaiting(c) ==
    /\ Cancels
    /\ pc[c] = "waiting"
    /\ Goto(c, "cancelled")
    /\ \/ /\ c \in woken
          /\ Grant(waiters, woken \ {c}, permits + 1, Len(waiters))
       \/ \E i \in DOMAIN waiters :
            /\ waiters[i] = c
            /\ Grant(RemoveAt(waiters, i), woken, permits, Len(waiters))
    /\ UNCHANGED <<inFlight, os>>

\* While the pipes are read: terminate, then let the cancellation through.
CancelReading(c) ==
    /\ Cancels
    /\ pc[c] = "read"
    /\ Terminate(c, "unwind", "cancelTerm")
    /\ UNCHANGED <<pool, proc>>

CancelTerminated(c) ==
    /\ pc[c] = "cancelTerm"
    /\ signal' = [signal EXCEPT ![c] = IF proc[c] = "exited" THEN @ ELSE "KILL"]
    /\ Goto(c, "unwind")
    /\ UNCHANGED <<pool, proc>>

Unwind(c) ==
    /\ pc[c] = "unwind"
    /\ Goto(c, "cancelled")
    /\ Leave
    /\ UNCHANGED os

\* In exec (asyncio then closes the half-made process), in drain, or in
\* either wait for the exit: no handler, so only the finally block runs.
CancelElsewhere(c) ==
    /\ Cancels
    /\ pc[c] \in {"exec", "feed", "term", "cancelTerm", "reap"}
    /\ Goto(c, "cancelled")
    /\ Leave
    /\ UNCHANGED os

-----------------------------------------------------------------------------
(* The operating system *)

ProcessExits(c) ==
    /\ proc[c] = "alive"
    /\ proc' = [proc EXCEPT ![c] = "exited"]
    /\ UNCHANGED <<pc, pool, signal>>

-----------------------------------------------------------------------------

Waiting(c) == Call(c) \/ Wake(c)
Running(c) == Exec(c) \/ ExecRaises(c) \/ Feed(c) \/ ReadersEnd(c)
                \/ ReaderRaises(c) \/ Timeout(c) \/ Terminated(c) \/ Return(c)
Cancelling(c) == CancelWaiting(c) \/ CancelReading(c) \/ CancelTerminated(c)
                   \/ Unwind(c) \/ CancelElsewhere(c)

Step(c) == Waiting(c) \/ Running(c) \/ Cancelling(c)

Next == \E c \in Calls : Step(c) \/ ProcessExits(c)

Spec == Init /\ [][Next]_vars

\* The event loop runs every ready coroutine and every timer fires; of the
\* process nothing is assumed but that it does not survive SIGKILL.
Fairness ==
    \A c \in Calls :
        /\ WF_vars(Wake(c)) /\ WF_vars(Running(c))
        /\ WF_vars(CancelTerminated(c)) /\ WF_vars(Unwind(c))
        /\ WF_vars(signal[c] = "KILL" /\ ProcessExits(c))

LiveSpec == Spec /\ Fairness

-----------------------------------------------------------------------------

InSlot == {"exec", "feed", "read", "term", "reap", "cancelTerm", "unwind"}
Over == {"returned", "raised", "cancelled"}
Holders == {c \in Calls : pc[c] \in InSlot}
Alive == {c \in Calls : proc[c] = "alive"}

TypeOK ==
    /\ pc \in [Calls -> {"new", "waiting"} \union InSlot \union Over]
    /\ waiters \in Seq(Calls) /\ woken \subseteq Calls
    /\ permits \in Nat /\ inFlight \in Int
    /\ proc \in [Calls -> {"none", "alive", "exited"}]
    /\ signal \in [Calls -> {"none", "TERM", "KILL"}]

\* No path out of spawn loses or doubles a permit, and in_flight (which the
\* heartbeat reports) counts the calls that hold one (spawner.py 134-135,
\* 233-235), with cancellations and reader failures at every await.
SlotsAccounted ==
    /\ permits + Cardinality(woken) + Cardinality(Holders) = MaxConcurrent
    /\ inFlight = Cardinality(Holders)

\* No wake-up is lost: beside a free permit nobody waits, unless somebody who
\* is about to run will hand it on; and who waits is queued once or woken.
WaitersServed ==
    /\ waiters # <<>> /\ permits # 0 => woken # {}
    /\ ToSet(waiters) \union woken = {c \in Calls : pc[c] = "waiting"}
    /\ Len(waiters) + Cardinality(woken) = Cardinality({c \in Calls : pc[c] = "waiting"})

\* "Bounded-concurrency wrapper for `claude -p`" (spawner.py 95).
ProcessesBounded == Cardinality(Alive) =< MaxConcurrent

\* First come, first served: nobody who calls now gets past a call that waits,
\* and a waiter is handed its permit before every call queued after it.
Fifo ==
    [][ /\ \A c, d \in Calls :
             pc[c] = "new" /\ pc'[c] = "exec" => pc[d] # "waiting"
        /\ \A c \in woken' \ woken, d \in ToSet(waiters') :
             \E i, j \in DOMAIN waiters : i < j /\ waiters[i] = c /\ waiters[j] = d ]_vars

\* Every call comes to an end, also if claude hangs and ignores SIGTERM.
CallsEnd == \A c \in Calls : pc[c] # "new" ~> pc[c] \in Over

\* A caller's view: the claude processes are a bounded pool, and a SpawnResult
\* is built (spawner.py 209-227) only after the process has been waited for.
Pool == INSTANCE ProcessPool WITH
            alive <- Alive,
            over <- {c \in Calls : proc[c] = "exited"},
            results <- {c \in Calls : pc[c] = "returned"}
ImplementsPool == Pool!Spec

=============================================================================
