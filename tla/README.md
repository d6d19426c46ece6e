# overwatch-harness in TLA+

Models, model-checked runs and machine-checked proofs of the overwatch-harness
daemon (`src/harness`, `migrations`, `deploy`): a systemd user service that
takes messages from Telegram, runs `claude -p` for each, replies, and keeps an
audit ledger in sqlite.

## 1. The system

| component | source | state it keeps | operations |
|---|---|---|---|
| ingress | `ingress/telegram.py` | python-telegram-bot's Application: getUpdates offset, in-memory update queue | `start`, `stop`, `_on_message` |
| dispatch | `__main__.py` `_dispatch` | the handler's locals between awaits | classify, route, slash path, gate, session, spawn, reply, done |
| router | `router.py` | none | `parse_slash`, `decide` (may create an engagement) |
| slash commands | `slash.py` | none | `/help /status /sessions` read, `/end /new` end the engagement |
| ledger | `db.py`, `0001_init.sql` | tables operator, engagement, session, message, heartbeat; a write lock | upsert, insert, update, select; one commit per method |
| state machine | `selftest.py` | `DaemonState` and a reason | `transition`, `can_spawn` |
| self-test | `selftest.py` | none | `run_selftest`, two subprocess phases |
| spawner | `spawner.py` | semaphore, `_in_flight`, the subprocess | `spawn`, `_terminate` |
| egress | `egress/telegram.py` | none | `chunk_text`, `with_part_marker`, `send_reply` |
| heartbeat | `__main__.py`, `db.py` | heartbeat table | write, prune, latest |
| daemon life | `__main__.py` `_run`, the unit file | the process | boot, READY, signal, drain, stop; restart by systemd |
| Plane audit, healthz, secrets, settings, migrations | `audit/plane.py`, `http.py`, `secrets.py`, `config.py`, `db.py` | none beyond files | boot-time reads, HTTP |

**Interaction.** Telegram hands updates to the Application's queue; the next
`getUpdates` confirms them, so what is in the queue exists only in memory. The
Application runs one `_on_message` at a time. `_on_message` writes the operator
and the message row (the UNIQUE key is the guard against redelivery) and awaits
`_dispatch`, which awaits the ledger, the router, the spawner and Telegram in
turn. The spawner calls back (`_on_sid`) into the ledger. An exception inside
`_dispatch` ends in `_on_message`'s except block, one outside of it in the
library. The heartbeat task and healthz read the state machine and the ledger.

**What is hard.** A crash between any two of some twelve awaits, with Telegram
delivering again whatever was not confirmed; a raise at any await after part of
the writes; SIGTERM with a full queue; a state read at the gate and used three
awaits later; callbacks of a subprocess that outlive the call; cancellation,
timeouts and exits racing for one semaphore permit; an idle window that elapses
in the middle of a conversation; a boot of ten awaits that may be killed, fail or
hang at each, also in the middle of a migration; a shutdown that cancels one
user of the ledger, awaits the other and then closes it; a wall clock that is
set back.

**What makes it correct**, per component:

- ingress and dispatch: an update is worked on at most once; everything
  received is settled unless the process crashes; a settled row tells the truth
  and never changes.
- router, slash, ledger: an operator has one active engagement; a conversation
  never leaves its engagement; an ended engagement gets no session.
- ledger and spawner: the ledger knows what claude runs for before it runs.
- state machine: while not healthy, nothing is launched.
- spawner: permits are neither lost nor doubled, waiters are served in order,
  processes are bounded, every call ends.
- egress: the split loses newlines only, no chunk is empty or over `max_chunk`,
  and a row is done only if all of the reply arrived.
- engagement clock: the row found by its timestamp is the latest, and nobody is
  taken back to an older or an ended engagement.
- daemon life: no traffic before the tables, the secrets and the verdict exist;
  healthz says 200 only with proof; a boot becomes ready or ends; the ledger is
  closed after the last of those `_run` waits for; a shutdown ends.
- heartbeat: the row shown is the last one written.

## 2. Modules

| module | contents |
|---|---|
| `Ledger` | a variable per table, an operator per method of `class Ledger` |
| `Dispatch` | extends `Ledger`: Telegram and the queue, `_on_message`, `_dispatch`, router, slash commands, state machine; the specification and its properties |
| `MessageLife` | abstract: what is promised of one update; implemented by `Dispatch` |
| `DispatchInv` | the inductive invariant `IInv`, by named parts |
| `DispatchProofs` | proofs: types, the queue, references, at most once |
| `DispatchSafety` | proofs: the rest of `IInv` and the safety properties for any number of handlers |
| `DispatchRefines` | proofs: `Dispatch` implements `MessageLife` and `Lifecycle` |
| `DispatchAlone` | proofs: what rests on one handler at a time |
| `MCDispatch` | small instances: who writes what |
| `IdleWindow`, `IdleWindowProofs` | the idle window with timestamps and a clock; refines `Ledger`'s count |
| `Egress`, `EgressProofs` | `chunk_text`, `send_reply` and their outcome |
| `Heartbeat` | the heartbeat table, its methods, the wall clock |
| `Daemon`, `DaemonProofs` | extends `Heartbeat`: `_run` from secrets to exit, `load_secrets`, `Ledger.open`, migrations, `run_selftest`, the heartbeat task, healthz, systemd |
| `Lifecycle` | abstract: the daemon seen from outside; implemented by `Dispatch` and by `Daemon` |
| `Spawner`, `SpawnerProofs` | `class Spawner` with asyncio's semaphore and the processes |
| `ProcessPool` | abstract: a bounded pool of processes; implemented by `Spawner` |
| `MCSpawner` | symmetry of the calls |

`Dispatch` has every step of a message and a coarse daemon (boot, signal, stop
polling, stop); `Daemon` has every step of the daemon and of the messages only
their number. `Lifecycle` is what they have in common: both refine it, so what
one assumes of the other half is what the other half does. Likewise `Spawner`
refines `ProcessPool`, on which `Dispatch`'s `Running` and the end of its
handlers rest, and `IdleWindow` refines the part of `Ledger` that has no clock.

### Ledger and Dispatch

A step of a handler is the code between two awaits that touch shared state; the
field `pc` of its record in `task` names the await it stands at, the other
fields are the locals that are used later (`upd`, the engagement `eng`, its
`current_session_id` as read `cur`, `resume_claude_session_id` `resume`, `sess`,
the exit `code`). They follow the code in order:

    _on_message   upsert, insert (or Skip), then _dispatch
    _dispatch     classify, lookup, resolve (NewEngagement or Join), route,
      slash       SlashEnds or SlashReads, Reply, Settle
      refused     Gate, Reply, Settle (failed)
      spawn       Gate, Create, Link, Launch, Attach*, Exit, Throttle?, Finalize,
                  Reply, Settle (done)
    raises        ReplyRaises, SpawnRaises, LedgerRaises, WriteRaises: pc
                  "failing", then Settle (failed), or the handler just ends

A ledger method holds the write lock from its first statement to its commit, so
it is one action. It may raise without effect (`LedgerRaises`), after its commit
when it reads the row back (`WriteRaises`), and `create_session` between its two
statements (`HalfSession`). When a call raises because of stderr, the reader of
stdout lives on and may attach a session id later (`LateAttach`), until the
process ends: `Stopped`, the end of the drain, does not wait for it, `Close` does
away with it.

Ids: a row id is the row's position, AUTOINCREMENT. An operator is its chat. A
claude conversation is named by the session that began it; 0 in the claude column
is NULL or an id that names no conversation, since `StreamChunk.session_id` falls
back to `id` and `message.id` (`spawner.py` 52-60). The idle window has
no clock: since nothing calls `touch_engagement`, engagements leave it in the
order they were made, so `expired`, the number of those outside, is enough
(`SameAnswer` and `ImplementsLedger` of `IdleWindow`).

Telegram is `inbox` with three counters, `taken <= fetched` and `confirmed <=
fetched`. `Crash` forgets the queue and the offset, so everything after
`confirmed` comes again. `StopPolling` and `Stopped` are `TelegramIngress.stop`:
the last `getUpdates` confirms what was received, and `application.stop` waits
for the queue to be drained.

External, modelled from how the code uses it: the Application runs one handler
at a time (it is built without `concurrent_updates`); getUpdates confirms all
below its offset; systemd restarts the daemon and kills its whole cgroup.

### Spawner and ProcessPool

`pc` is the await a call of `spawn` stands at; `waiters`, `woken` and `permits`
are asyncio's semaphore as CPython 3.12 has it: a release hands the permit to the
longest waiter, which runs later, a cancelled waiter gives it back and wakes
others. The process may end at any time, ignores SIGTERM if it likes, and goes
with SIGKILL. `ReaderFaults`, `EarlyEof` and `Cancels` switch the behaviours
that make some promises fail, so that the runs show which promise rests on what.
`ProcessPool` states what a caller is promised: at most `MaxConcurrent` processes,
one per call, and no result before the process is gone. `Spawner` implements it
with `alive` and `over` read off `proc`, and `results`, the calls that have
returned one, off `pc`.

### IdleWindow

`now` is the wall clock; a row has an operator, `last_activity_at` and whether
`ended_at` is set. One message at a time: `Lookup` is the query, `Join` or
`Create` what `decide` does an await later, `Close` is `/end` and `/new`,
`Finish` everything else, exceptions included. `last` is history, not state of
the program: where each operator's previous message went, and when.
`Table!CreateEngagement`, `Table!EndEngagement` and `Table!Expire` are `Ledger`'s
own operators under the mapping `expired <- Cardinality(Gone)`.

### Egress

A body is a sequence over `"n"` (a newline) and `"c"` (any other character), all
that the splitter tells apart; a chunk is a pair of positions. The prefix is a line
of any length in `PrefixLens`: in the mode `slash:/<name>` it repeats the name the
operator typed, which nothing bounds, so it may be longer than a chunk. `Cut` is a turn of
the while loop, `Last` what follows it, and the early return when the body fits.
`lstrip` is stated, not computed: the new position is the one with newlines only
before it and none at it. `SendRaises` is a `send_message` that raises, whether
Telegram delivered or not. `_dispatch` writes done only after `Return`.

### Heartbeat and Daemon

`pc` is the await `_run` stands at, from `"secrets"` to `"exit"`; `"off"` is no
process, `"raising"` an exception on its way out of `ingress.stop`, `"hung"` a
process whose `_run` has ended with an exception, anywhere from
`aiosqlite.connect` to `ledger.close`, while the connection's thread of aiosqlite,
which is no daemon thread and which only `ledger.close` ends, keeps it alive. `unit` is
systemd's view and decides whether an end is followed by a restart. `made` and
`stamped` are the schema: a kill in `"migrate"` leaves a prefix of the tables.
`child` and `result` are what the self-test saw. `hb` is the heartbeat task's
await. `work` counts the messages at hand, `left` the stdout readers that a failed
spawn left behind (`LeaveReader`; `Dispatch.readers`) and that may still report a
session id (`Report`). Everything but the schema and the heartbeat table is gone with the
process (`Gone`).

    _run  secrets, open, migrate, version, ok, reap, healthz, connect,
          up, join, stopping, draining, site, close, exit

`GoLive` is one action: between the last await of `start_polling` and
`stop.wait()` the code does not await, so polling, the heartbeat task, READY=1
and the signal handlers appear at once to everyone else. Before it SIGTERM kills
the process (`StopEarly`).

Rows of the heartbeat table are kept by stamp and read by id. `StepBack` sets the
clock back, by less than `Keep` rows stand for: with 1440 rows of one minute, 24
hours. A longer step does make prune delete the newest rows.

## 3. Runs

| run | instance | shows |
|---|---|---|
| `crash` | 1 handler, 2 updates of 5 inboxes (two chats sharing a message id, an edit, /end, a stranger), 1 crash, 2 boots, ledger faults; 1.6M states | `TypeOK`, `AtMostOnce`, `LedgerBeforeClaude`, `OwnConversation`, `HonestDone`, `IInv`, `SettledForever`; `MessageLife` and `Lifecycle` are implemented |
| `talk` | 1 handler, conversations of 3 updates, 2 idle windows, SIGTERM; 4.2M states | `OwnConversation`, `OneActive`, `RefusesUnlessHealthy`, `EndedStaysQuiet`, `DrainLaunchesNothing` |
| `settles` | 1 handler, 2 updates, 2 boots, no crash and no ledger fault, fairness; 44K states | `ReceivedSettles` |
| `window` | 2 operators, a window of 2, time 0 to 6, 3 engagements; 0.4M states | `TypeOK`, `SameAnswer`, `ImplementsLedger`, `NeverBack` |
| `egress` | every text of 1 to 11 characters, chunks of 4, prefixes of 2, 3 and 6; 0.2M states | `TypeOK`, `NothingLost`, `ChunksFit`, `TruthfulOutcome` |
| `daemon` | 2 boots, 1 crash, 2 tables, 3 heartbeats kept to 2, 1 message at a time, 1 reader left behind, fairness; 0.8M states | `TypeOK`, `TrafficReady`, `HealthyProven`, `LatestIsLast`, `ClosedLast`, `StartSettles`, `StopEnds`; `Lifecycle` is implemented |
| `slots` | 4 calls, 2 permits, everything on, symmetry | `TypeOK`, `SlotsAccounted`, `WaitersServed`, `Fifo` |
| `pool` | 4 calls, 2 permits, no reader fault, no cancellation, fairness | `ImplementsPool`, `CallsEnd` |

Runs that end in a counterexample, each a statement of the repository the code
does not keep:

| run | statement | what happens |
|---|---|---|
| `replay` | "Daemon resumes processing" (`db.py` 351-352) | pending rows are counted and logged; a redelivery is skipped as a replay |
| `updateid` | "idempotency on Telegram `update_id`" (`README.md` 36) | the key is `message_id`: an edit, or another chat's message with the same number, is dropped without a row |
| `orphans` | "Bounded-concurrency wrapper" (`spawner.py` 95) | a reader that raises, a prompt that cannot be written, or a cancellation while the prompt is written or the exit awaited, returns the permit while claude lives |
| `idle` | "free text within idle window" resumes (`router.py` 5-6) | nobody calls `touch_engagement`: the window counts from the engagement's first message |

Seen while modelling, without a run:

- A quota hit during the drain takes SHUTTING_DOWN to QUOTA_THROTTLED, while
  `selftest.py` 148 calls transitions one-way. `Lifecycle` allows it.
- A call of `spawn` cancelled while it writes the prompt or awaits the exit sends
  no signal; `spawner.py` 8-9 promises SIGTERM, then SIGKILL.
- `load_secrets` says the daemon "must enter degraded state" (`secrets.py` 94);
  `_run` exits with 78.
- "Failure of either phase → DEGRADED" (`selftest.py` 51): an exception of a phase's
  subprocess calls other than `FileNotFoundError` and `TimeoutError` (a binary that
  may not be executed, a stdin closed early, a line over the limit) ends the boot,
  or leaves it hung (`Raise`).
- "refuses to accept Telegram traffic if `claude -p` is not working" (`README.md`
  34): a degraded daemon polls, records messages and answers slash commands; it
  only refuses to spawn, as `__main__.py` 9 and `selftest.py` 8 say. `TrafficReady`
  states what the code does: it polls, degraded until the signal.
- A reply is split "on the last newline within the window if one exists", hard "if
  no newline exists" (`egress/telegram.py` 4-5, 27-28): a newline in the first half
  of the window does not count, and the cut then goes through a line (`Breaks`).
- The session id is persisted "even if the spawn dies later" (`spawner.py` 130-132):
  `gather` does not cancel `_read_stdout` when `_read_stderr` raises, nobody awaits
  it, and at the end of a shutdown the ledger is closed when it reports. `ClosedLast`
  says that this is the only time it can come too late.
- `0001_init.sql` 131 has a heartbeat every 60 s and an alert after 5 minutes: the
  task is cancelled before the drain, which may take ten minutes a message.
- Boots that die at the 90 s start timeout never reach five starts in 300 s, the
  limit that keeps the unit from respawning for ever (unit file 12-18).
- `systemctl stop` signals the whole cgroup, so the claude a handler waits for
  gets SIGTERM with the daemon; the stop timeout then bounds the drain, and what
  is still queued was confirmed to Telegram and is lost.
- No caller passes `parent_session_id` (`0001_init.sql` 54), and nothing writes
  the session statuses `interrupted` (`spawner.py` 10) and `quota_exhausted`.

**Bounds.** `N` (updates), `MaxExpired`, `MaxBoots`, `MaxCrashes`, `MaxNow`,
`MaxRows`, `MaxText`, `MaxWork`, `MaxLeft`, `MaxBeats` and `MaxClock` are the only caps; each
is a guard of the action it bounds (`Poll`, `Elapse`, `Boot` or `Start`, `Crash`,
`Tick`, `Create`, `Init` of `Egress`, `Accept`, `LeaveReader`, `Beat`, `Wake`). Two updates are
enough for a redelivery beside a new message, and for a reader left behind beside
the next one;
three for a conversation that is opened, ended and taken up, or resumed twice.
One crash with two boots gives every cut of a run and a complete second run; a
further crash repeats it with rows that are settled or stuck, or with a schema
that is a longer prefix. Four calls for two permits give two waiters behind two
holders, the smallest case in which a wake-up can be lost and order matters. Three
engagements over three windows give two of one operator beside one of the other,
ended, expired and inside, with equal and different stamps. Eleven characters
in windows of four, behind a prefix of half a window, of most of one and of one and
a half, are three full windows and a rest, with newlines at every position of each
and the prefix's own newline before, in and after a window's second half. One reader
left behind is enough to outlive its handler, the drain and the ledger. Three heartbeats for a table of two are one prune that deletes.
Deadlock is not checked where an instance really stops: all updates handled, the
reply sent, no boots left.

**Slips.** Beside each operator that a property depends on stands a variant with
a plausible mistake (its comment begins with "Slip"); with the variant in place
of the operator the run named in `PROJECT.json` finds the property violated.

**Fairness.** `Dispatch`: the handlers' awaits end (the ledger answers or raises,
Telegram's client has timeouts, spawn ends by `CallsEnd`), the library's polling
and queue tasks run, a shutdown that began goes on to the end of the process, systemd starts the service.
Nothing is assumed of operators, of signals, crashes or the clock. `Spawner`: the
event loop runs ready coroutines and timers; of the process only that SIGKILL
ends it. `CallsEnd` is checked with `EarlyEof` FALSE: the last `proc.wait()`
(`spawner.py` 215) has no timeout, so a claude that closes both pipes and lives
on holds its call for ever. `Daemon`: systemd's start timer fires, a handler ends
(as above), and each call of the shutdown returns or raises, after which the
process ends or hangs. Nothing is assumed of the boot, whose self-test may wait
for ever, nor of systemd's stop timer: `StopEnds` is the daemon's own doing.

## 4. Proofs

Every invariant and every action property that a passing run checks, and every
refinement, is proved: the runs show them on small instances, the theorems for
every value of the constants that the modules' `ASSUME`s allow. Each proof has
the same outline. An inductive invariant `IInv` holds initially, each disjunct of
`Next` keeps it (one case per action or group of actions that touch the same
variables, and under it one step per conjunct they can disturb), and it implies
the property; an action property or a refinement follows from `IInv` and the step.

### Dispatch

`DispatchInv.IInv`, for any number of updates, chats, message ids and concurrent
handlers, with ledger faults or without. The runs have one handler, as the daemon
has; the theorems do not rest on it, unless `DispatchAlone` says so. Its parts, each needed by the next:

- `Base`: `TypeOK` is not inductive, since the row a handler writes is typed only
  if its update is one of Telegram's, and the session it reads exists only if the
  `current_session_id` it holds does. `QueueOK` (the counters' order, a busy
  handler holds an update of its own) and `RefsOK` (references name rows) close it.
- `RowsOK`, `OnceOK`: which row a handler owns, and that nothing was launched or
  answered for it that it does not know of. `AtMostOnce` follows
  (`DispatchProofs.OnceCorrect`): a row's `upd` is the update that inserted it and
  never changes; only an update with a row is launched or answered; a handler that
  passes `Insert` found no row, hence nothing was done for its update; and while
  it runs nobody else owns that row. A crash loses the handler and keeps the row,
  so the redelivered update is skipped.
- `LinksOK`, `HoldsOK`, `LateOK`: engagements, sessions and the handlers' locals
  point at each other, no session is held by two handlers, and a reader left
  behind holds a session that is open and that only a failing handler knows. With
  them a late `attach` cannot carry a conversation out of its engagement
  (`OwnConversation`) or touch a final session (`SettledForever`).
- `TracedOK`: the row says where its handler stands, which ties the message to the
  session before the launch (`LedgerBeforeClaude`) and makes the final `done` true
  (`HonestDone`).
- `QuietOK`: nothing runs while the daemon is down, nothing is on its way to
  claude in a degraded one, the gate is open only before the signal. It is what
  `ImplementsLifecycle` and `DrainLaunchesNothing` need.

`DispatchRefines` maps each step to one of `MessageLife` (only `Insert` opens a
life, only `Settle` ends one, the slash path's too) and of `Lifecycle`.

`DispatchAlone` assumes `OneHandler` (no two elements in `Handlers`), which is the
deployed program: python-telegram-bot runs one handler at a time unless
`concurrent_updates` is set, and `ingress/telegram.py` does not set it. Under it
`AloneOK` is inductive beside `IInv`: what `decide` found, or its absence, is still
so when `_dispatch` acts on it an await later. `OneActive`, `EndedStaysQuiet` and
`RefusesUnlessHealthy` follow. With two handlers they do not hold.

### IdleWindow

Rows are ordered by stamp as by id, since the clock does not go back; an operator
has at most one row in the window that is not ended, and it is no older than the
one of his last message; between lookup and use the handler knows which it is.
`SameAnswer` and `NeverBack` follow. For `ImplementsLedger`, the rows out of the
window are an initial segment of the ids, so counting them, which is all `Ledger`
does, tells which they are; each step of the clock moves the count up by any
number, which is `Expire`.

### Egress

Every chunk lies before the position, the position is at no newline, and what was
sent is what lies before `next` (`SplitOK`, `SentOK`). `EgressAssumption` gives what
they start from: a chunk is at least two characters, so that half of one is at least
one and every cut moves on, and the prefix is at least two, so the body starts with
one that is no newline. Nothing is assumed of how long the prefix or the text is.

### Daemon

`PhaseOK` says which of ledger, heartbeat, messages and secrets each stretch of
`_run` has (a hung process may have stopped in any of them); `SchemaOK` that the version is stamped only when all tables are made,
whichever boots made them; `VerdictOK` that the state is decided once a boot by
what its self-test saw. `BeatsOK` is the delicate one. That prune keeps the last
row is not inductive: what matters is that at most `Keep` rows are stamped like it
or later, also just before it is written, when fewer than `Keep` may be stamped
later than now. The guard of `StepBack` is exactly that bound, so the assumption
under which `LatestIsLast` holds is a clock set back by less than the table spans.

### Spawner

For every set of calls, an infinite one included: the calls in a slot, those handed
a permit and the free permits always make `MaxConcurrent`; the queue holds nobody
twice and nobody who was woken (`Orderly`); a call waits if and only if it is in the
queue or woken; and beside a free permit nobody waits unless a woken call will look
(`NoneForgotten`). One lemma, `GrantKeeps`, says what a grant does to any queue, and
`Regrant` applies it to the three ways of getting there: a release, a waiter that
runs, a waiter that is cancelled (woken, or still in the queue, whose hole
`LeaveQueue` closes). `SlotsAccounted`, `WaitersServed` and `Fifo` follow with
everything switched on. `ProcessesBounded` and `ImplementsPool` are proved for
`ReaderFaults` and `Cancels` both FALSE, whatever `EarlyEof`: then a live process
keeps its call in its slot (`AliveOK`), and a call that has returned a result has
no live process. Run `orphans` shows that the bound fails
with the two switched on.

### Model-checked only

- `ReceivedSettles`, `CallsEnd`, `StartSettles`, `StopEnds`: liveness under
  fairness, which the prover does not reach.
- The statements the code does not keep (`PendingResumed`, `EveryUpdateRecorded`,
  `KeptWhileTalking`), which have counterexamples; `ProcessesBounded` has one too,
  beyond the case proved.
- `Fairness` itself is an assumption; the theorems are about `Spec`, hence about
  `LiveSpec` as well.

## 5. Not modelled, and why

- The texts: replies, log lines, `/status` and `/sessions` output, the part
  markers (their room under Telegram's limit is the 296 characters `_MAX_CHUNK`
  leaves) and which chunk is threaded to the message.
- Prompt and output of claude: a run is an exit code and whether stderr has a
  quota signature.
- Plane: HTTP that swallows its errors, and `plane_issue_id` is never set, so the
  call is never reached.
- `touch_engagement`: a method without a caller is no step of the program.
- The settings' parsing, `models.py` (plain records), `install.sh` (run by hand).
- Durations: systemd's start limit, the ratio of its stop timeout to a drain, the
  external heartbeat check.
- A wall clock that steps back under the idle window, and the rounding of
  julianday; a second migration file, of which there is none.
- Telegram's own loss of updates, and edits that arrive while the first handler
  of the same message is at work (one handler at a time).
- Writes of a method that raised at its commit and are committed with the next
  one: only `create_session`, which has two statements, is split.

## 6. Plan

- Of the hazards without a property, those about durations (the drain against
  systemd's stop timeout, the start limit, the heartbeat gap of a drain) need a
  model of real time beside `Daemon`.
- The heartbeat table's bound on a clock that is set back could be widened to a
  statement of which row healthz shows when it is exceeded.
- The messages of `Daemon` are a number; a common refinement of `Dispatch` and
  `Daemon`, both of which implement `Lifecycle`, would join their handlers.
