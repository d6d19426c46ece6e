------------------------------ MODULE Dispatch ------------------------------
(***************************************************************************)
(* A Telegram update from getUpdates to its settled ledger row: the        *)
(* ingress handler (ingress/telegram.py), _dispatch (__main__.py), the     *)
(* router (router.py), the slash commands (slash.py), the daemon's state   *)
(* machine (selftest.py) and its life (crash, restart, SIGTERM, drain),    *)
(* over the tables of module Ledger.                                       *)
(*                                                                         *)
(* A handler is one run of TelegramIngress._on_message; each action is the *)
(* code between two awaits that touch shared state.  python-telegram-bot   *)
(* builds the Application with one handler at a time (no                   *)
(* concurrent_updates), so the deployed daemon is Cardinality(Handlers) =  *)
(* 1; more handlers show what does not rest on that.                       *)
(***************************************************************************)
EXTENDS Ledger, FiniteSets

CONSTANTS
    N,              \* updates Telegram ever delivers to the bot
    Allowlist,      \* HARNESS_TELEGRAM_ALLOWLIST
    Inboxes,        \* the contents considered for those updates
    Handlers,       \* _on_message coroutines that may run at once
    MaxConcurrent,  \* max_concurrent_sessions
    LedgerFaults,   \* may a ledger call raise (disk full, locked database)?
    MaxExpired,     \* bound: engagements that leave the idle window
    MaxBoots,       \* bound: starts of the daemon
    MaxCrashes      \* bound: crashes among them

\* Bodies, as parse_slash tells them apart: free text, the two commands that
\* write, and every command that only reads (/help, /status, /sessions, unknown).
EndCommands == {"end", "new"}
Commands == EndCommands \union {"query"}
Body == Commands \union {"text"}

Updates == 1..N
Contents == [chat : Chats, mid : MsgIds, body : Body]

ASSUME DispatchAssumption ==
    /\ N \in Nat
    /\ Allowlist \subseteq Chats
    /\ Inboxes \subseteq [Updates -> Contents]
    /\ MaxConcurrent \in Nat \ {0}
    /\ LedgerFaults \in BOOLEAN
    /\ MaxExpired \in Nat /\ MaxBoots \in Nat /\ MaxCrashes \in Nat

VARIABLES
    inbox,      \* what each update carries
    confirmed,  \* updates Telegram will not deliver again
    fetched,    \* last update this process received; its offset is fetched + 1
    taken,      \* last update taken off the Application's queue
    stage,      \* "down", "up", "stopping" (signal seen), "draining" (polling off)
    state,      \* StateMachine._state
    readers,    \* stdout readers that outlived their spawn
    task,       \* each handler's locals and the await it is at
    boots, crashes,
    launched,   \* history: claude processes started for each update
    answered    \* history: replies delivered for each update

telegram == <<inbox, confirmed, fetched, taken>>
daemon == <<stage, state, readers, boots, crashes>>
history == <<launched, answered>>
vars == <<ledger, telegram, daemon, task, history>>

Idle == [pc |-> "idle", upd |-> 0, eng |-> 0, cur |-> 0, resume |-> 0,
         sess |-> 0, code |-> 0]

Chat(h) == inbox[task[h].upd].chat
Mid(h) == inbox[task[h].upd].mid
Text(h) == inbox[task[h].upd].body

At(h, pc) == task[h].pc = pc
Goto(h, pc) == task' = [task EXCEPT ![h].pc = pc]
Return(h) == task' = [task EXCEPT ![h] = Idle]
Free == \A h \in Handlers : At(h, "idle")

Init ==
    /\ LedgerInit
    /\ inbox \in Inboxes
    /\ confirmed = 0 /\ fetched = 0 /\ taken = 0
    /\ stage = "down" /\ state = "starting"
    /\ readers = {}
    /\ task = [h \in Handlers |-> Idle]
    /\ boots = 0 /\ crashes = 0
    /\ launched = [u \in Updates |-> 0]
    /\ answered = [u \in Updates |-> 0]

-----------------------------------------------------------------------------
(* Telegram and the Application's update queue.  A getUpdates call confirms  *)
(* everything below its offset and returns some of what follows; updates     *)
(* taken + 1 .. fetched are in the queue, which lives in memory.             *)

Poll ==
    /\ stage \in {"up", "stopping"}
    /\ confirmed' = fetched
    /\ fetched' \in fetched..N
    /\ UNCHANGED <<ledger, inbox, taken, daemon, task, history>>

Dequeue(h) ==
    /\ stage # "down"
    /\ At(h, "idle")
    /\ taken < fetched
    /\ taken' = taken + 1

Allowed(u) == inbox[u].chat \in Allowlist

\* The refusal is sent best effort: whatever it raises is swallowed.
Reject(h) ==
    /\ Dequeue(h)
    /\ ~ Allowed(taken + 1)
    /\ UNCHANGED <<ledger, inbox, confirmed, fetched, daemon, task, history>>

Receive(h) ==
    /\ Dequeue(h)
    /\ Allowed(taken + 1)
    /\ task' = [task EXCEPT ![h].pc = "upsert", ![h].upd = taken + 1]
    /\ UNCHANGED <<ledger, inbox, confirmed, fetched, daemon, history>>

-----------------------------------------------------------------------------
(* _on_message, up to the call of _dispatch *)

Upsert(h) ==
    /\ At(h, "upsert")
    /\ UpsertOperator(Chat(h))
    /\ Goto(h, "insert")
    /\ UNCHANGED <<telegram, daemon, history>>

Insert(h) ==
    /\ At(h, "insert")
    /\ ~ IsReplay(Mid(h))
    /\ InsertMessage(Mid(h), task[h].upd)
    /\ Goto(h, "classify")
    /\ UNCHANGED <<telegram, daemon, history>>

Skip(h) ==
    /\ At(h, "insert")
    /\ IsReplay(Mid(h))
    /\ Return(h)
    /\ UNCHANGED <<ledger, telegram, daemon, history>>

-----------------------------------------------------------------------------
(* _dispatch: classification *)

Classify(h) ==
    /\ At(h, "classify")
    /\ UpdateMessage(Mid(h), "classifying", 0, 0)
    /\ Goto(h, "lookup")
    /\ UNCHANGED <<telegram, daemon, history>>

\* decide reads the active engagement with its current session ...
Lookup(h) ==
    /\ At(h, "lookup")
    /\ \E e \in 0..Len(engagements) :
         /\ ActiveEngagement(Chat(h), e)
         /\ task' = [task EXCEPT
               ![h].pc = "resolve", ![h].eng = e,
               ![h].cur = IF e # 0 THEN engagements[e].current ELSE 0]
    /\ UNCHANGED <<ledger, telegram, daemon, history>>

\* ... and after that await either creates one, or reads the session to resume.
NewEngagement(h) ==
    /\ At(h, "resolve")
    /\ task[h].eng = 0
    /\ CreateEngagement(Chat(h))
    /\ task' = [task EXCEPT ![h].pc = "route", ![h].eng = Len(engagements) + 1]
    /\ UNCHANGED <<telegram, daemon, history>>

\* Slip: resume the latest session there is, as the current one.
ResumeIdLatest(h) ==
    IF Text(h) \notin Commands /\ sessions # <<>> THEN sessions[Len(sessions)].claude ELSE 0

ResumeId(h) ==
    IF Text(h) \notin Commands /\ task[h].cur # 0 THEN sessions[task[h].cur].claude ELSE 0

Join(h) ==
    /\ At(h, "resolve")
    /\ task[h].eng # 0
    /\ task' = [task EXCEPT ![h].pc = "route", ![h].cur = 0, ![h].resume = ResumeId(h)]
    /\ UNCHANGED <<ledger, telegram, daemon, history>>

Route(h) ==
    /\ At(h, "route")
    /\ UpdateMessage(Mid(h), "routed", task[h].eng, 0)
    /\ Goto(h, IF Text(h) \in Commands THEN "slash" ELSE "gate")
    /\ UNCHANGED <<telegram, daemon, history>>

-----------------------------------------------------------------------------
(* _dispatch: the slash command path *)

SlashEnds(h) ==
    /\ At(h, "slash")
    /\ Text(h) \in EndCommands
    /\ EndEngagement(task[h].eng)
    /\ Goto(h, "reply")
    /\ UNCHANGED <<telegram, daemon, history>>

\* Commands that only read; and slash.dispatch turns an exception of any
\* command into a reply of its own.
SlashReads(h) ==
    /\ At(h, "slash")
    /\ Text(h) \in EndCommands => LedgerFaults
    /\ Goto(h, "reply")
    /\ UNCHANGED <<ledger, telegram, daemon, history>>

-----------------------------------------------------------------------------
(* _dispatch: the spawn path *)

\* Slips: only a failed self-test closes the gate; only the signal does.
CanSpawnUnlessDegraded == state # "degraded"
CanSpawnUnlessStopping == state # "shutting_down"

CanSpawn == state = "healthy"

Gate(h) ==
    /\ At(h, "gate")
    /\ Goto(h, IF CanSpawn THEN "create" ELSE "refuse")
    /\ UNCHANGED <<ledger, telegram, daemon, history>>

Create(h) ==
    /\ At(h, "create")
    /\ CreateSession(task[h].eng)
    /\ task' = [task EXCEPT ![h].pc = "link", ![h].sess = NextSession]
    /\ UNCHANGED <<telegram, daemon, history>>

\* Slip: the session is not written into the message row.
LinkForgotten(h) ==
    /\ At(h, "link")
    /\ Goto(h, "spawn")
    /\ UNCHANGED <<ledger, telegram, daemon, history>>

Link(h) ==
    /\ At(h, "link")
    /\ UpdateMessage(Mid(h), "routed", 0, task[h].sess)
    /\ Goto(h, "spawn")
    /\ UNCHANGED <<telegram, daemon, history>>

Running == {h \in Handlers : At(h, "running")}

\* Spawner.spawn holds a semaphore permit from before exec to the end.
Launch(h) ==
    /\ At(h, "spawn")
    /\ Cardinality(Running) < MaxConcurrent
    /\ launched' = [launched EXCEPT ![task[h].upd] = @ + 1]
    /\ Goto(h, "running")
    /\ UNCHANGED <<ledger, telegram, daemon, answered>>

\* _read_stdout knows the session to attach to.  What its first chunk with an id
\* gives is the conversation of this claude or the one it resumes; or, for a
\* chunk without session_id, the id of the chunk or of its message (spawner.py
\* 55-60), which is 0 here: it names no conversation.
Reader(h) == [sess |-> task[h].sess, resume |-> task[h].resume]
ClaudeIds(r) == {r.sess, r.resume, 0}

Unreported(h) == At(h, "running") /\ sessions[task[h].sess].status = "spawning"

Attach(h) ==
    /\ Unreported(h)
    /\ \E id \in ClaudeIds(Reader(h)) : AttachClaude(task[h].sess, id)
    /\ UNCHANGED <<telegram, daemon, task, history>>

\* gather does not cancel _read_stdout when _read_stderr raises: its callback
\* may still fire when spawn, and the handler, are over, and until the ledger
\* is closed.
LateAttach ==
    /\ \E r \in readers :
         /\ \E id \in ClaudeIds(r) : AttachClaude(r.sess, id)
         /\ readers' = readers \ {r}
    /\ UNCHANGED <<telegram, stage, state, boots, crashes, task, history>>

\* claude is reaped; a quota signature counts only with a non-zero exit code.
Exit(h) ==
    /\ At(h, "running")
    /\ \E code \in {0, 1}, quota \in BOOLEAN :
         /\ quota => code # 0
         /\ task' = [task EXCEPT ![h].pc = IF quota THEN "throttle" ELSE "finalize",
                                 ![h].code = code]
    /\ UNCHANGED <<ledger, telegram, daemon, history>>

\* StateMachine.transition refuses one step only.
NextState(old, new) == IF old = "degraded" /\ new = "healthy" THEN old ELSE new

Throttle(h) ==
    /\ At(h, "throttle")
    /\ state' = NextState(state, "quota_throttled")
    /\ Goto(h, "finalize")
    /\ UNCHANGED <<ledger, telegram, stage, readers, boots, crashes, history>>

Finalize(h) ==
    /\ At(h, "finalize")
    /\ FinalizeSession(task[h].sess, IF task[h].code = 0 THEN "completed" ELSE "failed")
    /\ task' = [task EXCEPT ![h].pc = "reply", ![h].code = 0]
    /\ UNCHANGED <<telegram, daemon, history>>

-----------------------------------------------------------------------------
(* _dispatch: the reply, and the row's last status *)

Reply(h) ==
    /\ \/ At(h, "reply") /\ Goto(h, "done")
       \/ At(h, "refuse") /\ Goto(h, "refused")
    /\ answered' = [answered EXCEPT ![task[h].upd] = @ + 1]
    /\ UNCHANGED <<ledger, telegram, daemon, launched>>

\* Slips: failures parked as dead letters, which nothing handles; a failure
\* reported as done.
VerdictParked(pc) == IF pc = "done" THEN "done" ELSE "dead_letter"
VerdictDone(pc) == "done"

Verdict(pc) == IF pc = "done" THEN "done" ELSE "failed"

Settle(h) ==
    /\ task[h].pc \in {"done", "refused", "failing"}
    /\ UpdateMessage(Mid(h), Verdict(task[h].pc), 0, 0)
    /\ Return(h)
    /\ UNCHANGED <<telegram, daemon, history>>

-----------------------------------------------------------------------------
(* Exceptions.  Inside _dispatch they end in _on_message's except block,     *)
(* which settles the row as failed; outside of it the handler just ends.     *)

\* send_message raises, whether or not Telegram delivered the message.
ReplyRaises(h) ==
    /\ task[h].pc \in {"reply", "refuse"}
    /\ \E delivered \in {0, 1} :
         answered' = [answered EXCEPT ![task[h].upd] = @ + delivered]
    /\ Goto(h, "failing")
    /\ UNCHANGED <<ledger, telegram, daemon, launched>>

\* exec fails, or a stream reader raises while claude runs.
SpawnRaises(h) ==
    /\ \/ task[h].pc \in {"spawn", "running"} /\ UNCHANGED readers
       \/ Unreported(h) /\ readers' = readers \union {Reader(h)}
    /\ Goto(h, "failing")
    /\ UNCHANGED <<ledger, telegram, stage, state, boots, crashes, history>>

LedgerRaises(h) ==
    /\ LedgerFaults
    /\ \/ /\ task[h].pc \in {"classify", "lookup", "resolve", "route", "create",
                             "link", "finalize", "done", "refused"}
          /\ Goto(h, "failing")
       \/ /\ task[h].pc \in {"upsert", "insert", "failing"}
          /\ Return(h)
    /\ UNCHANGED <<ledger, telegram, daemon, history>>

\* The write stands and the method raises: reading the new row back fails.
WriteRaises(h) ==
    /\ LedgerFaults
    /\ \/ At(h, "upsert") /\ UpsertOperator(Chat(h)) /\ Return(h)
       \/ /\ At(h, "insert") /\ ~ IsReplay(Mid(h))
          /\ InsertMessage(Mid(h), task[h].upd)
          /\ Return(h)
       \/ /\ At(h, "resolve") /\ task[h].eng = 0
          /\ CreateEngagement(Chat(h))
          /\ Goto(h, "failing")
       \/ /\ At(h, "create")
          /\ CreateSession(task[h].eng) \/ HalfSession(task[h].eng)
          /\ Goto(h, "failing")
    /\ UNCHANGED <<telegram, daemon, history>>

-----------------------------------------------------------------------------
(* The daemon's life (_run) and systemd *)

\* _run up to READY=1: whatever is pending in the ledger is only counted and
\* logged; the self-test decides the state.
Boot ==
    /\ stage = "down" /\ readers = {}
    /\ boots < MaxBoots
    /\ boots' = boots + 1
    /\ stage' = "up"
    /\ state' \in {"healthy", "degraded"}
    /\ UNCHANGED <<ledger, telegram, readers, crashes, task, history>>

\* Slip: no transition to SHUTTING_DOWN.
SignalSilent ==
    /\ stage = "up"
    /\ stage' = "stopping"
    /\ UNCHANGED <<ledger, telegram, state, readers, boots, crashes, task, history>>

Signal ==
    /\ stage = "up"
    /\ stage' = "stopping"
    /\ state' = NextState(state, "shutting_down")
    /\ UNCHANGED <<ledger, telegram, readers, boots, crashes, task, history>>

\* updater.stop: a last getUpdates confirms what was received.
StopPolling ==
    /\ stage = "stopping"
    /\ stage' = "draining"
    /\ confirmed' = fetched
    /\ UNCHANGED <<ledger, inbox, fetched, taken, state, readers, boots, crashes, task, history>>

\* Slip: stopping without draining the queue.
StoppedEarly ==
    /\ stage = "draining"
    /\ Free
    /\ stage' = "down" /\ state' = "starting"
    /\ UNCHANGED <<ledger, telegram, readers, boots, crashes, task, history>>

\* application.stop returns when the queue is empty and the handler done; it
\* does not know of the readers left behind.
Stopped ==
    /\ stage = "draining"
    /\ taken = fetched
    /\ Free
    /\ stage' = "down" /\ state' = "starting"
    /\ UNCHANGED <<ledger, telegram, readers, boots, crashes, task, history>>

\* ledger.close and the end of asyncio.run, after which no reader writes.
Close ==
    /\ stage = "down" /\ readers # {}
    /\ readers' = {}
    /\ UNCHANGED <<ledger, telegram, stage, state, boots, crashes, task, history>>

\* The process dies (or systemd kills it): queue, offset and handlers are
\* gone, the cgroup's claude processes with them; the ledger stays.
Crash ==
    /\ stage # "down"
    /\ crashes < MaxCrashes
    /\ crashes' = crashes + 1
    /\ stage' = "down" /\ state' = "starting" /\ readers' = {}
    /\ fetched' = confirmed /\ taken' = confirmed
    /\ task' = [h \in Handlers |-> Idle]
    /\ UNCHANGED <<ledger, inbox, confirmed, boots, history>>

Elapse ==
    /\ Expire
    /\ expired' =< MaxExpired
    /\ UNCHANGED <<telegram, daemon, task, history>>

-----------------------------------------------------------------------------

Intake(h) == Reject(h) \/ Receive(h) \/ Upsert(h) \/ Insert(h) \/ Skip(h)
Routing(h) == Classify(h) \/ Lookup(h) \/ NewEngagement(h) \/ Join(h) \/ Route(h)
Slash(h) == SlashEnds(h) \/ SlashReads(h)
Spawn(h) == Gate(h) \/ Create(h) \/ Link(h) \/ Launch(h) \/ Attach(h) \/ Exit(h)
              \/ Throttle(h) \/ Finalize(h)
Ending(h) == Reply(h) \/ Settle(h)
Raise(h) == ReplyRaises(h) \/ SpawnRaises(h) \/ LedgerRaises(h) \/ WriteRaises(h)

Handler(h) == Intake(h) \/ Routing(h) \/ Slash(h) \/ Spawn(h) \/ Ending(h) \/ Raise(h)
LifeCycle == Boot \/ Signal \/ StopPolling \/ Stopped \/ Close \/ Crash

Next == Poll \/ LifeCycle \/ Elapse \/ LateAttach \/ \E h \in Handlers : Handler(h)

Spec == Init /\ [][Next]_vars

\* Every await in a handler ends: the ledger answers or raises, Telegram's
\* client and the spawner time out.  The polling loop and the queue's fetcher
\* keep running, and shutdown, once begun, goes on.
Fairness ==
    /\ WF_vars(Boot)
    /\ WF_vars(Poll)
    /\ WF_vars(StopPolling)
    /\ WF_vars(Stopped)
    /\ WF_vars(Close)
    /\ \A h \in Handlers : WF_vars(Handler(h))

LiveSpec == Spec /\ Fairness

-----------------------------------------------------------------------------
(* What each variable ranges over *)

States == {"starting", "healthy", "degraded", "quota_throttled", "shutting_down"}
Stages == {"down", "up", "stopping", "draining"}

EngIds == 0..Len(engagements)
SessIds == 0..Len(sessions)

Engagement == [operator : Chats, ended : BOOLEAN, current : Nat]
Session == [eng : Nat, claude : Nat, status : Open \union Final]
Row == [status : {"absent"} \union Unsettled \union Settled,
        upd : 0..N, eng : Nat, sess : Nat]

PCs == {"idle", "upsert", "insert", "classify", "lookup", "resolve", "route",
        "slash", "gate", "create", "link", "spawn", "running", "throttle",
        "finalize", "reply", "done", "refuse", "refused", "failing"}
Task == [pc : PCs, upd : 0..N, eng : Nat, cur : Nat, resume : Nat, sess : Nat,
         code : {0, 1}]

\* Every variable holds a value of its column or field.
TypeOK ==
    /\ operators \subseteq Chats
    /\ engagements \in Seq(Engagement)
    /\ sessions \in Seq(Session)
    /\ messages \in [MsgIds -> Row]
    /\ expired \in Nat
    /\ inbox \in [Updates -> Contents]
    /\ confirmed \in 0..N /\ fetched \in 0..N /\ taken \in 0..N
    /\ stage \in Stages /\ state \in States
    /\ readers \subseteq [sess : Nat, resume : Nat]
    /\ task \in [Handlers -> Task]
    /\ boots \in Nat /\ crashes \in Nat
    /\ launched \in [Updates -> Nat]
    /\ answered \in [Updates -> Nat]

-----------------------------------------------------------------------------
(* Safety, for any number of concurrent handlers *)

\* One update is worked on at most once, however often Telegram redelivers it
\* around crashes: claude starts for it at most once and the operator gets at
\* most one reply (insert_message's replay rule, db.py 293-295).
AtMostOnce ==
    \A u \in Updates : launched[u] =< 1 /\ answered[u] =< 1

\* "SQLite ledger writes happen first" (audit/plane.py 3-4): while claude runs,
\* the ledger already ties the message to an open session of an engagement of
\* the very operator who wrote it.
LedgerBeforeClaude ==
    \A h \in Running :
        LET row == messages[Mid(h)] IN
        /\ row.status = "routed" /\ row.upd = task[h].upd
        /\ row.sess \in DOMAIN sessions
        /\ sessions[row.sess].status \in Open
        /\ sessions[row.sess].eng = row.eng
        /\ row.eng \in DOMAIN engagements
        /\ engagements[row.eng].operator = Chat(h)

\* A claude conversation stays in the engagement it began in, so it is never
\* resumed in another one or for another operator (router.py 91-101 resumes what
\* the engagement's current session recorded).
OwnConversation ==
    \A s \in DOMAIN sessions :
        LET id == sessions[s].claude IN
        id # 0 => id \in DOMAIN sessions /\ sessions[id].eng = sessions[s].eng

\* A row marked done tells the truth: the operator has the reply, and if a
\* session was opened for the message, claude ran and the session is final.
HonestDone ==
    \A m \in MsgIds :
        LET row == messages[m] IN
        row.status = "done" =>
            /\ answered[row.upd] = 1
            /\ row.sess # 0 => /\ launched[row.upd] = 1
                               /\ sessions[row.sess].status \in Final

\* What the audit trail has settled is never rewritten: not by a redelivery, a
\* late session id, a restart or another handler.
SettledForever ==
    [][ /\ \A m \in MsgIds :
             messages[m].status \in Settled => messages'[m] = messages[m]
        /\ \A s \in DOMAIN sessions :
             sessions[s].status \in Final => sessions'[s] = sessions[s]
        /\ \A e \in DOMAIN engagements :
             engagements[e].ended => engagements'[e].ended ]_vars

\* Once the signal is seen no further message passes the gate, even though a
\* quota hit may overwrite SHUTTING_DOWN while the queue is drained: the drain
\* answers what is queued and launches only what had passed before.
DrainLaunchesNothing ==
    [][ \A h \in Handlers :
            task[h].pc = "gate" /\ task'[h].pc = "create" => stage = "up" ]_vars

\* Where an update stands in its life, read off the row it inserted.
Life(u) ==
    LET row == messages[inbox[u].mid] IN
    IF row.upd # u THEN "new"
    ELSE IF row.status \in Settled THEN row.status ELSE "open"

\* The daemon gives each update the life MessageLife allows, through crashes,
\* redelivery and exceptions; e.g. nothing is launched or answered for a message
\* that is not in the ledger yet, or is settled already.
Messages == INSTANCE MessageLife WITH life <- [u \in Updates |-> Life(u)]
ImplementsLife == Messages!Spec

\* What the handlers do to the daemon's state stays within Lifecycle: a quota
\* hit never moves a degraded daemon, for nothing runs claude there.
Seen == INSTANCE Lifecycle
ImplementsLifecycle == Seen!Spec

-----------------------------------------------------------------------------
(* Safety that rests on one handler at a time *)

\* An operator has one engagement in the idle window and not ended: decide
\* creates one only when it found none (router.py 76-82, 106-108).
OneActive ==
    \A c \in Chats : Cardinality(Candidates(c)) =< 1

\* After /end or /new the engagement is over: no later message opens a session
\* in it (slash.py 74 "Next message starts a fresh engagement").
EndedStaysQuiet ==
    [][ \A s \in DOMAIN sessions' \ DOMAIN sessions :
            ~ engagements[sessions'[s].eng].ended ]_vars

\* While the daemon is up and not healthy (self-test failed, quota exhausted)
\* nothing is on its way to launching claude (selftest.py 8 "refuses spawns").
RefusesUnlessHealthy ==
    stage = "up" /\ state # "healthy" =>
        \A h \in Handlers : task[h].pc \notin {"create", "link", "spawn"}

-----------------------------------------------------------------------------
(* Liveness, and what the repository says that the code does not do *)

\* Every allowed update the daemon has received ends with a settled row under
\* its key, also when SIGTERM arrives first: the queue is drained, not dropped.
ReceivedSettles ==
    \A u \in Updates :
        u =< fetched /\ Allowed(u) ~> messages[inbox[u].mid].status \in Settled

\* "messages received before the daemon restarted that never made it past
\* classification. Daemon resumes processing." (db.py 351-352): none stays
\* pending under a daemon that stays up.
PendingResumed ==
    <>[](stage = "up") =>
        \A m \in MsgIds : messages[m].status \in Pending ~> messages[m].status \notin Pending

\* "sqlite ledger with idempotency on Telegram `update_id`" (README.md 36): an
\* update that was handled, and not refused, has a row of its own.
EveryUpdateRecorded ==
    \A u \in Updates :
        u =< taken /\ Allowed(u) /\ (\A h \in Handlers : task[h].upd # u) =>
            \E m \in MsgIds : messages[m].upd = u

=============================================================================
