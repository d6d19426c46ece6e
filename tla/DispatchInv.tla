---------------------------- MODULE DispatchInv ----------------------------
(***************************************************************************)
(* The inductive invariant behind Dispatch's safety properties, for any    *)
(* number of handlers.  In order: what the types and the update queue look *)
(* like; which row a handler owns and what it has done for it so far; how  *)
(* engagements, sessions and rows point at each other.                     *)
(***************************************************************************)
EXTENDS Dispatch

\* Where a handler can be, along _on_message and _dispatch.
Before == {"idle", "upsert", "insert"}          \* owns no row yet
Unlaunched == {"classify", "lookup", "resolve", "route", "slash", "gate",
               "create", "link", "spawn", "refuse"}
InSession == {"spawn", "running", "throttle", "finalize"}
Failing == {"failing", "refused"}
Unanswered == Unlaunched \union InSession \union {"reply"}

Busy(h) == task[h].pc # "idle"
Owns(h) == task[h].pc \notin Before
RowOf(h) == messages[Mid(h)]

\* A busy handler holds an update taken from the queue, of its own.
QueueOK ==
    /\ confirmed =< fetched /\ taken =< fetched
    /\ \A h \in Handlers : IF Busy(h) THEN task[h].upd \in 1..taken /\ Allowed(task[h].upd)
                                      ELSE task[h] = Idle
    /\ \A h, k \in Handlers : h # k /\ Busy(h) => task[h].upd # task[k].upd

\* A current_session_id, in the table or as a handler read it, names a row.
RefsOK ==
    /\ \A e \in DOMAIN engagements : engagements[e].current \in SessIds
    /\ \A h \in Handlers : task[h].cur \in SessIds

\* A row belongs to the update that inserted it, and while that update's
\* handler is in _dispatch the row is not settled.
RowsOK ==
    /\ \A m \in MsgIds : IF messages[m].status = "absent"
                         THEN messages[m] = NoRow
                         ELSE messages[m].upd \in Updates /\ inbox[messages[m].upd].mid = m
    /\ \A h \in Handlers : Owns(h) => /\ RowOf(h).upd = task[h].upd
                                      /\ RowOf(h).status \in Unsettled

HasRow(u) == messages[inbox[u].mid].upd = u

\* Only an update with a row gets a launch or a reply, and a handler that is
\* before its launch (its reply) finds none made.
OnceOK ==
    /\ \A u \in Updates : /\ launched[u] # 0 => HasRow(u)
                          /\ answered[u] # 0 => HasRow(u)
                          /\ launched[u] =< 1 /\ answered[u] =< 1
    /\ \A h \in Handlers :
         /\ task[h].pc \in Unlaunched => launched[task[h].upd] = 0
         /\ task[h].pc \in Unanswered => answered[task[h].upd] = 0
         /\ task[h].pc = "done" => answered[task[h].upd] = 1

\* Engagements and sessions point at each other.
LinksOK ==
    /\ \A e \in DOMAIN engagements :
         LET c == engagements[e].current IN
         c # 0 => sessions[c].eng = e
    /\ \A s \in DOMAIN sessions : sessions[s].eng \in DOMAIN engagements
    /\ OwnConversation

InEngagement(h, s) == s \in DOMAIN sessions /\ sessions[s].eng = task[h].eng

Fresh == Before \union {"classify", "lookup"}   \* has not asked for an engagement yet
Placed == {"route", "slash", "gate", "create", "link"} \union InSession
Opened == {"link"} \union InSession
Replying == {"reply", "done"}
Launched == {"running", "throttle", "finalize"}

\* A handler's engagement is its operator's; the sessions it holds are in it,
\* and stand as far as the handler has come.
Holds(h) ==
    LET t == task[h] IN
    /\ t.eng # 0 => t.eng \in DOMAIN engagements /\ engagements[t.eng].operator = Chat(h)
    /\ t.pc \in Placed => t.eng # 0
    /\ t.pc \in Fresh => t.eng = 0
    /\ t.cur # 0 => InEngagement(h, t.cur)
    /\ t.resume # 0 => InEngagement(h, t.resume)
    /\ t.sess # 0 => InEngagement(h, t.sess)
    /\ t.pc \in Before \union (Unlaunched \ {"link", "spawn"}) => t.sess = 0
    /\ t.pc \in Opened => t.sess # 0 /\ sessions[t.sess].status \in Open
    /\ t.pc \in Replying /\ t.sess # 0 => sessions[t.sess].status \in Final
    /\ t.pc \in Launched \/ (t.pc \in Replying /\ t.sess # 0) => launched[t.upd] = 1

\* No other handler holds the session a handler opened.
HoldsOK ==
    /\ \A h \in Handlers : Holds(h)
    /\ \A h, k \in Handlers : h # k /\ task[h].sess # 0 => task[h].sess # task[k].sess

\* A session with a reader left behind is open, and nobody is about to
\* finalize it.
LateOK ==
    \A r \in readers :
        /\ r.sess \in DOMAIN sessions /\ sessions[r.sess].status \in Open
        /\ r.resume # 0 => r.resume \in DOMAIN sessions
                             /\ sessions[r.resume].eng = sessions[r.sess].eng
        /\ \A h \in Handlers : task[h].sess = r.sess => task[h].pc = "failing"

\* The row of a handler says where it stands.
Traced(h) ==
    LET t == task[h] IN
    /\ t.pc \in (Placed \ {"route"}) \union Replying \union {"refuse"}
         => RowOf(h).status = "routed" /\ RowOf(h).eng = t.eng
    /\ t.pc \in Replying \union InSession => RowOf(h).sess = t.sess
    /\ t.pc \in Unlaunched \ {"spawn"} => RowOf(h).sess = 0

TracedOK ==
    /\ \A m \in MsgIds : messages[m].sess \in SessIds
    /\ \A h \in Handlers : Traced(h)

\* Nothing runs while the daemon is down, nothing is on its way to claude or
\* running it under a failed self-test, and the gate is open only before the
\* signal.
QuietOK ==
    /\ stage = "down" => \A h \in Handlers : ~ Busy(h)
    /\ state = "degraded" =>
         \A h \in Handlers : task[h].pc \notin {"create", "link", "spawn", "running", "throttle"}
    /\ state = "healthy" => stage = "up"

Base == TypeOK /\ QueueOK /\ RefsOK
IInv == Base /\ RowsOK /\ OnceOK /\ LinksOK /\ HoldsOK /\ LateOK /\ TracedOK /\ HonestDone
             /\ QuietOK

-----------------------------------------------------------------------------
(* What holds, on top of IInv, when one handler runs at a time: what decide  *)
(* found is still so when _dispatch acts on it.                              *)

OneHandler == \A h, k \in Handlers : h = k

Engaging == {"resolve", "route", "slash", "gate", "create"}

AloneOK ==
    /\ \A c \in Chats : \A e, f \in Candidates(c) : e = f
    /\ \A h \in Handlers :
         /\ At(h, "resolve") /\ task[h].eng = 0 => Candidates(Chat(h)) = {}
         /\ task[h].pc \in Engaging /\ task[h].eng # 0 => ~ engagements[task[h].eng].ended
    /\ RefusesUnlessHealthy

=============================================================================
