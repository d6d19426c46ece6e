--------------------------- MODULE DispatchSafety ---------------------------
(***************************************************************************)
(* The rest of Dispatch's inductive invariant, proved: how engagements,    *)
(* sessions, rows and handlers point at each other, and the safety         *)
(* properties that follow for any number of concurrent handlers.           *)
(***************************************************************************)
EXTENDS DispatchProofs

-----------------------------------------------------------------------------
(* What each ledger method does to the engagement and session tables *)

LEMMA EngagementCreated ==
    ASSUME TypeOK, NEW op \in Chats, CreateEngagement(op)
    PROVE  /\ Len(engagements) + 1 \notin DOMAIN engagements
           /\ DOMAIN engagements' = DOMAIN engagements \union {Len(engagements) + 1}
           /\ \A e \in DOMAIN engagements : engagements'[e] = engagements[e]
           /\ engagements'[Len(engagements) + 1].operator = op
           /\ engagements'[Len(engagements) + 1].current = 0
           /\ ~ engagements'[Len(engagements) + 1].ended
           /\ sessions' = sessions
<1>1. [operator |-> op, ended |-> FALSE, current |-> 0] \in Engagement
  BY DEF Engagement
<1>2. engagements \in Seq(Engagement)
  BY DEF TypeOK
<1> QED BY <1>1, <1>2, AppendProperties, LenProperties DEF CreateEngagement

LEMMA EngagementEnded ==
    ASSUME TypeOK, NEW e, EndEngagement(e)
    PROVE  /\ DOMAIN engagements' = DOMAIN engagements
           /\ \A f \in DOMAIN engagements :
                /\ engagements'[f].operator = engagements[f].operator
                /\ engagements'[f].current = engagements[f].current
                /\ engagements'[f].ended = IF f = e THEN TRUE ELSE engagements[f].ended
           /\ sessions' = sessions
BY RowTypes DEF EndEngagement, Engagement

LEMMA SessionOpened ==
    ASSUME TypeOK, NEW e \in Nat, CreateSession(e) \/ HalfSession(e)
    PROVE  /\ NextSession \in Nat \ {0} /\ NextSession \notin DOMAIN sessions
           /\ DOMAIN sessions' = DOMAIN sessions \union {NextSession}
           /\ \A s \in DOMAIN sessions : sessions'[s] = sessions[s]
           /\ sessions'[NextSession].eng = e /\ sessions'[NextSession].claude = 0
           /\ sessions'[NextSession].status = "spawning"
           /\ DOMAIN engagements' = DOMAIN engagements
           /\ \A f \in DOMAIN engagements :
                /\ engagements'[f].operator = engagements[f].operator
                /\ engagements'[f].ended = engagements[f].ended
                /\ \/ engagements'[f].current = engagements[f].current
                   \/ f = e /\ engagements'[f].current = NextSession
<1>1. [eng |-> e, claude |-> 0, status |-> "spawning"] \in Session
  BY DEF Session, Open
<1>2. sessions \in Seq(Session)
  BY DEF TypeOK
<1>3. sessions' = Append(sessions, [eng |-> e, claude |-> 0, status |-> "spawning"])
  BY DEF CreateSession, HalfSession, InsertSession
<1>4. NextSession = Len(sessions) + 1 /\ Len(sessions) \in Nat
  BY <1>2, LenProperties DEF NextSession
<1>5. /\ DOMAIN engagements' = DOMAIN engagements
      /\ \A f \in DOMAIN engagements :
           /\ engagements'[f].operator = engagements[f].operator
           /\ engagements'[f].ended = engagements[f].ended
           /\ \/ engagements'[f].current = engagements[f].current
              \/ f = e /\ engagements'[f].current = NextSession
  BY RowTypes DEF CreateSession, HalfSession, Engagement
<1> QED BY <1>1, <1>2, <1>3, <1>4, <1>5, AppendProperties, LenProperties

LEMMA SessionAttached ==
    ASSUME TypeOK, NEW s, NEW id, AttachClaude(s, id)
    PROVE  /\ DOMAIN sessions' = DOMAIN sessions
           /\ \A t \in DOMAIN sessions : /\ t # s => sessions'[t] = sessions[t]
                                         /\ sessions'[t].eng = sessions[t].eng
           /\ engagements' = engagements
           /\ s \in DOMAIN sessions =>
                sessions'[s].claude = id /\ sessions'[s].status = "running"
<1>1. \A t \in DOMAIN sessions : sessions[t] \in Session
  BY RowTypes
<1>2. /\ sessions' = [sessions EXCEPT ![s] = [sessions[s] EXCEPT !.claude = id,
                                                               !.status = "running"]]
      /\ engagements' = engagements
  BY DEF AttachClaude
<1> QED BY <1>1, <1>2 DEF Session

LEMMA SessionFinalized ==
    ASSUME TypeOK, NEW s, NEW st, FinalizeSession(s, st)
    PROVE  /\ DOMAIN sessions' = DOMAIN sessions
           /\ \A t \in DOMAIN sessions : /\ t # s => sessions'[t] = sessions[t]
                                         /\ sessions'[t].eng = sessions[t].eng
                                         /\ sessions'[t].claude = sessions[t].claude
           /\ engagements' = engagements
           /\ s \in DOMAIN sessions => sessions'[s].status = st
<1>1. \A t \in DOMAIN sessions : sessions[t] \in Session
  BY RowTypes
<1>2. /\ sessions' = [sessions EXCEPT ![s] = [sessions[s] EXCEPT !.status = st]]
      /\ engagements' = engagements
  BY DEF FinalizeSession
<1> QED BY <1>1, <1>2 DEF Session

-----------------------------------------------------------------------------
(* The steps that write these tables, and who takes them *)

Creates(h) == At(h, "resolve") /\ task[h].eng = 0 /\ CreateEngagement(Chat(h))
Ends(h) == At(h, "slash") /\ EndEngagement(task[h].eng)
Opens(h) == /\ At(h, "create")
            /\ CreateSession(task[h].eng) \/ HalfSession(task[h].eng)
Attaches(h) == Unreported(h) /\ \E id \in ClaudeIds(Reader(h)) : AttachClaude(task[h].sess, id)
AttachesLate(r) == \E id \in ClaudeIds(r) : AttachClaude(r.sess, id)
Finalizes(h) == At(h, "finalize") /\ \E st \in Final : FinalizeSession(task[h].sess, st)

Writes(h) == Creates(h) \/ Ends(h) \/ Opens(h) \/ Attaches(h) \/ Finalizes(h)

LEMMA HandlerWrites ==
    ASSUME NEW h \in Handlers, Handler(h)
    PROVE  Writes(h) \/ UNCHANGED <<engagements, sessions>>
<1> USE DEF Writes, ledger, tables
<1>1. CASE Intake(h)
  BY <1>1 DEF Intake, Reject, Receive, Upsert, UpsertOperator, Insert, InsertMessage, Skip
<1>2. CASE Routing(h)
  BY <1>2 DEF Routing, Classify, Lookup, NewEngagement, Creates, Join, Route, UpdateMessage
<1>3. CASE Slash(h)
  BY <1>3 DEF Slash, SlashEnds, SlashReads, Ends
<1>4. CASE Spawn(h)
  BY <1>4 DEF Spawn, Gate, Create, Opens, Link, UpdateMessage, Launch, Attach, Attaches, Exit,
              Throttle, Finalize, Finalizes, Final
<1>5. CASE Ending(h)
  BY <1>5 DEF Ending, Reply, Settle, UpdateMessage
<1>6. CASE Raise(h)
  BY <1>6 DEF Raise, ReplyRaises, SpawnRaises, LedgerRaises, WriteRaises, UpsertOperator,
              InsertMessage, Creates, Opens
<1> QED BY <1>1, <1>2, <1>3, <1>4, <1>5, <1>6 DEF Handler

LEMMA TableSteps ==
    ASSUME [Next]_vars
    PROVE  \/ UNCHANGED <<engagements, sessions>>
           \/ \E h \in Handlers : Writes(h)
           \/ \E r \in readers : AttachesLate(r)
<1> USE DEF ledger, tables
<1>1. CASE Poll \/ LifeCycle \/ Elapse \/ UNCHANGED vars
  BY <1>1 DEF Poll, LifeCycle, Boot, Signal, StopPolling, Stopped, Close, Crash, Elapse, Expire,
              vars
<1>2. CASE LateAttach
  BY <1>2 DEF LateAttach, AttachesLate
<1>3. CASE \E h \in Handlers : Handler(h)
  BY <1>3, HandlerWrites
<1> QED BY <1>1, <1>2, <1>3 DEF Next

\* Rows are never deleted, an engagement keeps its operator and a session its
\* engagement, and an ended engagement stays ended.
Grows ==
    /\ DOMAIN engagements \subseteq DOMAIN engagements'
    /\ \A e \in DOMAIN engagements :
         /\ engagements'[e].operator = engagements[e].operator
         /\ engagements[e].ended => engagements'[e].ended
    /\ DOMAIN sessions \subseteq DOMAIN sessions'
    /\ \A s \in DOMAIN sessions : sessions'[s].eng = sessions[s].eng

LEMMA HandlerTypes ==
    ASSUME TypeOK, NEW h \in Handlers
    PROVE  /\ task \in [Handlers -> Task] /\ task[h] \in Task
           /\ task[h].eng \in Nat /\ task[h].cur \in Nat /\ task[h].resume \in Nat
           /\ task[h].sess \in Nat
BY DEF TypeOK, Task

LEMMA TablesGrow ==
    ASSUME Base, [Next]_vars
    PROVE  Grows
<1> USE DEF Base
<1>1. CASE UNCHANGED <<engagements, sessions>>
  BY <1>1 DEF Grows
<1>2. ASSUME NEW h \in Handlers, Writes(h) PROVE Grows
  <2>1. CASE Creates(h)
    <3>1. Chat(h) \in Chats
      BY <2>1, OwnUpdate DEF Creates, At, Busy
    <3> QED BY <2>1, <3>1, EngagementCreated DEF Creates, Grows
  <2>2. CASE Ends(h)
    BY <2>2, EngagementEnded, RowTypes DEF Ends, Grows, Engagement
  <2>3. CASE Opens(h)
    BY <2>3, HandlerTypes, SessionOpened DEF Opens, Grows
  <2>4. CASE Attaches(h)
    BY <2>4, SessionAttached DEF Attaches, Grows
  <2>5. CASE Finalizes(h)
    BY <2>5, SessionFinalized DEF Finalizes, Grows
  <2> QED BY <1>2, <2>1, <2>2, <2>3, <2>4, <2>5 DEF Writes
<1>3. ASSUME NEW r \in readers, AttachesLate(r) PROVE Grows
  BY <1>3, SessionAttached DEF AttachesLate, Grows
<1> QED BY <1>1, <1>2, <1>3, TableSteps

LEMMA LinksStep ==
    ASSUME Base, LinksOK, HoldsOK, LateOK, [Next]_vars
    PROVE  LinksOK'
<1> USE DEF Base
<1>0. /\ Len(engagements) \in Nat /\ 0 \notin DOMAIN engagements
      /\ 0 \notin DOMAIN sessions
      /\ \A e \in DOMAIN engagements : engagements[e].current \in {0} \union DOMAIN sessions
  BY RowTypes DEF RefsOK, EngIds, SessIds
<1>a. Grows
  BY TablesGrow
<1>1. CASE UNCHANGED <<engagements, sessions>>
  BY <1>1 DEF LinksOK, OwnConversation
<1>2. ASSUME NEW s \in DOMAIN sessions, NEW id, AttachClaude(s, id),
             id # 0 => id \in DOMAIN sessions /\ sessions[id].eng = sessions[s].eng
      PROVE  LinksOK'
  <2>1. /\ engagements' = engagements /\ DOMAIN sessions' = DOMAIN sessions
        /\ \A t \in DOMAIN sessions : /\ t # s => sessions'[t] = sessions[t]
                                      /\ sessions'[t].eng = sessions[t].eng
        /\ sessions'[s].claude = id
    BY <1>2, SessionAttached
  <2>2. \A t \in DOMAIN sessions :
          sessions'[t].claude # 0 => /\ sessions'[t].claude \in DOMAIN sessions
                                     /\ sessions[sessions'[t].claude].eng = sessions[t].eng
    BY <1>2, <2>1 DEF LinksOK, OwnConversation
  <2>3. OwnConversation'
    BY <2>1, <2>2 DEF OwnConversation
  <2> QED BY <1>0, <2>1, <2>3 DEF LinksOK
<1>3. ASSUME NEW h \in Handlers, Writes(h) PROVE LinksOK'
  <2>0. Holds(h)
    BY DEF HoldsOK
  <2>1. CASE Creates(h)
    <3>1. Chat(h) \in Chats
      BY <2>1, OwnUpdate DEF Creates, At, Busy
    <3>2. /\ DOMAIN engagements' = DOMAIN engagements \union {Len(engagements) + 1}
          /\ \A e \in DOMAIN engagements : engagements'[e] = engagements[e]
          /\ engagements'[Len(engagements) + 1].current = 0
          /\ sessions' = sessions
      <4>1. CreateEngagement(Chat(h))
        BY <2>1 DEF Creates
      <4> QED BY <3>1, <4>1, EngagementCreated
    <3> QED BY <3>2 DEF LinksOK, OwnConversation
  <2>2. CASE Ends(h)
    <3>1. /\ DOMAIN engagements' = DOMAIN engagements /\ sessions' = sessions
          /\ \A f \in DOMAIN engagements : engagements'[f].current = engagements[f].current
      BY <2>2, EngagementEnded DEF Ends
    <3> QED BY <3>1 DEF LinksOK, OwnConversation
  <2>3. CASE Opens(h)
    <3>1. task[h].eng \in DOMAIN engagements /\ task[h].eng \in Nat
      BY <2>0, <2>3, HandlerTypes DEF Opens, At, Holds, Placed
    <3>2. /\ NextSession \notin DOMAIN sessions
          /\ DOMAIN sessions' = DOMAIN sessions \union {NextSession}
          /\ \A s \in DOMAIN sessions : sessions'[s] = sessions[s]
          /\ sessions'[NextSession].eng = task[h].eng /\ sessions'[NextSession].claude = 0
          /\ DOMAIN engagements' = DOMAIN engagements
          /\ \A f \in DOMAIN engagements :
               \/ engagements'[f].current = engagements[f].current
               \/ f = task[h].eng /\ engagements'[f].current = NextSession
      <4>1. CreateSession(task[h].eng) \/ HalfSession(task[h].eng)
        BY <2>3 DEF Opens
      <4> QED BY <3>1, <4>1, SessionOpened
    <3>3. OwnConversation'
      BY <3>2 DEF LinksOK, OwnConversation
    <3>4. \A f \in DOMAIN engagements' :
            engagements'[f].current # 0 => sessions'[engagements'[f].current].eng = f
      BY <1>0, <3>2 DEF LinksOK
    <3>5. \A s \in DOMAIN sessions' : sessions'[s].eng \in DOMAIN engagements'
      BY <3>1, <3>2 DEF LinksOK
    <3> QED BY <3>3, <3>4, <3>5 DEF LinksOK
  <2>4. CASE Attaches(h)
    <3>1. InEngagement(h, task[h].sess) /\ (task[h].resume # 0 => InEngagement(h, task[h].resume))
      BY <2>0, <2>4 DEF Attaches, Unreported, At, Holds, Opened, InSession
    <3>2. PICK id \in ClaudeIds(Reader(h)) : AttachClaude(task[h].sess, id)
      BY <2>4 DEF Attaches
    <3>3. id # 0 => id \in DOMAIN sessions /\ sessions[id].eng = sessions[task[h].sess].eng
      BY <3>1, <3>2 DEF ClaudeIds, Reader, InEngagement
    <3> QED BY <1>2, <3>1, <3>2, <3>3 DEF InEngagement
  <2>5. CASE Finalizes(h)
    <3>1. PICK st \in Final : FinalizeSession(task[h].sess, st)
      BY <2>5 DEF Finalizes
    <3>2. /\ engagements' = engagements /\ DOMAIN sessions' = DOMAIN sessions
          /\ \A s \in DOMAIN sessions : sessions'[s].claude = sessions[s].claude
      BY <3>1, SessionFinalized
    <3> QED BY <1>0, <1>a, <3>2 DEF LinksOK, OwnConversation, Grows
  <2> QED BY <1>3, <2>1, <2>2, <2>3, <2>4, <2>5 DEF Writes
<1>4. ASSUME NEW r \in readers, AttachesLate(r) PROVE LinksOK'
  <2>1. /\ r.sess \in DOMAIN sessions
        /\ r.resume # 0 => r.resume \in DOMAIN sessions
                             /\ sessions[r.resume].eng = sessions[r.sess].eng
    BY DEF LateOK
  <2>2. PICK id \in ClaudeIds(r) : AttachClaude(r.sess, id)
    BY <1>4 DEF AttachesLate
  <2>3. id # 0 => id \in DOMAIN sessions /\ sessions[id].eng = sessions[r.sess].eng
    BY <2>1, <2>2 DEF ClaudeIds
  <2> QED BY <1>2, <2>1, <2>2, <2>3
<1> QED BY <1>1, <1>3, <1>4, TableSteps

-----------------------------------------------------------------------------
(* What the tables and counters keep for a handler that does not move *)

\* A step of h writes no session but its own.
LEMMA OtherSessions ==
    ASSUME Base, NEW h \in Handlers, Handler(h), NEW s \in DOMAIN sessions, s # task[h].sess
    PROVE  sessions'[s] = sessions[s]
<1>1. CASE UNCHANGED <<engagements, sessions>>
  BY <1>1
<1>2. CASE Creates(h)
  <2>1. Chat(h) \in Chats /\ CreateEngagement(Chat(h))
    BY <1>2, OwnUpdate DEF Creates, At, Busy, Base
  <2> QED BY <2>1 DEF CreateEngagement
<1>3. CASE Ends(h)
  BY <1>3 DEF Ends, EndEngagement
<1>4. CASE Opens(h)
  BY <1>4, HandlerTypes, SessionOpened DEF Opens, Base
<1>5. CASE Attaches(h)
  BY <1>5, SessionAttached DEF Attaches, Base
<1>6. CASE Finalizes(h)
  BY <1>6, SessionFinalized DEF Finalizes, Base
<1> QED BY <1>1, <1>2, <1>3, <1>4, <1>5, <1>6, HandlerWrites DEF Writes

\* A final session is not written again, and an open one is closed only by the
\* handler that holds it.
LEMMA SessionsKept ==
    ASSUME Base, HoldsOK, LateOK, [Next]_vars, NEW s \in DOMAIN sessions
    PROVE  /\ sessions[s].status \in Final => sessions'[s] = sessions[s]
           /\ sessions[s].status \in Open =>
                \/ sessions'[s].status \in Open
                \/ \E h \in Handlers : Finalizes(h) /\ task[h].sess = s
<1> USE DEF Base
<1>0. Final \intersect Open = {} /\ "running" \in Open
  BY DEF Final, Open
<1>1. CASE UNCHANGED <<engagements, sessions>>
  BY <1>1
<1>2. ASSUME NEW t \in DOMAIN sessions, sessions[t].status \in Open, NEW id, AttachClaude(t, id)
      PROVE  /\ sessions[s].status \in Final => sessions'[s] = sessions[s]
             /\ sessions[s].status \in Open => sessions'[s].status \in Open
  BY <1>0, <1>2, SessionAttached
<1>3. ASSUME NEW h \in Handlers, Writes(h)
      PROVE  /\ sessions[s].status \in Final => sessions'[s] = sessions[s]
             /\ sessions[s].status \in Open =>
                  sessions'[s].status \in Open \/ (Finalizes(h) /\ task[h].sess = s)
  <2>0. Holds(h)
    BY DEF HoldsOK
  <2>1. CASE Creates(h) \/ Ends(h)
    BY <2>1 DEF Creates, CreateEngagement, Ends, EndEngagement
  <2>2. CASE Opens(h)
    BY <2>2, HandlerTypes, SessionOpened DEF Opens
  <2>3. CASE Attaches(h)
    <3>1. task[h].sess \in DOMAIN sessions /\ sessions[task[h].sess].status \in Open
      BY <2>0, <2>3 DEF Attaches, Unreported, At, Holds, Opened, InSession, InEngagement
    <3> QED BY <1>2, <2>3, <3>1 DEF Attaches
  <2>4. CASE Finalizes(h)
    <3>1. sessions[task[h].sess].status \in Open
      BY <2>0, <2>4 DEF Finalizes, At, Holds, Opened, InSession
    <3>2. PICK st \in Final : FinalizeSession(task[h].sess, st)
      BY <2>4 DEF Finalizes
    <3> QED BY <1>0, <2>4, <3>1, <3>2, SessionFinalized
  <2> QED BY <1>3, <2>1, <2>2, <2>3, <2>4 DEF Writes
<1>4. ASSUME NEW r \in readers, AttachesLate(r)
      PROVE  /\ sessions[s].status \in Final => sessions'[s] = sessions[s]
             /\ sessions[s].status \in Open => sessions'[s].status \in Open
  <2>1. r.sess \in DOMAIN sessions /\ sessions[r.sess].status \in Open
    BY DEF LateOK
  <2> QED BY <1>2, <1>4, <2>1 DEF AttachesLate
<1> QED BY <1>1, <1>3, <1>4, TableSteps

\* Only a launch and a reply, sent or raising, are counted.
LEMMA HistoryWriters ==
    ASSUME NEW h \in Handlers, Handler(h)
    PROVE  UNCHANGED history \/ Launch(h) \/ Reply(h) \/ ReplyRaises(h)
<1>1. CASE Intake(h) \/ Routing(h) \/ Slash(h)
  BY <1>1 DEF Intake, Reject, Receive, Upsert, Insert, Skip, Routing, Classify, Lookup,
              NewEngagement, Join, Route, Slash, SlashEnds, SlashReads
<1>2. CASE Spawn(h) \/ Ending(h) \/ Raise(h)
  BY <1>2 DEF Spawn, Gate, Create, Link, Attach, Exit, Throttle, Finalize, Ending, Settle,
              Raise, SpawnRaises, LedgerRaises, WriteRaises
<1> QED BY <1>1, <1>2 DEF Handler

\* The history counters, where they are 1, stay 1.
LEMMA HistoryKept ==
    ASSUME Base, OnceOK, [Next]_vars, NEW u \in Updates
    PROVE  /\ launched[u] = 1 => launched'[u] = 1
           /\ answered[u] = 1 => answered'[u] = 1
<1> USE DEF history
<1>0. launched \in [Updates -> Nat] /\ answered \in [Updates -> Nat]
  BY DEF Base, TypeOK
<1>1. CASE UNCHANGED history
  BY <1>1
<1>2. CASE \E h \in Handlers : Launch(h)
  <2>1. PICK h \in Handlers : Launch(h)
    BY <1>2
  <2>2. launched[task[h].upd] = 0
    BY <2>1 DEF Launch, At, OnceOK, Unlaunched
  <2>3. /\ launched' = [launched EXCEPT ![task[h].upd] = @ + 1]
        /\ answered' = answered
    BY <2>1 DEF Launch
  <2> QED BY <1>0, <2>2, <2>3
<1>3. CASE \E h \in Handlers : Reply(h) \/ ReplyRaises(h)
  <2>1. PICK h \in Handlers, n \in {0, 1} :
          /\ task[h].pc \in {"reply", "refuse"} /\ launched' = launched
          /\ answered' = [answered EXCEPT ![task[h].upd] = @ + n]
    BY <1>3 DEF Reply, ReplyRaises, At
  <2>2. answered[task[h].upd] = 0
    BY <2>1 DEF OnceOK, Unanswered, Unlaunched
  <2> QED BY <1>0, <2>1, <2>2
<1>4. ASSUME NEW h \in Handlers, Handler(h)
      PROVE  UNCHANGED history \/ Launch(h) \/ Reply(h) \/ ReplyRaises(h)
  BY <1>4, HistoryWriters
<1>5. CASE Poll \/ LifeCycle \/ Elapse \/ LateAttach \/ UNCHANGED vars
  BY <1>1, <1>5 DEF Poll, LifeCycle, Boot, Signal, StopPolling, Stopped, Close, Crash, Elapse,
                    LateAttach, vars
<1> QED BY <1>1, <1>2, <1>3, <1>4, <1>5 DEF Next

-----------------------------------------------------------------------------
(* The sessions and the engagement a handler holds *)

\* A handler that carries its locals along keeps its claims on the tables if its
\* next await claims no more than it has earned.
LEMMA HoldsKept ==
    ASSUME NEW k \in Handlers, Holds(k), Grows, inbox' = inbox,
           /\ task'[k].upd = task[k].upd /\ task'[k].eng = task[k].eng
           /\ task'[k].cur \in {0, task[k].cur}
           /\ task'[k].resume = task[k].resume /\ task'[k].sess = task[k].sess,
           task'[k].pc \in Placed => task[k].eng # 0,
           task'[k].pc \in Fresh => task[k].eng = 0,
           task'[k].pc \in Before \union (Unlaunched \ {"link", "spawn"}) => task[k].sess = 0,
           task'[k].pc \in Opened =>
               task[k].sess # 0 /\ sessions'[task[k].sess].status \in Open,
           task'[k].pc \in Replying /\ task[k].sess # 0 =>
               sessions'[task[k].sess].status \in Final,
           task'[k].pc \in Launched \/ (task'[k].pc \in Replying /\ task[k].sess # 0) =>
               launched'[task[k].upd] = 1
    PROVE  Holds(k)'
<1>1. Chat(k)' = Chat(k)
  BY DEF Chat
<1>2. \A s : InEngagement(k, s) => InEngagement(k, s)'
  BY DEF InEngagement, Grows
<1>3. task[k].eng # 0 =>
        task[k].eng \in DOMAIN engagements' /\ engagements'[task[k].eng].operator = Chat(k)
  BY DEF Holds, Grows
<1> QED BY <1>1, <1>2, <1>3 DEF Holds

LEMMA HoldsFrozen ==
    ASSUME Base, OnceOK, HoldsOK, Grows, [Next]_vars, NEW k \in Handlers,
           inbox' = inbox, task'[k] = task[k],
           \/ task[k].sess = 0 \/ task[k].pc = "failing"
           \/ sessions'[task[k].sess] = sessions[task[k].sess]
    PROVE  Holds(k)'
<1>1. Holds(k)
  BY DEF HoldsOK
<1>2. /\ "failing" \notin Opened /\ "failing" \notin Replying /\ "failing" \notin Launched
      /\ Launched \subseteq Opened
      /\ \A pc \in Opened \union Replying : pc # "idle"
  BY DEF Opened, InSession, Replying, Launched
<1>3. task[k].pc \in Launched \union Replying /\ launched[task[k].upd] = 1 =>
        launched'[task[k].upd] = 1
  BY <1>2, OwnUpdate, HistoryKept DEF Base, Busy
<1>4. task[k].pc \in Placed => task[k].eng # 0
  BY <1>1 DEF Holds
<1>5. task[k].pc \in Opened => task[k].sess # 0 /\ sessions'[task[k].sess].status \in Open
  BY <1>1, <1>2 DEF Holds
<1>6. task[k].pc \in Replying /\ task[k].sess # 0 => sessions'[task[k].sess].status \in Final
  BY <1>1, <1>2 DEF Holds
<1>7. task[k].pc \in Launched \/ (task[k].pc \in Replying /\ task[k].sess # 0) =>
        launched'[task[k].upd] = 1
  BY <1>1, <1>3 DEF Holds
<1>8. /\ task[k].pc \in Fresh => task[k].eng = 0
      /\ task[k].pc \in Before \union (Unlaunched \ {"link", "spawn"}) => task[k].sess = 0
  BY <1>1 DEF Holds
<1> QED BY <1>1, <1>4, <1>5, <1>6, <1>7, <1>8, HoldsKept

\* The moves of a handler that opens nothing and looks nothing up.
LEMMA HoldsMoved ==
    ASSUME Base, OnceOK, HoldsOK, LateOK, Grows, [Next]_vars, NEW h \in Handlers, Handler(h),
           /\ task'[h].upd = task[h].upd /\ task'[h].eng = task[h].eng
           /\ task'[h].cur \in {0, task[h].cur}
           /\ task'[h].resume = task[h].resume /\ task'[h].sess = task[h].sess,
           \/ task[h].pc \in Fresh /\ task'[h].pc \in Fresh
           \/ task[h].pc \in {"route", "slash", "gate"}
              /\ task'[h].pc \in {"slash", "gate", "create", "refuse", "reply"}
           \/ task[h].pc \in Opened \ {"finalize"} /\ task'[h].pc \in InSession
              /\ (task'[h].pc \in Launched => launched'[task[h].upd] = 1)
           \/ task[h].pc = "reply" /\ task'[h].pc = "done"
           \/ task'[h].pc \in Failing
    PROVE  Holds(h)'
<1>0. Holds(h) /\ inbox' = inbox
  BY Frame DEF HoldsOK, Base
<1> USE DEF Before, Fresh, Placed, Opened, InSession, Replying, Launched, Unlaunched, Failing
<1>1. CASE task[h].pc \in Fresh /\ task'[h].pc \in Fresh
  <2>1. task[h].eng = 0 /\ task[h].sess = 0
    BY <1>0, <1>1 DEF Holds
  <2>2. /\ task'[h].pc \notin Placed /\ task'[h].pc \notin Opened
        /\ task'[h].pc \notin Replying /\ task'[h].pc \notin Launched
    BY <1>1
  <2> QED BY <1>0, <2>1, <2>2, HoldsKept
<1>2. CASE /\ task[h].pc \in {"route", "slash", "gate"}
           /\ task'[h].pc \in {"slash", "gate", "create", "refuse", "reply"}
  <2>1. task[h].eng # 0 /\ task[h].sess = 0
    BY <1>0, <1>2 DEF Holds
  <2>2. /\ task'[h].pc \notin Fresh /\ task'[h].pc \notin Opened
        /\ task'[h].pc \notin Launched
    BY <1>2
  <2> QED BY <1>0, <2>1, <2>2, HoldsKept
<1>3. CASE /\ task[h].pc \in Opened \ {"finalize"} /\ task'[h].pc \in InSession
           /\ (task'[h].pc \in Launched => launched'[task[h].upd] = 1)
  <2>1. /\ task[h].eng # 0 /\ task[h].sess # 0 /\ task[h].sess \in DOMAIN sessions
        /\ sessions[task[h].sess].status \in Open
    BY <1>0, <1>3 DEF Holds, InEngagement
  <2>2. \A g \in Handlers : Finalizes(g) => task[g].sess # task[h].sess
    BY <1>3, <2>1 DEF Finalizes, At, HoldsOK
  <2>3. sessions'[task[h].sess].status \in Open
    BY <2>1, <2>2, SessionsKept
  <2>4. /\ task'[h].pc \notin Fresh /\ task'[h].pc \notin Replying
        /\ task'[h].pc \notin Before \union (Unlaunched \ {"link", "spawn"})
    BY <1>3
  <2> QED BY <1>0, <1>3, <2>1, <2>3, <2>4, HoldsKept
<1>4. CASE task[h].pc = "reply" /\ task'[h].pc = "done"
  <2>1. task[h].sess # 0 => /\ sessions'[task[h].sess].status \in Final
                            /\ launched'[task[h].upd] = 1
    <3>1. task[h].sess # 0 => /\ task[h].sess \in DOMAIN sessions
                              /\ sessions[task[h].sess].status \in Final
                              /\ launched[task[h].upd] = 1
      BY <1>0, <1>4 DEF Holds, InEngagement
    <3>2. task[h].upd \in Updates
      BY <1>4, OwnUpdate DEF Base, Busy
    <3> QED BY <3>1, <3>2, SessionsKept, HistoryKept
  <2>2. /\ task'[h].pc \notin Fresh /\ task'[h].pc \notin Placed /\ task'[h].pc \notin Opened
        /\ task'[h].pc \notin Unlaunched /\ task'[h].pc \notin Launched
    BY <1>4
  <2> QED BY <1>0, <2>1, <2>2, HoldsKept
<1>5. CASE task'[h].pc \in Failing
  <2>1. /\ task'[h].pc \notin Fresh /\ task'[h].pc \notin Placed /\ task'[h].pc \notin Opened
        /\ task'[h].pc \notin Unlaunched /\ task'[h].pc \notin Launched
        /\ task'[h].pc \notin Replying
    BY <1>5
  <2> QED BY <1>0, <2>1, HoldsKept
<1> QED BY <1>1, <1>2, <1>3, <1>4, <1>5

LEMMA FreshHolds ==
    ASSUME NEW h \in Handlers, task'[h].pc \in Before,
           task'[h].eng = 0, task'[h].cur = 0, task'[h].resume = 0, task'[h].sess = 0
    PROVE  Holds(h)'
BY DEF Holds, Before, Fresh, Placed, Opened, InSession, Replying, Launched, Unlaunched

\* A handler without an engagement holds no session either.
LEMMA NothingHeld ==
    ASSUME Base, LinksOK, HoldsOK, NEW h \in Handlers, task[h].eng = 0
    PROVE  task[h].cur = 0 /\ task[h].resume = 0 /\ task[h].sess = 0
<1>1. 0 \notin DOMAIN engagements
  BY RowTypes DEF Base, EngIds
<1>2. \A s : ~ InEngagement(h, s)
  BY <1>1 DEF InEngagement, LinksOK
<1>3. Holds(h)
  BY DEF HoldsOK
<1> QED BY <1>2, <1>3 DEF Holds

\* The moves that look something up or open something.
LEMMA HoldsTaken ==
    ASSUME Base, LinksOK, OnceOK, HoldsOK, Grows, [Next]_vars, NEW h \in Handlers, Handler(h)
    PROVE  /\ Lookup(h) \/ NewEngagement(h) \/ Join(h) => Holds(h)'
           /\ Create(h) \/ Finalize(h) => Holds(h)'
<1> USE DEF Base
<1>0. /\ Holds(h) /\ inbox' = inbox /\ task \in [Handlers -> Task] /\ task[h] \in Task
      /\ 0 \notin DOMAIN engagements /\ 0 \notin DOMAIN sessions
  BY Frame, RowTypes, HandlerTypes DEF HoldsOK, EngIds, SessIds
<1> USE DEF Before, Fresh, Placed, Opened, InSession, Replying, Launched, Unlaunched
<1>1. ASSUME Lookup(h) PROVE Holds(h)'
  <2>1. task[h].pc = "lookup" /\ task[h].eng = 0 /\ UNCHANGED <<engagements, sessions>>
    BY <1>0, <1>1 DEF Lookup, At, Holds, ledger, tables
  <2>2. task[h].resume = 0 /\ task[h].sess = 0
    BY <2>1, NothingHeld
  <2>3. PICK e \in 0..Len(engagements) :
          /\ ActiveEngagement(Chat(h), e)
          /\ task' = [task EXCEPT ![h].pc = "resolve", ![h].eng = e,
                        ![h].cur = IF e # 0 THEN engagements[e].current ELSE 0]
    BY <1>1 DEF Lookup
  <2>4. e # 0 => e \in DOMAIN engagements /\ engagements[e].operator = Chat(h)
    BY <2>3 DEF ActiveEngagement, Candidates
  <2>5. LET c == engagements[e].current IN
          e # 0 /\ c # 0 => c \in DOMAIN sessions /\ sessions[c].eng = e
    BY <2>4, RowTypes DEF RefsOK, SessIds, LinksOK
  <2>6. /\ task'[h].pc = "resolve" /\ task'[h].upd = task[h].upd /\ task'[h].eng = e
        /\ task'[h].cur = IF e # 0 THEN engagements[e].current ELSE 0
        /\ task'[h].resume = 0 /\ task'[h].sess = 0
    BY <1>0, <2>2, <2>3 DEF Task
  <2>7. Chat(h)' = Chat(h)
    BY <1>0, <2>6 DEF Chat
  <2> QED BY <2>1, <2>4, <2>5, <2>6, <2>7 DEF Holds, InEngagement
<1>2. ASSUME NewEngagement(h) PROVE Holds(h)'
  <2>1. /\ task[h].pc = "resolve" /\ task[h].eng = 0 /\ CreateEngagement(Chat(h))
        /\ task' = [task EXCEPT ![h].pc = "route", ![h].eng = Len(engagements) + 1]
    BY <1>2 DEF NewEngagement, At
  <2>2. task[h].cur = 0 /\ task[h].resume = 0 /\ task[h].sess = 0
    BY <2>1, NothingHeld
  <2>3. Chat(h) \in Chats
    BY <2>1, OwnUpdate DEF Busy
  <2>4. /\ Len(engagements) + 1 \in DOMAIN engagements'
        /\ engagements'[Len(engagements) + 1].operator = Chat(h)
        /\ Len(engagements) + 1 # 0
    BY <2>1, <2>3, EngagementCreated, RowTypes
  <2>5. /\ task'[h].pc = "route" /\ task'[h].upd = task[h].upd
        /\ task'[h].eng = Len(engagements) + 1
        /\ task'[h].cur = 0 /\ task'[h].resume = 0 /\ task'[h].sess = 0
    BY <1>0, <2>1, <2>2 DEF Task
  <2>6. Chat(h)' = Chat(h)
    BY <1>0, <2>5 DEF Chat
  <2> QED BY <2>4, <2>5, <2>6 DEF Holds
<1>3. ASSUME Join(h) PROVE Holds(h)'
  <2>1. /\ task[h].pc = "resolve" /\ task[h].eng # 0 /\ UNCHANGED <<engagements, sessions>>
        /\ task' = [task EXCEPT ![h].pc = "route", ![h].cur = 0, ![h].resume = ResumeId(h)]
    BY <1>3 DEF Join, At, ledger, tables
  <2>2. ResumeId(h) # 0 => InEngagement(h, ResumeId(h))
    <3>1. task[h].cur # 0 => InEngagement(h, task[h].cur)
      BY <1>0 DEF Holds
    <3> QED BY <3>1 DEF ResumeId, InEngagement, LinksOK, OwnConversation
  <2>3. task[h].sess = 0
    BY <1>0, <2>1 DEF Holds
  <2>4. /\ task'[h].pc = "route" /\ task'[h].upd = task[h].upd /\ task'[h].eng = task[h].eng
        /\ task'[h].cur = 0 /\ task'[h].resume = ResumeId(h) /\ task'[h].sess = 0
    BY <1>0, <2>1, <2>3 DEF Task
  <2>5. Chat(h)' = Chat(h)
    BY <1>0, <2>4 DEF Chat
  <2>6. task[h].eng \in DOMAIN engagements /\ engagements[task[h].eng].operator = Chat(h)
    BY <1>0, <2>1 DEF Holds
  <2>7. ResumeId(h) # 0 =>
          ResumeId(h) \in DOMAIN sessions' /\ sessions'[ResumeId(h)].eng = task[h].eng
    BY <2>1, <2>2 DEF InEngagement
  <2> QED BY <2>1, <2>4, <2>5, <2>6, <2>7 DEF Holds, InEngagement
<1>4. ASSUME Create(h) PROVE Holds(h)'
  <2>1. /\ task[h].pc = "create" /\ CreateSession(task[h].eng)
        /\ task' = [task EXCEPT ![h].pc = "link", ![h].sess = NextSession]
    BY <1>4 DEF Create, At
  <2>2. /\ NextSession \in DOMAIN sessions' /\ sessions'[NextSession].eng = task[h].eng
        /\ sessions'[NextSession].status \in Open /\ NextSession # 0
    BY <2>1, HandlerTypes, SessionOpened DEF Open
  <2>3. /\ task'[h].pc = "link" /\ task'[h].upd = task[h].upd /\ task'[h].eng = task[h].eng
        /\ task'[h].cur = task[h].cur /\ task'[h].resume = task[h].resume
        /\ task'[h].sess = NextSession
    BY <1>0, <2>1 DEF Task
  <2>4. Chat(h)' = Chat(h)
    BY <1>0, <2>3 DEF Chat
  <2>5. /\ task[h].eng # 0
        /\ task[h].eng \in DOMAIN engagements' /\ engagements'[task[h].eng].operator = Chat(h)
    BY <1>0, <2>1 DEF Holds, Grows
  <2>6. \A s \in {task[h].cur, task[h].resume} :
          s # 0 => s \in DOMAIN sessions' /\ sessions'[s].eng = task[h].eng
    BY <1>0 DEF Holds, InEngagement, Grows
  <2> QED BY <2>2, <2>3, <2>4, <2>5, <2>6 DEF Holds, InEngagement
<1>5. ASSUME Finalize(h) PROVE Holds(h)'
  <2>1. task[h].pc = "finalize" /\ task[h].sess \in DOMAIN sessions /\ launched[task[h].upd] = 1
    BY <1>0, <1>5 DEF Finalize, At, Holds, InEngagement
  <2>2. launched'[task[h].upd] = 1
    BY <2>1, HistoryKept, OwnUpdate DEF Busy
  <2>3. sessions'[task[h].sess].status \in Final
    <3>1. PICK st \in Final : FinalizeSession(task[h].sess, st)
      BY <1>5 DEF Finalize, Final
    <3> QED BY <2>1, <3>1, SessionFinalized
  <2>4. /\ task'[h].pc = "reply" /\ task'[h].upd = task[h].upd /\ task'[h].eng = task[h].eng
        /\ task'[h].cur = task[h].cur /\ task'[h].resume = task[h].resume
        /\ task'[h].sess = task[h].sess
    BY <1>0, <1>5 DEF Finalize, Task
  <2>5. /\ task'[h].pc \notin Placed /\ task'[h].pc \notin Fresh /\ task'[h].pc \notin Unlaunched
        /\ task'[h].pc \notin Opened
    BY <2>4
  <2> QED BY <1>0, <2>2, <2>3, <2>4, <2>5, HoldsKept
<1> QED BY <1>1, <1>2, <1>3, <1>4, <1>5

LEMMA HoldsOwn ==
    ASSUME Base, LinksOK, OnceOK, HoldsOK, LateOK, Grows, [Next]_vars,
           NEW h \in Handlers, Handler(h)
    PROVE  Holds(h)'
<1> USE DEF Base
<1>0. task \in [Handlers -> Task] /\ task[h] \in Task /\ inbox' = inbox
  BY Frame, HandlerTypes
<1>a. task[h].pc = "idle" => task[h] = Idle
  BY DEF QueueOK, Busy
<1> DEFINE Carried == /\ task'[h].upd = task[h].upd /\ task'[h].eng = task[h].eng
                      /\ task'[h].cur \in {0, task[h].cur}
                      /\ task'[h].resume = task[h].resume /\ task'[h].sess = task[h].sess
           Failed == Carried /\ task'[h].pc \in Failing
           Ended == task'[h] = Idle
<1>1. ASSUME Ended PROVE Holds(h)'
  <2>1. Idle.pc \in Before /\ Idle.eng = 0 /\ Idle.cur = 0 /\ Idle.resume = 0 /\ Idle.sess = 0
    BY DEF Idle, Before
  <2> QED BY <1>1, <2>1, FreshHolds
<1>2. CASE Reject(h)
  <2>1. task' = task /\ Idle.sess = 0
    BY <1>2 DEF Reject, Idle
  <2>2. task[h].sess = 0
    BY <1>a, <1>2, <2>1 DEF Reject, Dequeue, At
  <2> QED BY <1>0, <2>1, <2>2, HoldsFrozen
<1>3. CASE Receive(h)
  <2>1. /\ task'[h].pc \in Before
        /\ task'[h].eng = 0 /\ task'[h].cur = 0 /\ task'[h].resume = 0 /\ task'[h].sess = 0
    BY <1>0, <1>a, <1>3 DEF Receive, Dequeue, At, Idle, Before, Task
  <2> QED BY <2>1, FreshHolds
<1>4. CASE Upsert(h) \/ Insert(h) \/ Classify(h)
  <2>1. Carried /\ task[h].pc \in Fresh /\ task'[h].pc \in Fresh
    BY <1>0, <1>4 DEF Upsert, Insert, Classify, At, Goto, Fresh, Before, Task
  <2> QED BY <2>1, HoldsMoved
<1>5. CASE Skip(h) \/ Settle(h)
  BY <1>0, <1>1, <1>5 DEF Skip, Settle, Return
<1>6. CASE Lookup(h) \/ NewEngagement(h) \/ Join(h) \/ Create(h) \/ Finalize(h)
  BY <1>6, HoldsTaken
<1>7. CASE Route(h) \/ Slash(h) \/ Gate(h)
  <2>1. /\ Carried /\ task[h].pc \in {"route", "slash", "gate"}
        /\ task'[h].pc \in {"slash", "gate", "create", "refuse", "reply"}
    BY <1>0, <1>7 DEF Route, Slash, SlashEnds, SlashReads, Gate, At, Goto, Task
  <2> QED BY <2>1, HoldsMoved
<1>8. CASE Link(h) \/ Launch(h) \/ Attach(h) \/ Exit(h) \/ Throttle(h)
  <2>1. /\ Carried /\ task[h].pc \in Opened \ {"finalize"} /\ task'[h].pc \in InSession
        /\ task'[h].pc \in Launched => Launch(h) \/ task[h].pc \in Launched
    <3>1. CASE Link(h) \/ Launch(h) \/ Throttle(h)
      BY <1>0, <3>1 DEF Link, Launch, Throttle, At, Goto, Opened, InSession, Launched, Task
    <3>2. CASE Attach(h)
      BY <1>0, <3>2 DEF Attach, Unreported, At, Opened, InSession, Launched, Task
    <3>3. CASE Exit(h)
      BY <1>0, <3>3 DEF Exit, At, Opened, InSession, Launched, Task
    <3> QED BY <1>8, <3>1, <3>2, <3>3
  <2>2. task[h].upd \in Updates
    BY <2>1, OwnUpdate DEF Busy, Opened, InSession
  <2>3. Launch(h) => launched'[task[h].upd] = 1
    BY <2>2 DEF Launch, At, OnceOK, Unlaunched, TypeOK
  <2>4. task[h].pc \in Launched => launched'[task[h].upd] = 1
    BY <2>2, HistoryKept DEF HoldsOK, Holds
  <2> QED BY <2>1, <2>3, <2>4, HoldsMoved
<1>9. CASE Reply(h)
  <2>1. Carried /\ ((task[h].pc = "reply" /\ task'[h].pc = "done") \/ task'[h].pc \in Failing)
    BY <1>0, <1>9 DEF Reply, At, Goto, Failing, Task
  <2> QED BY <2>1, HoldsMoved
<1>10. CASE Raise(h)
  <2>1. Failed \/ Ended
    BY <1>0, <1>10 DEF Raise, ReplyRaises, SpawnRaises, LedgerRaises, WriteRaises, At, Goto,
                       Return, Failing, Task
  <2> QED BY <1>1, <2>1, HoldsMoved
<1> QED BY <1>2, <1>3, <1>4, <1>5, <1>6, <1>7, <1>8, <1>9, <1>10
        DEF Handler, Intake, Routing, Spawn, Ending

\* A handler's session is the one it held, none, or a row just inserted.
LEMMA OwnSession ==
    ASSUME TypeOK, QueueOK, NEW h \in Handlers, Handler(h)
    PROVE  \/ task'[h].sess \in {0, task[h].sess}
           \/ task'[h].sess = NextSession /\ Opens(h)
<1>0. task \in [Handlers -> Task] /\ task[h] \in Task
  BY HandlerTypes
<1> USE DEF Goto, Return, Idle, Task
<1>1. CASE Intake(h) \/ Slash(h) \/ Ending(h)
  BY <1>0, <1>1 DEF Intake, Reject, Receive, Upsert, Insert, Skip, Slash, SlashEnds,
                    SlashReads, Ending, Reply, Settle
<1>2. CASE Routing(h)
  BY <1>0, <1>2 DEF Routing, Classify, Lookup, NewEngagement, Join, Route
<1>3. CASE Spawn(h)
  <2>1. CASE Create(h)
    BY <1>0, <2>1 DEF Create, Opens, At
  <2>2. CASE Gate(h) \/ Link(h) \/ Launch(h) \/ Attach(h) \/ Throttle(h) \/ Finalize(h)
    BY <1>0, <2>2 DEF Gate, Link, Launch, Attach, Throttle, Finalize
  <2>3. CASE Exit(h)
    BY <1>0, <2>3 DEF Exit
  <2> QED BY <1>3, <2>1, <2>2, <2>3 DEF Spawn
<1>4. CASE Raise(h)
  BY <1>0, <1>4 DEF Raise, ReplyRaises, SpawnRaises, LedgerRaises, WriteRaises
<1> QED BY <1>1, <1>2, <1>3, <1>4 DEF Handler

LEMMA HoldsStep ==
    ASSUME Base, LinksOK, OnceOK, HoldsOK, LateOK, [Next]_vars
    PROVE  HoldsOK'
<1> USE DEF Base
<1>0. Grows
  BY TablesGrow
<1>a. \A k \in Handlers : task[k].sess # 0 => task[k].sess \in DOMAIN sessions
  BY DEF HoldsOK, Holds, InEngagement
<1>1. ASSUME NEW h \in Handlers, Handler(h) PROVE HoldsOK'
  <2>1. \A k \in Handlers \ {h} : task'[k] = task[k] /\ inbox' = inbox
    BY <1>1, Frame
  <2>2. Holds(h)'
    BY <1>0, <1>1, HoldsOwn
  <2>3. ASSUME NEW k \in Handlers, k # h PROVE Holds(k)'
    <3>1. \/ task[k].sess = 0 \/ task[k].pc = "failing"
          \/ sessions'[task[k].sess] = sessions[task[k].sess]
      BY <1>1, <1>a, <2>3, OtherSessions DEF HoldsOK
    <3> QED BY <1>0, <2>1, <2>3, <3>1, HoldsFrozen
  <2>4. ASSUME NEW i \in Handlers, NEW k \in Handlers, i # k, task'[i].sess # 0
        PROVE  task'[i].sess # task'[k].sess
    <3>1. CASE task'[h].sess \in {0, task[h].sess}
      BY <2>1, <2>4, <3>1 DEF HoldsOK
    <3>2. CASE task'[h].sess = NextSession /\ Opens(h)
      <4>1. NextSession \notin DOMAIN sessions /\ NextSession # 0
        BY <3>2, HandlerTypes, SessionOpened DEF Opens
      <4> QED BY <1>a, <2>1, <2>4, <3>2, <4>1 DEF HoldsOK
    <3> QED BY <1>1, <3>1, <3>2, OwnSession
  <2> QED BY <2>2, <2>3, <2>4 DEF HoldsOK
<1>2. CASE Crash
  <2>1. \A k \in Handlers : task'[k] = Idle
    BY <1>2 DEF Crash
  <2>2. Idle.pc \in Before /\ Idle.eng = 0 /\ Idle.cur = 0 /\ Idle.resume = 0 /\ Idle.sess = 0
    BY DEF Idle, Before
  <2>3. \A k \in Handlers : Holds(k)'
    BY <2>1, <2>2, FreshHolds
  <2> QED BY <2>1, <2>2, <2>3 DEF HoldsOK
<1>3. ASSUME UNCHANGED <<task, inbox>>,
             \A k \in Handlers : \/ task[k].sess = 0 \/ task[k].pc = "failing"
                                 \/ sessions'[task[k].sess] = sessions[task[k].sess]
      PROVE  HoldsOK'
  <2>1. \A k \in Handlers : Holds(k)'
    BY <1>0, <1>3, HoldsFrozen
  <2> QED BY <1>3, <2>1 DEF HoldsOK
<1>4. CASE LateAttach
  <2>1. PICK r \in readers : \E id \in ClaudeIds(r) : AttachClaude(r.sess, id)
    BY <1>4 DEF LateAttach
  <2>2. ASSUME NEW k \in Handlers
        PROVE  \/ task[k].sess = 0 \/ task[k].pc = "failing"
               \/ sessions'[task[k].sess] = sessions[task[k].sess]
    BY <1>a, <2>1, SessionAttached DEF LateOK
  <2>3. UNCHANGED <<task, inbox>>
    BY <1>4 DEF LateAttach, telegram
  <2> QED BY <1>3, <2>2, <2>3
<1>5. CASE Poll \/ Boot \/ Signal \/ StopPolling \/ Stopped \/ Close \/ Elapse \/ UNCHANGED vars
  <2>1. UNCHANGED <<task, inbox, sessions>>
    BY <1>5 DEF Poll, Boot, Signal, StopPolling, Stopped, Close, Elapse, Expire, vars, ledger,
                tables, telegram
  <2> QED BY <1>3, <2>1
<1> QED BY <1>1, <1>2, <1>4, <1>5 DEF Next, LifeCycle

-----------------------------------------------------------------------------
(* Readers that outlived their spawn *)

LEMMA FailingEnds ==
    ASSUME TypeOK, NEW h \in Handlers, Handler(h), task[h].pc = "failing"
    PROVE  task'[h] = Idle
<1>0. task \in [Handlers -> Task]
  BY DEF TypeOK
<1> USE DEF At
<1>1. CASE Settle(h) \/ LedgerRaises(h)
  BY <1>0, <1>1 DEF Settle, LedgerRaises, Return
<1>2. ~ (Intake(h) \/ Routing(h) \/ Slash(h) \/ Reply(h))
  BY DEF Intake, Reject, Receive, Dequeue, Upsert, Insert, Skip, Routing, Classify, Lookup,
         NewEngagement, Join, Route, Slash, SlashEnds, SlashReads, Reply
<1>3. ~ (Spawn(h) \/ ReplyRaises(h) \/ SpawnRaises(h) \/ WriteRaises(h))
  BY DEF Spawn, Gate, Create, Link, Launch, Attach, Exit, Throttle, Finalize, ReplyRaises,
         SpawnRaises, Unreported, WriteRaises
<1> QED BY <1>1, <1>2, <1>3 DEF Handler, Ending, Raise

\* What a step may do to a reader's session and to its handler.
LEMMA ReaderKept ==
    ASSUME Base, HoldsOK, LateOK, [Next]_vars, NEW r \in readers
    PROVE  /\ r.sess \in DOMAIN sessions' /\ sessions'[r.sess].status \in Open
           /\ r.resume # 0 => r.resume \in DOMAIN sessions'
                                /\ sessions'[r.resume].eng = sessions'[r.sess].eng
           /\ \A h \in Handlers : task'[h].sess = r.sess => task'[h].pc = "failing"
<1> USE DEF Base
<1>0. Grows
  BY TablesGrow
<1>1. /\ r.sess \in DOMAIN sessions /\ sessions[r.sess].status \in Open
      /\ r.resume # 0 => r.resume \in DOMAIN sessions
                           /\ sessions[r.resume].eng = sessions[r.sess].eng
      /\ \A h \in Handlers : task[h].sess = r.sess => task[h].pc = "failing"
  BY DEF LateOK
<1>2. sessions'[r.sess].status \in Open
  BY <1>1, SessionsKept DEF Finalizes, At
<1>3. ASSUME NEW k \in Handlers, task'[k].sess = r.sess PROVE task'[k].pc = "failing"
  <2>0. 0 \notin DOMAIN sessions /\ Idle.sess = 0
    BY RowTypes DEF SessIds, Idle
  <2>1. ASSUME NEW h \in Handlers, Handler(h) PROVE task'[k].pc = "failing"
    <3>1. CASE k # h
      BY <1>1, <1>3, <2>1, <3>1, Frame
    <3>2. CASE k = h /\ task'[h].sess \in {0, task[h].sess}
      BY <1>1, <1>3, <2>0, <2>1, <3>2, FailingEnds
    <3>3. CASE k = h /\ task'[h].sess = NextSession /\ Opens(h)
      <4>1. NextSession \notin DOMAIN sessions
        BY <3>3, HandlerTypes, SessionOpened DEF Opens
      <4> QED BY <1>1, <1>3, <3>3, <4>1
    <3> QED BY <2>1, <3>1, <3>2, <3>3, OwnSession
  <2>2. CASE Crash
    BY <1>1, <1>3, <2>0, <2>2 DEF Crash
  <2>3. CASE task' = task
    BY <1>1, <1>3, <2>3
  <2> QED BY <2>1, <2>2, <2>3 DEF Next, LifeCycle, Poll, Boot, Signal, StopPolling, Stopped,
                                  Close, Elapse, LateAttach, vars
<1> QED BY <1>0, <1>1, <1>2, <1>3 DEF Grows

LEMMA LateStep ==
    ASSUME Base, HoldsOK, LateOK, [Next]_vars
    PROVE  LateOK'
<1> USE DEF Base
<1>1. CASE readers' \subseteq readers
  BY <1>1, ReaderKept DEF LateOK
<1>2. ASSUME NEW h \in Handlers, Unreported(h), readers' = readers \union {Reader(h)},
             Goto(h, "failing"), Handler(h), UNCHANGED sessions
      PROVE  LateOK'
  <2>1. Holds(h) /\ task[h].pc = "running"
    BY <1>2 DEF HoldsOK, Unreported, At
  <2>2. /\ task[h].sess # 0 /\ InEngagement(h, task[h].sess)
        /\ sessions[task[h].sess].status \in Open
        /\ task[h].resume # 0 => InEngagement(h, task[h].resume)
    BY <2>1 DEF Holds, Opened, InSession
  <2>3. /\ \A k \in Handlers \ {h} : task'[k] = task[k]
        /\ task'[h].pc = "failing"
    BY <1>2, HandlerTypes, Frame DEF Goto, Task
  <2>4. \A k \in Handlers : task'[k].sess = task[h].sess => task'[k].pc = "failing"
    BY <2>2, <2>3 DEF HoldsOK
  <2>5. Reader(h).sess = task[h].sess /\ Reader(h).resume = task[h].resume
    BY DEF Reader
  <2>6. \A r \in readers :
          /\ r.sess \in DOMAIN sessions' /\ sessions'[r.sess].status \in Open
          /\ r.resume # 0 => r.resume \in DOMAIN sessions'
                               /\ sessions'[r.resume].eng = sessions'[r.sess].eng
          /\ \A k \in Handlers : task'[k].sess = r.sess => task'[k].pc = "failing"
    BY ReaderKept
  <2> QED BY <1>2, <2>2, <2>4, <2>5, <2>6 DEF LateOK, InEngagement
<1>3. ASSUME NEW h \in Handlers, Handler(h)
      PROVE  \/ readers' = readers
             \/ /\ Unreported(h) /\ readers' = readers \union {Reader(h)}
                /\ Goto(h, "failing") /\ UNCHANGED sessions
  <2> USE DEF daemon, ledger, tables
  <2>1. CASE Intake(h) \/ Routing(h) \/ Slash(h) \/ Ending(h)
    BY <2>1 DEF Intake, Reject, Receive, Upsert, Insert, Skip, Routing, Classify, Lookup,
                NewEngagement, Join, Route, Slash, SlashEnds, SlashReads, Ending, Reply, Settle
  <2>2. CASE Spawn(h) \/ Raise(h)
    BY <2>2 DEF Spawn, Gate, Create, Link, Launch, Attach, Exit, Throttle, Finalize, Raise,
                ReplyRaises, SpawnRaises, LedgerRaises, WriteRaises
  <2> QED BY <1>3, <2>1, <2>2 DEF Handler
<1>4. CASE Poll \/ LifeCycle \/ Elapse \/ LateAttach \/ UNCHANGED vars
  BY <1>1, <1>4 DEF Poll, LifeCycle, Boot, Signal, StopPolling, Stopped, Close, Crash, Elapse,
                    LateAttach, vars, daemon
<1> QED BY <1>1, <1>2, <1>3, <1>4 DEF Next

-----------------------------------------------------------------------------
(* What a step does to the message rows *)

Inserts(h) == /\ At(h, "insert") /\ ~ IsReplay(Mid(h))
              /\ InsertMessage(Mid(h), task[h].upd)
Marks(h) == Classify(h) \/ Route(h) \/ Link(h) \/ Settle(h)

LEMMA HandlerMarks ==
    ASSUME NEW h \in Handlers, Handler(h)
    PROVE  messages' = messages \/ Inserts(h) \/ Marks(h)
<1> USE DEF ledger, tables, Marks
<1>1. CASE Intake(h)
  BY <1>1 DEF Intake, Reject, Receive, Upsert, UpsertOperator, Insert, Inserts, Skip
<1>2. CASE Routing(h) \/ Slash(h)
  BY <1>2 DEF Routing, Lookup, NewEngagement, CreateEngagement, Join, Slash, SlashEnds,
              EndEngagement, SlashReads
<1>3. CASE Spawn(h)
  BY <1>3 DEF Spawn, Gate, Create, CreateSession, InsertSession, Launch, Attach, AttachClaude,
              Exit, Throttle, Finalize, FinalizeSession
<1>4. CASE Ending(h)
  BY <1>4 DEF Ending, Reply
<1>5. CASE Raise(h)
  BY <1>5 DEF Raise, ReplyRaises, SpawnRaises, LedgerRaises, WriteRaises, UpsertOperator,
              Inserts, CreateEngagement, CreateSession, HalfSession, InsertSession
<1> QED BY <1>1, <1>2, <1>3, <1>4, <1>5 DEF Handler

LEMMA MarkOwned ==
    ASSUME Base, RowsOK, NEW h \in Handlers, Marks(h)
    PROVE  /\ Owns(h) /\ Mid(h) \in MsgIds
           /\ \E st \in Unsettled \union Settled, e \in Nat, s \in Nat :
                UpdateMessage(Mid(h), st, e, s)
<1>1. Owns(h)
  BY DEF Marks, Classify, Route, Link, Settle, At, Owns, Before
<1>2. task[h].eng \in Nat /\ task[h].sess \in Nat
  BY HandlerTypes DEF Base
<1>3. \E st \in Unsettled \union Settled, e \in Nat, s \in Nat : UpdateMessage(Mid(h), st, e, s)
  BY <1>2 DEF Marks, Classify, Route, Link, Settle, Verdict, Unsettled, Pending, Settled
<1> QED BY <1>1, <1>3, OwnerFacts

LEMMA RowMarked ==
    ASSUME Base, NEW m \in MsgIds, NEW st, NEW e, NEW s, UpdateMessage(m, st, e, s)
    PROVE  /\ \A n \in MsgIds \ {m} : messages'[n] = messages[n]
           /\ messages'[m].status = st /\ messages'[m].upd = messages[m].upd
           /\ messages'[m].eng = Coalesce(e, messages[m].eng)
           /\ messages'[m].sess = Coalesce(s, messages[m].sess)
<1>1. messages \in [MsgIds -> Row]
  BY DEF Base, TypeOK
<1> QED BY <1>1 DEF UpdateMessage, Row

LEMMA RowInserted ==
    ASSUME Base, RowsOK, NEW h \in Handlers, Inserts(h)
    PROVE  /\ Mid(h) \in MsgIds /\ messages[Mid(h)].status = "absent"
           /\ \A n \in MsgIds \ {Mid(h)} : messages'[n] = messages[n]
           /\ messages'[Mid(h)].status = "received" /\ messages'[Mid(h)].upd = task[h].upd
           /\ messages'[Mid(h)].sess = 0
<1>1. messages \in [MsgIds -> Row]
  BY DEF Base, TypeOK
<1>2. Mid(h) \in MsgIds
  BY OwnUpdate DEF Inserts, At, Busy, Base
<1> QED BY <1>1, <1>2 DEF Inserts, InsertMessage, IsReplay

\* A step of h leaves the rows that other handlers own alone.
LEMMA OtherRows ==
    ASSUME Base, RowsOK, NEW h \in Handlers, Handler(h), NEW k \in Handlers, k # h, Owns(k)
    PROVE  messages'[Mid(k)] = messages[Mid(k)]
<1>0. Mid(k) \in MsgIds /\ messages[Mid(k)].status # "absent"
  BY OwnerFacts DEF RowOf, Unsettled, Pending
<1>1. CASE messages' = messages
  BY <1>1
<1>2. CASE Inserts(h)
  BY <1>0, <1>2, RowInserted
<1>3. CASE Marks(h)
  <2>1. Mid(h) # Mid(k)
    BY <1>3, MarkOwned, DistinctRows
  <2> QED BY <1>0, <1>3, <2>1, MarkOwned, RowMarked
<1> QED BY <1>1, <1>2, <1>3, HandlerMarks

\* Only an unsettled row is written, and only settling it makes it settled.
LEMMA RowsSettle ==
    ASSUME Base, RowsOK, [Next]_vars, NEW m \in MsgIds
    PROVE  \/ messages'[m] = messages[m]
           \/ /\ messages[m].status \notin Settled
              /\ \/ messages'[m].status \notin Settled
                 \/ \E h \in Handlers : Settle(h) /\ m = Mid(h)
<1> USE DEF ledger, tables
<1>1. ASSUME NEW h \in Handlers, Handler(h)
      PROVE  \/ messages'[m] = messages[m]
             \/ /\ messages[m].status \notin Settled
                /\ messages'[m].status \notin Settled \/ (Settle(h) /\ m = Mid(h))
  <2>1. CASE messages' = messages
    BY <2>1
  <2>2. CASE Inserts(h)
    BY <2>2, RowInserted DEF Settled
  <2>3. CASE Marks(h)
    <3>1. Owns(h) /\ Mid(h) \in MsgIds /\ messages[Mid(h)].status \notin Settled
      BY <2>3, MarkOwned, OwnerFacts DEF RowOf, Unsettled, Pending, Settled
    <3>2. CASE m # Mid(h)
      BY <2>3, <3>2, MarkOwned, RowMarked
    <3>3. CASE m = Mid(h) /\ ~ Settle(h)
      <4>1. \E st \in Unsettled, e \in Nat, s \in Nat : UpdateMessage(m, st, e, s)
        BY <2>3, <3>3, HandlerTypes DEF Marks, Classify, Route, Link, Unsettled, Pending, Base
      <4> QED BY <3>1, <3>3, <4>1, RowMarked DEF Unsettled, Pending, Settled
    <3> QED BY <3>1, <3>2, <3>3
  <2> QED BY <1>1, <2>1, <2>2, <2>3, HandlerMarks
<1>2. CASE Poll \/ LifeCycle \/ Elapse \/ LateAttach \/ UNCHANGED vars
  BY <1>2 DEF Poll, LifeCycle, Boot, Signal, StopPolling, Stopped, Close, Crash, Elapse, Expire,
              LateAttach, AttachClaude, vars
<1> QED BY <1>1, <1>2 DEF Next

-----------------------------------------------------------------------------
(* The rows of the handlers *)

LEMMA TracedKept ==
    ASSUME NEW k \in Handlers, Traced(k), inbox' = inbox, task'[k].upd = task[k].upd,
           messages'[Mid(k)] = messages[Mid(k)],
           task'[k].pc \in (Placed \ {"route"}) \union Replying \union {"refuse"} =>
               /\ task[k].pc \in (Placed \ {"route"}) \union Replying \union {"refuse"}
               /\ task'[k].eng = task[k].eng,
           task'[k].pc \in Replying \union InSession =>
               IF task[k].pc \in Replying \union InSession
               THEN task'[k].sess = task[k].sess
               ELSE task'[k].sess = 0 /\ task[k].pc \in Unlaunched \ {"spawn"},
           task'[k].pc \in Unlaunched \ {"spawn"} => task[k].pc \in Unlaunched \ {"spawn"}
    PROVE  Traced(k)'
<1>1. RowOf(k)' = RowOf(k)
  BY DEF RowOf, Mid
<1> QED BY <1>1 DEF Traced

LEMMA Untraced ==
    ASSUME NEW h \in Handlers, task'[h].pc \in Before \union Failing
    PROVE  Traced(h)'
BY DEF Traced, Before, Failing, Placed, Replying, InSession, Unlaunched

\* Each await of a handler finds its row as the steps before left it.
LEMMA TracedOwn ==
    ASSUME Base, RowsOK, HoldsOK, TracedOK, NEW h \in Handlers, Handler(h)
    PROVE  Traced(h)'
<1> USE DEF Base
<1>0. /\ task \in [Handlers -> Task] /\ task[h] \in Task /\ inbox' = inbox
      /\ Traced(h) /\ Holds(h)
  BY Frame, HandlerTypes DEF TracedOK, HoldsOK
<1>1. CASE Reject(h)
  BY <1>0, <1>1, Untraced DEF Reject, Dequeue, At, Before
<1>2. CASE Receive(h) \/ Upsert(h) \/ Skip(h) \/ Settle(h)
  <2>1. task'[h].pc \in Before
    BY <1>0, <1>2 DEF Receive, Upsert, Skip, Settle, Goto, Return, Idle, Before, Task
  <2> QED BY <2>1, Untraced
<1>3. CASE Raise(h)
  <2>1. task'[h].pc \in Before \union Failing
    BY <1>0, <1>3 DEF Raise, ReplyRaises, SpawnRaises, LedgerRaises, WriteRaises, Goto, Return,
                      Idle, Before, Failing, Task
  <2> QED BY <2>1, Untraced
<1>4. CASE Lookup(h) \/ NewEngagement(h) \/ Join(h)
  <2>1. /\ task'[h].upd = task[h].upd
        /\ task[h].pc \in {"lookup", "resolve"} /\ task'[h].pc \in {"resolve", "route"}
    <3>1. CASE Lookup(h)
      BY <1>0, <3>1 DEF Lookup, At, Task
    <3>2. CASE NewEngagement(h) \/ Join(h)
      BY <1>0, <3>2 DEF NewEngagement, Join, At, Task
    <3> QED BY <1>4, <3>1, <3>2
  <2>2. messages'[Mid(h)] = messages[Mid(h)]
    BY <1>4 DEF Lookup, NewEngagement, CreateEngagement, Join, ledger, tables
  <2>3. /\ task'[h].pc \notin (Placed \ {"route"}) \union Replying \union {"refuse"}
        /\ task'[h].pc \notin Replying \union InSession
        /\ task[h].pc \in Unlaunched \ {"spawn"}
    BY <2>1 DEF Placed, Replying, InSession, Unlaunched
  <2> QED BY <1>0, <2>1, <2>2, <2>3, TracedKept
<1>5. CASE Slash(h) \/ Gate(h) \/ Create(h)
  <2>1. /\ task'[h].upd = task[h].upd /\ task'[h].eng = task[h].eng
        /\ task[h].pc \in {"slash", "gate", "create"}
        /\ task'[h].pc \in {"reply", "create", "refuse", "link"}
        /\ task'[h].pc = "reply" => task'[h].sess = task[h].sess
    BY <1>0, <1>5 DEF Slash, SlashEnds, SlashReads, Gate, Create, Goto, At, Task
  <2>2. messages'[Mid(h)] = messages[Mid(h)]
    BY <1>5 DEF Slash, SlashEnds, EndEngagement, SlashReads, Gate, Create, CreateSession,
                InsertSession, ledger, tables
  <2>3. task[h].sess = 0
    BY <1>0, <2>1 DEF Holds, Unlaunched
  <2>4. /\ task[h].pc \in (Placed \ {"route"}) \union Replying \union {"refuse"}
        /\ task[h].pc \notin Replying \union InSession
        /\ task'[h].pc \in Replying \union InSession => task'[h].pc = "reply"
        /\ task[h].pc \in Unlaunched \ {"spawn"}
    BY <2>1 DEF Placed, Replying, InSession, Unlaunched
  <2> QED BY <1>0, <2>1, <2>2, <2>3, <2>4, TracedKept
<1>6. CASE Launch(h) \/ Attach(h) \/ Exit(h) \/ Throttle(h) \/ Finalize(h) \/ Reply(h)
  <2>1. /\ task'[h].upd = task[h].upd /\ task'[h].eng = task[h].eng
        /\ task'[h].sess = task[h].sess
        /\ \/ task[h].pc \in {"reply"} \union InSession
              /\ task'[h].pc \in {"running", "throttle", "finalize", "reply", "done"}
           \/ task'[h].pc \in Failing
    <3>1. CASE Attach(h)
      BY <1>0, <3>1 DEF Attach, Unreported, At, InSession
    <3>2. CASE Launch(h) \/ Throttle(h) \/ Finalize(h) \/ Reply(h)
      BY <1>0, <3>2 DEF Launch, Throttle, Finalize, Reply, Goto, At, InSession, Failing, Task
    <3>3. CASE Exit(h)
      BY <1>0, <3>3 DEF Exit, At, InSession, Task
    <3> QED BY <1>6, <3>1, <3>2, <3>3
  <2>2. messages'[Mid(h)] = messages[Mid(h)]
    BY <1>6 DEF Launch, Attach, AttachClaude, Exit, Throttle, Finalize, FinalizeSession, Reply,
                ledger, tables
  <2>3. CASE task'[h].pc \in Failing
    BY <2>3, Untraced
  <2>4. CASE /\ task[h].pc \in {"reply"} \union InSession
             /\ task'[h].pc \in {"running", "throttle", "finalize", "reply", "done"}
    <3>1. /\ task[h].pc \in (Placed \ {"route"}) \union Replying \union {"refuse"}
          /\ task[h].pc \in Replying \union InSession
          /\ task'[h].pc \notin Unlaunched \ {"spawn"}
      BY <2>4 DEF Placed, Replying, InSession, Unlaunched
    <3> QED BY <1>0, <2>1, <2>2, <3>1, TracedKept
  <2> QED BY <2>1, <2>3, <2>4
<1>7. CASE Insert(h)
  <2>1. messages'[Mid(h)].sess = 0
    BY <1>7, RowInserted DEF Insert, Inserts
  <2>2. task'[h].pc = "classify" /\ task'[h].upd = task[h].upd
    BY <1>0, <1>7 DEF Insert, Goto, Task
  <2>3. RowOf(h)' = messages'[Mid(h)]
    BY <1>0, <2>2 DEF RowOf, Mid
  <2> QED BY <2>1, <2>2, <2>3 DEF Traced, Placed, Replying, InSession
<1>8. CASE Classify(h) \/ Route(h) \/ Link(h)
  <2>0. Mid(h) \in MsgIds
    BY <1>8, MarkOwned DEF Marks
  <2>1. /\ task'[h].upd = task[h].upd /\ task'[h].eng = task[h].eng
        /\ task'[h].sess = task[h].sess
    BY <1>0, <1>8 DEF Classify, Route, Link, Goto, Task
  <2>2. RowOf(h)' = messages'[Mid(h)]
    BY <1>0, <2>1 DEF RowOf, Mid
  <2>3. CASE Classify(h)
    <3>1. /\ messages'[Mid(h)].sess = messages[Mid(h)].sess
          /\ task[h].pc = "classify" /\ task'[h].pc = "lookup"
      BY <1>0, <2>0, <2>3, RowMarked DEF Classify, Coalesce, At, Goto, Task
    <3>2. messages[Mid(h)].sess = 0
      BY <1>0, <3>1 DEF Traced, Unlaunched, RowOf
    <3> QED BY <2>2, <3>1, <3>2 DEF Traced, Placed, Replying, InSession
  <2>4. CASE Route(h)
    <3>1. /\ messages'[Mid(h)].status = "routed" /\ task[h].pc = "route"
          /\ messages'[Mid(h)].eng = Coalesce(task[h].eng, messages[Mid(h)].eng)
          /\ messages'[Mid(h)].sess = Coalesce(0, messages[Mid(h)].sess)
          /\ task'[h].pc \in {"slash", "gate"}
      BY <1>0, <2>0, <2>4, RowMarked DEF Route, At, Goto, Task
    <3>2. task[h].eng # 0 /\ messages[Mid(h)].sess = 0
      BY <1>0, <3>1 DEF Holds, Placed, Traced, Unlaunched, RowOf
    <3> QED BY <2>1, <2>2, <3>1, <3>2 DEF Traced, Replying, InSession, Coalesce
  <2>5. CASE Link(h)
    <3>1. /\ messages'[Mid(h)].status = "routed" /\ task[h].pc = "link"
          /\ messages'[Mid(h)].eng = Coalesce(0, messages[Mid(h)].eng)
          /\ messages'[Mid(h)].sess = Coalesce(task[h].sess, messages[Mid(h)].sess)
          /\ task'[h].pc = "spawn"
      BY <1>0, <2>0, <2>5, RowMarked DEF Link, At, Goto, Task
    <3>2. task[h].sess # 0 /\ messages[Mid(h)].eng = task[h].eng
      BY <1>0, <3>1 DEF Holds, Opened, Traced, Placed, RowOf
    <3> QED BY <2>1, <2>2, <3>1, <3>2 DEF Traced, Coalesce
  <2> QED BY <1>8, <2>3, <2>4, <2>5
<1> QED BY <1>1, <1>2, <1>3, <1>4, <1>5, <1>6, <1>7, <1>8
        DEF Handler, Intake, Routing, Spawn, Ending

LEMMA TracedStep ==
    ASSUME Base, RowsOK, HoldsOK, TracedOK, [Next]_vars
    PROVE  TracedOK'
<1> USE DEF Base, ledger, tables
<1>0. SessIds \subseteq SessIds'
  <2>1. sessions \in Seq(Session) /\ sessions' \in Seq(Session) /\ Grows
    BY TypeStep, TablesGrow DEF TypeOK
  <2>2. 1..Len(sessions) \subseteq 1..Len(sessions')
    BY <2>1, LenProperties DEF Grows
  <2> QED BY <2>1, <2>2, LenProperties DEF SessIds
<1>1. ASSUME NEW h \in Handlers, Handler(h) PROVE TracedOK'
  <2>1. \A k \in Handlers \ {h} : task'[k] = task[k] /\ inbox' = inbox
    BY <1>1, Frame
  <2>2. Traced(h)'
    BY <1>1, TracedOwn
  <2>3. ASSUME NEW k \in Handlers, k # h PROVE Traced(k)'
    <3>1. CASE ~ Owns(k)
      BY <2>1, <2>3, <3>1, Untraced DEF Owns
    <3>2. CASE Owns(k)
      <4>1. messages'[Mid(k)] = messages[Mid(k)]
        BY <1>1, <2>3, <3>2, OtherRows
      <4>2. Traced(k) /\ Mid(k)' = Mid(k)
        BY <2>1, <2>3 DEF TracedOK, Mid
      <4> QED BY <2>1, <2>3, <4>1, <4>2 DEF Traced, RowOf
    <3> QED BY <3>1, <3>2
  <2>4. ASSUME NEW m \in MsgIds PROVE messages'[m].sess \in SessIds'
    <3>0. messages[m].sess \in SessIds /\ 0 \in SessIds
      BY RowTypes DEF TracedOK, SessIds
    <3>1. task[h].sess \in SessIds
      BY <3>0, RowTypes DEF HoldsOK, Holds, InEngagement
    <3>2. CASE Inserts(h)
      BY <1>0, <3>0, <3>2, RowInserted
    <3>3. CASE Marks(h)
      <4>1. PICK st, e : \E s \in {0, task[h].sess} : UpdateMessage(Mid(h), st, e, s)
        BY <3>3 DEF Marks, Classify, Route, Link, Settle
      <4>a. PICK s \in {0, task[h].sess} : UpdateMessage(Mid(h), st, e, s)
        BY <4>1
      <4>2. CASE m = Mid(h)
        <5>1. messages'[m].sess = Coalesce(s, messages[m].sess)
          BY <4>a, <4>2, RowMarked
        <5> QED BY <1>0, <3>0, <3>1, <4>a, <5>1 DEF Coalesce
      <4>3. CASE m # Mid(h)
        BY <1>0, <3>0, <3>3, <4>a, <4>3, MarkOwned, RowMarked
      <4> QED BY <4>2, <4>3
    <3> QED BY <1>0, <1>1, <3>0, <3>2, <3>3, HandlerMarks
  <2> QED BY <2>2, <2>3, <2>4 DEF TracedOK
<1>2. CASE Poll \/ LifeCycle \/ Elapse \/ LateAttach \/ UNCHANGED vars
  <2>1. UNCHANGED <<messages, inbox>>
    BY <1>2 DEF Poll, LifeCycle, Boot, Signal, StopPolling, Stopped, Close, Crash, Elapse, Expire,
                LateAttach, AttachClaude, telegram, vars
  <2>2. \A k \in Handlers : task'[k] = task[k] \/ task'[k].pc \in Before
    BY <1>2 DEF Poll, LifeCycle, Boot, Signal, StopPolling, Stopped, Close, Crash, Idle, Before,
                Elapse, LateAttach, vars
  <2>3. ASSUME NEW k \in Handlers, task'[k] = task[k] PROVE Traced(k)'
    <3>1. RowOf(k)' = RowOf(k)
      BY <2>1, <2>3 DEF RowOf, Mid
    <3> QED BY <2>3, <3>1 DEF TracedOK, Traced
  <2> QED BY <1>0, <2>1, <2>2, <2>3, Untraced DEF TracedOK
<1> QED BY <1>1, <1>2 DEF Next

-----------------------------------------------------------------------------
(* Rows marked done *)

LEMMA HonestStep ==
    ASSUME IInv, [Next]_vars
    PROVE  HonestDone'
<1> USE DEF IInv
<1>1. SUFFICES ASSUME NEW m \in MsgIds, messages'[m].status = "done"
               PROVE  LET row == messages'[m] IN
                      /\ answered'[row.upd] = 1
                      /\ row.sess # 0 => /\ launched'[row.upd] = 1
                                         /\ sessions'[row.sess].status \in Final
  BY DEF HonestDone
<1>2. CASE messages'[m] = messages[m]
  <2>1. messages[m].upd \in Updates
    BY <1>1, <1>2 DEF RowsOK
  <2>2. messages[m].sess # 0 => messages[m].sess \in DOMAIN sessions
    BY RowTypes DEF TracedOK, Base
  <2>3. /\ answered[messages[m].upd] = 1
        /\ messages[m].sess # 0 => /\ launched[messages[m].upd] = 1
                                   /\ sessions[messages[m].sess].status \in Final
    BY <1>1, <1>2 DEF HonestDone
  <2> QED BY <1>2, <2>1, <2>2, <2>3, HistoryKept, SessionsKept
<1>3. ASSUME NEW h \in Handlers, Settle(h), m = Mid(h) PROVE
        LET row == messages'[m] IN
        /\ answered'[row.upd] = 1
        /\ row.sess # 0 => /\ launched'[row.upd] = 1
                           /\ sessions'[row.sess].status \in Final
  <2>1. /\ messages'[m].status = Verdict(task[h].pc)
        /\ messages'[m].upd = messages[m].upd /\ messages'[m].sess = messages[m].sess
        /\ UNCHANGED <<sessions, launched, answered>>
    <3>1. UpdateMessage(m, Verdict(task[h].pc), 0, 0) /\ UNCHANGED history
      BY <1>3 DEF Settle
    <3>2. sessions' = sessions
      BY <3>1 DEF UpdateMessage
    <3> QED BY <3>1, <3>2, RowMarked DEF Coalesce, history
  <2>2. task[h].pc = "done"
    BY <1>1, <2>1 DEF Verdict
  <2>3. messages[m].upd = task[h].upd /\ messages[m].sess = task[h].sess
    BY <1>3, <2>2, OwnerFacts DEF Owns, Before, RowOf, TracedOK, Traced, Replying
  <2>4. answered[task[h].upd] = 1
    BY <2>2 DEF OnceOK
  <2>5. task[h].sess # 0 => /\ launched[task[h].upd] = 1
                            /\ sessions[task[h].sess].status \in Final
    BY <2>2 DEF HoldsOK, Holds, Replying
  <2> QED BY <2>1, <2>3, <2>4, <2>5
<1> QED BY <1>1, <1>2, <1>3, RowsSettle DEF Settled

-----------------------------------------------------------------------------
(* The state machine and the handlers *)

LEMMA QuietStep ==
    ASSUME TypeOK, QuietOK, [Next]_vars
    PROVE  QuietOK'
<1> USE DEF daemon
<1>0. task \in [Handlers -> Task] /\ \A k \in Handlers : task[k] \in Task
  BY DEF TypeOK
<1> DEFINE Way == {"create", "link", "spawn", "running", "throttle"}
<1>1. ASSUME UNCHANGED <<stage, state>>, stage # "down" \/ task' = task,
             NEW h \in Handlers, \A k \in Handlers \ {h} : task'[k] = task[k],
             task'[h].pc \in Way => task[h].pc \in Way \/ state = "healthy"
      PROVE  QuietOK'
  BY <1>1 DEF QuietOK, Busy
<1>2. ASSUME NEW h \in Handlers, Handler(h) PROVE QuietOK'
  <2>1. \A k \in Handlers \ {h} : task'[k] = task[k]
    BY <1>2, Frame
  <2>2. stage # "down" \/ Reject(h)
    <3>1. Reject(h) \/ Receive(h) \/ Busy(h)
      BY <1>2, Frame DEF Works
    <3> QED BY <3>1 DEF QuietOK, Receive, Dequeue
  <2>3. CASE Throttle(h)
    <3>1. task[h].pc = "throttle" /\ stage' = stage /\ state' = NextState(state, "quota_throttled")
      BY <2>3 DEF Throttle, At
    <3>2. state' = "quota_throttled"
      BY <3>1 DEF QuietOK, NextState
    <3> QED BY <2>2, <2>3, <3>1, <3>2 DEF QuietOK, Throttle, Reject, Dequeue, At
  <2>4. CASE Gate(h)
    <3>1. /\ UNCHANGED <<stage, state>> /\ stage # "down"
          /\ task'[h].pc = "create" => state = "healthy"
          /\ task'[h].pc \in {"create", "refuse"}
      BY <1>0, <2>2, <2>4 DEF Gate, CanSpawn, Goto, At, Reject, Dequeue, Task
    <3> QED BY <1>1, <2>1, <3>1
  <2>5. CASE Intake(h) \/ Slash(h) \/ Ending(h)
    <3>1. UNCHANGED <<stage, state>> /\ task'[h].pc \notin Way
          /\ (stage # "down" \/ task' = task)
      BY <1>0, <2>2, <2>5 DEF Intake, Reject, Dequeue, At, Receive, Upsert, Insert, Skip, Slash,
                   SlashEnds, SlashReads, Ending, Reply, Settle, Goto, Return, Idle, Task
    <3> QED BY <1>1, <2>1, <3>1
  <2>6. CASE Routing(h)
    <3>1. UNCHANGED <<stage, state>> /\ task'[h].pc \notin Way
      <4>1. CASE Lookup(h)
        BY <1>0, <4>1 DEF Lookup, Task
      <4>2. CASE Classify(h) \/ NewEngagement(h) \/ Join(h) \/ Route(h)
        BY <1>0, <4>2 DEF Classify, NewEngagement, Join, Route, Goto, Task
      <4> QED BY <2>6, <4>1, <4>2 DEF Routing
    <3>2. stage # "down"
      BY <2>2, <2>6 DEF Routing, Classify, Lookup, NewEngagement, Join, Route, Reject, Dequeue, At
    <3> QED BY <1>1, <2>1, <3>1, <3>2
  <2>7. CASE Create(h) \/ Link(h) \/ Launch(h) \/ Attach(h) \/ Exit(h) \/ Finalize(h)
    <3>1. UNCHANGED <<stage, state>> /\ task[h].pc \in Way \union {"finalize"}
          /\ (task'[h].pc \in Way => task[h].pc \in Way)
      <4>1. CASE Exit(h)
        BY <1>0, <4>1 DEF Exit, At, Task
      <4>2. CASE Create(h) \/ Link(h) \/ Launch(h) \/ Attach(h) \/ Finalize(h)
        BY <1>0, <4>2 DEF Create, Link, Launch, Attach, Unreported, Finalize, Goto, At, Task
      <4> QED BY <2>7, <4>1, <4>2
    <3>2. stage # "down"
      BY <2>2, <3>1 DEF Reject, Dequeue, At
    <3> QED BY <1>1, <2>1, <3>1, <3>2
  <2>8. CASE Raise(h)
    <3>1. UNCHANGED <<stage, state>> /\ task'[h].pc \notin Way /\ Busy(h)
      BY <1>0, <2>8 DEF Raise, ReplyRaises, SpawnRaises, Unreported, LedgerRaises, WriteRaises,
                        Goto, Return, Idle, At, Busy, Task
    <3>2. stage # "down"
      BY <3>1 DEF QuietOK
    <3> QED BY <1>1, <2>1, <3>1, <3>2
  <2> QED BY <1>2, <2>3, <2>4, <2>5, <2>6, <2>7, <2>8 DEF Handler, Spawn
<1>3. CASE Boot
  BY <1>3 DEF Boot, QuietOK, Busy
<1>4. CASE Signal \/ StopPolling
  BY <1>4 DEF Signal, StopPolling, NextState, QuietOK, Busy
<1>5. CASE Stopped \/ Crash
  BY <1>5 DEF Stopped, Free, At, Crash, Idle, QuietOK, Busy
<1>6. CASE Poll \/ Close \/ Elapse \/ LateAttach \/ UNCHANGED vars
  <2>1. UNCHANGED <<stage, state, task>>
    BY <1>6 DEF Poll, Close, Elapse, LateAttach, vars
  <2> QED BY <2>1 DEF QuietOK, Busy
<1> QED BY <1>2, <1>3, <1>4, <1>5, <1>6 DEF Next, LifeCycle

-----------------------------------------------------------------------------
(* The whole invariant *)

LEMMA InvInit == Init => IInv
<1> SUFFICES ASSUME Init PROVE IInv
  OBVIOUS
<1>1. Base /\ RowsOK /\ OnceOK
  BY BaseInit, OnceInit
<1>2. engagements = <<>> /\ sessions = <<>> /\ readers = {} /\ task = [h \in Handlers |-> Idle]
  BY DEF Init, LedgerInit
<1>3. DOMAIN engagements = {} /\ DOMAIN sessions = {} /\ 0 \in SessIds
  BY <1>1, <1>2, RowTypes, EmptySeq DEF Base, EngIds, SessIds
<1>4. LinksOK /\ LateOK
  BY <1>2, <1>3 DEF LinksOK, OwnConversation, LateOK
<1>5. HoldsOK
  BY <1>2 DEF HoldsOK, Holds, Idle, Before, Fresh, Placed, Opened, InSession, Replying, Launched,
              Unlaunched
<1>6. TracedOK /\ HonestDone
  BY <1>2, <1>3 DEF Init, LedgerInit, NoRow, TracedOK, Traced, HonestDone, Idle, Placed,
                    Replying, InSession, Unlaunched
<1>7. QuietOK
  BY <1>2 DEF Init, QuietOK, Busy, Idle
<1> QED BY <1>1, <1>4, <1>5, <1>6, <1>7 DEF IInv

LEMMA InvStep == IInv /\ [Next]_vars => IInv'
BY TypeStep, QueueStep, RefsStep, RowsStep, OnceStep, LinksStep, HoldsStep, LateStep, TracedStep,
   HonestStep, QuietStep
   DEF IInv, Base

-----------------------------------------------------------------------------
(* What follows, for any number of concurrent handlers *)

\* The inductive invariant holds in every reachable state: who owns which row,
\* what was done for it, how engagements, sessions, rows, handlers and the
\* readers left behind point at each other, and what runs in which state of
\* the daemon.
THEOREM InvCorrect == Spec => []IInv
BY InvInit, InvStep, PTL DEF Spec

\* While claude runs, the ledger already ties its message to an open session of
\* an engagement of the operator who wrote it.
THEOREM LedgerCorrect == Spec => []LedgerBeforeClaude
<1>1. IInv => LedgerBeforeClaude
  <2>1. SUFFICES ASSUME IInv, NEW h \in Handlers, task[h].pc = "running"
                 PROVE  LET row == messages[Mid(h)] IN
                        /\ row.status = "routed" /\ row.upd = task[h].upd
                        /\ row.sess \in DOMAIN sessions
                        /\ sessions[row.sess].status \in Open
                        /\ sessions[row.sess].eng = row.eng
                        /\ row.eng \in DOMAIN engagements
                        /\ engagements[row.eng].operator = Chat(h)
    BY DEF LedgerBeforeClaude, Running, At
  <2>2. /\ task[h].eng # 0 /\ task[h].sess # 0 /\ InEngagement(h, task[h].sess)
        /\ task[h].eng \in DOMAIN engagements
        /\ engagements[task[h].eng].operator = Chat(h)
        /\ sessions[task[h].sess].status \in Open
    BY <2>1 DEF IInv, HoldsOK, Holds, Placed, Opened, InSession
  <2>3. RowOf(h).status = "routed" /\ RowOf(h).eng = task[h].eng /\ RowOf(h).sess = task[h].sess
    BY <2>1 DEF IInv, TracedOK, Traced, Placed, InSession
  <2>4. RowOf(h).upd = task[h].upd
    BY <2>1 DEF IInv, RowsOK, Owns, Before
  <2> QED BY <2>2, <2>3, <2>4 DEF RowOf, InEngagement
<1> QED BY <1>1, InvCorrect, PTL

\* A claude conversation is never resumed outside the engagement it began in.
THEOREM ConversationCorrect == Spec => []OwnConversation
<1>1. IInv => OwnConversation
  BY DEF IInv, LinksOK
<1> QED BY <1>1, InvCorrect, PTL

\* A row marked done tells the truth: the operator has the reply, and the
\* session opened for it, if any, ran and is final.
THEOREM HonestCorrect == Spec => []HonestDone
<1>1. IInv => HonestDone
  BY DEF IInv
<1> QED BY <1>1, InvCorrect, PTL

\* Once the signal is seen no further message passes the gate, however many
\* handlers there are and whatever a quota hit then does to the state.
THEOREM DrainCorrect == Spec => DrainLaunchesNothing
<1>1. ASSUME IInv, [Next]_vars, NEW h \in Handlers, task[h].pc = "gate", task'[h].pc = "create"
      PROVE  stage = "up"
  <2>0. /\ task \in [Handlers -> Task] /\ \A k \in Handlers : task[k] \in Task
        /\ TypeOK
    BY <1>1 DEF IInv, Base, TypeOK
  <2>1. CASE state = "healthy"
    BY <1>1, <2>1 DEF IInv, QuietOK
  <2>2. ASSUME NEW k \in Handlers, Handler(k) PROVE state = "healthy"
    <3>1. k = h
      BY <1>1, <2>0, <2>2, Frame
    <3>2. CASE Gate(h)
      BY <1>1, <2>0, <3>2 DEF Gate, CanSpawn, Goto, Task
    <3>3. CASE LedgerRaises(h) \/ Reject(h)
      BY <1>1, <2>0, <3>3 DEF LedgerRaises, Goto, Return, Idle, Reject, Task
    <3>4. ~ (Receive(h) \/ Upsert(h) \/ Insert(h) \/ Skip(h) \/ Routing(h) \/ Slash(h))
      BY <1>1 DEF Receive, Dequeue, Upsert, Insert, Skip, Routing, Classify, Lookup,
                  NewEngagement, Join, Route, Slash, SlashEnds, SlashReads, At
    <3>5. ~ (Create(h) \/ Link(h) \/ Launch(h) \/ Attach(h) \/ Exit(h) \/ Throttle(h) \/ Finalize(h))
      BY <1>1 DEF Create, Link, Launch, Attach, Unreported, Exit, Throttle, Finalize, At
    <3>6. ~ (Ending(h) \/ ReplyRaises(h) \/ SpawnRaises(h) \/ WriteRaises(h))
      BY <1>1 DEF Ending, Reply, Settle, ReplyRaises, SpawnRaises, Unreported, WriteRaises, At
    <3> QED BY <2>2, <3>1, <3>2, <3>3, <3>4, <3>5, <3>6 DEF Handler, Intake, Spawn, Raise
  <2>3. ~ (Poll \/ LifeCycle \/ Elapse \/ LateAttach \/ UNCHANGED vars)
    BY <1>1 DEF Poll, LifeCycle, Boot, Signal, StopPolling, Stopped, Close, Crash, Idle, Elapse,
                LateAttach, vars
  <2> QED BY <1>1, <2>1, <2>2, <2>3 DEF Next
<1>2. ASSUME IInv, [Next]_vars
      PROVE  \A h \in Handlers : task[h].pc = "gate" /\ task'[h].pc = "create" => stage = "up"
  BY <1>1, <1>2
<1> QED BY <1>2, InvCorrect, PTL DEF Spec, DrainLaunchesNothing

\* No step rewrites a settled row, a final session or an ended engagement: not a
\* redelivery, a late session id, a restart or another handler.
THEOREM SettledStays == Spec => SettledForever
<1>1. ASSUME IInv, [Next]_vars
      PROVE  /\ \A m \in MsgIds :
                  messages[m].status \in Settled => messages'[m] = messages[m]
             /\ \A s \in DOMAIN sessions :
                  sessions[s].status \in Final => sessions'[s] = sessions[s]
             /\ \A e \in DOMAIN engagements :
                  engagements[e].ended => engagements'[e].ended
  <2>1. \A m \in MsgIds : messages[m].status \in Settled => messages'[m] = messages[m]
    BY <1>1, RowsSettle DEF IInv
  <2>2. \A s \in DOMAIN sessions : sessions[s].status \in Final => sessions'[s] = sessions[s]
    BY <1>1, SessionsKept DEF IInv
  <2>3. \A e \in DOMAIN engagements : engagements[e].ended => engagements'[e].ended
    BY <1>1, TablesGrow DEF IInv, Grows
  <2> QED BY <2>1, <2>2, <2>3
<1> QED BY <1>1, InvCorrect, PTL DEF Spec, SettledForever

=============================================================================
