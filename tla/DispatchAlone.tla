---------------------------- MODULE DispatchAlone ----------------------------
(***************************************************************************)
(* What rests on one handler at a time, which is how the Application runs  *)
(* (no concurrent_updates): the engagement decide found, or its absence,   *)
(* is still so when _dispatch acts on it.                                  *)
(***************************************************************************)
EXTENDS DispatchSafety, FiniteSetTheorems

-----------------------------------------------------------------------------
(* Candidates: what get_active_engagement can find *)

\* No engagement is added, changes its operator, is reopened or comes back
\* into the idle window.
Dwindles ==
    /\ DOMAIN engagements' = DOMAIN engagements
    /\ \A e \in DOMAIN engagements :
         /\ engagements'[e].operator = engagements[e].operator
         /\ engagements[e].ended => engagements'[e].ended
    /\ expired =< expired'

LEMMA FewerCandidates ==
    ASSUME TypeOK, TypeOK', Dwindles
    PROVE  \A c \in Chats : Candidates(c)' \subseteq Candidates(c)
<1>1. expired \in Nat /\ expired' \in Nat
  BY DEF TypeOK
<1>2. DOMAIN engagements \subseteq Nat
  BY DEF TypeOK
<1> QED BY <1>1, <1>2 DEF Dwindles, Candidates

LEMMA OneMoreCandidate ==
    ASSUME TypeOK, NEW h \in Handlers, Chat(h) \in Chats, CreateEngagement(Chat(h))
    PROVE  \A c \in Chats : \A e \in Candidates(c)' :
             e \in Candidates(c) \/ (c = Chat(h) /\ e = Len(engagements) + 1)
<1>1. expired' = expired
  BY DEF CreateEngagement
<1>2. /\ DOMAIN engagements' = DOMAIN engagements \union {Len(engagements) + 1}
      /\ \A e \in DOMAIN engagements : engagements'[e] = engagements[e]
      /\ engagements'[Len(engagements) + 1].operator = Chat(h)
  BY EngagementCreated
<1> QED BY <1>1, <1>2 DEF Candidates

LEMMA HandlerExpires ==
    ASSUME NEW h \in Handlers, Handler(h)
    PROVE  expired' = expired
<1> USE DEF ledger
<1>1. CASE Intake(h) \/ Routing(h) \/ Slash(h)
  BY <1>1 DEF Intake, Reject, Receive, Upsert, UpsertOperator, Insert, InsertMessage, Skip,
              Routing, Classify, Lookup, NewEngagement, CreateEngagement, Join, Route,
              UpdateMessage, Slash, SlashEnds, EndEngagement, SlashReads
<1>2. CASE Spawn(h)
  BY <1>2 DEF Spawn, Gate, Create, CreateSession, InsertSession, Link, UpdateMessage, Launch,
              Attach, AttachClaude, Exit, Throttle, Finalize, FinalizeSession
<1>3. CASE Ending(h) \/ Raise(h)
  BY <1>3 DEF Ending, Reply, Settle, UpdateMessage, Raise, ReplyRaises, SpawnRaises,
              LedgerRaises, WriteRaises, UpsertOperator, InsertMessage, CreateEngagement,
              CreateSession, HalfSession, InsertSession
<1> QED BY <1>1, <1>2, <1>3 DEF Handler

\* Only these steps do not leave the candidates alone or make them fewer.
LEMMA WhoCreates ==
    ASSUME TypeOK, [Next]_vars
    PROVE  Dwindles \/ \E h \in Handlers : Creates(h) /\ Handler(h)
<1>0. expired \in Nat /\ expired =< expired
  BY DEF TypeOK
<1>1. CASE Elapse
  <2>1. Len(engagements) \in Nat
    BY RowTypes
  <2> QED BY <1>0, <1>1, <2>1 DEF Elapse, Expire, tables, Dwindles
<1>2. CASE Poll \/ LifeCycle \/ LateAttach \/ UNCHANGED vars
  <2>1. UNCHANGED <<engagements, expired>>
    BY <1>2 DEF Poll, LifeCycle, Boot, Signal, StopPolling, Stopped, Close, Crash, LateAttach,
                AttachClaude, vars, ledger, tables
  <2> QED BY <1>0, <2>1 DEF Dwindles
<1>3. ASSUME NEW h \in Handlers, Handler(h), ~ Creates(h) PROVE Dwindles
  <2>1. expired' = expired
    BY <1>3, HandlerExpires
  <2>2. CASE UNCHANGED engagements
    BY <1>0, <2>1, <2>2 DEF Dwindles
  <2>3. CASE Ends(h)
    BY <1>0, <2>1, <2>3, EngagementEnded DEF Ends, Dwindles
  <2>4. CASE Opens(h)
    <3>1. task[h].eng \in Nat
      BY HandlerTypes
    <3> QED BY <1>0, <2>1, <2>4, <3>1, SessionOpened DEF Opens, Dwindles
  <2>5. CASE Attaches(h)
    BY <2>2, <2>5, SessionAttached DEF Attaches
  <2>6. CASE Finalizes(h)
    BY <2>2, <2>6, SessionFinalized DEF Finalizes
  <2> QED BY <1>3, <2>2, <2>3, <2>4, <2>5, <2>6, HandlerWrites DEF Writes
<1> QED BY <1>1, <1>2, <1>3 DEF Next

-----------------------------------------------------------------------------
(* The invariant of the lone handler *)

LEMMA CandidatesStep ==
    ASSUME TypeOK, TypeOK', QueueOK, AloneOK, [Next]_vars
    PROVE  \A c \in Chats : \A e, f \in Candidates(c)' : e = f
<1>1. CASE Dwindles
  BY <1>1, FewerCandidates DEF AloneOK
<1>2. ASSUME NEW h \in Handlers, Creates(h) PROVE \A c \in Chats : \A e, f \in Candidates(c)' : e = f
  <2>1. At(h, "resolve") /\ task[h].eng = 0 /\ CreateEngagement(Chat(h)) /\ Chat(h) \in Chats
    BY <1>2, OwnUpdate DEF Creates, At, Busy
  <2>2. Candidates(Chat(h)) = {}
    BY <2>1 DEF AloneOK
  <2> QED BY <2>1, <2>2, OneMoreCandidate DEF AloneOK
<1> QED BY <1>1, <1>2, WhoCreates

\* decide reads the engagements, and the only handler acts on what it read.
LEMMA EngagingStep ==
    ASSUME OneHandler, TypeOK, TypeOK', QueueOK, AloneOK, [Next]_vars, NEW h \in Handlers
    PROVE  /\ At(h, "resolve")' /\ task'[h].eng = 0 => Candidates(Chat(h))' = {}
           /\ task'[h].pc \in Engaging /\ task'[h].eng # 0 =>
                ~ engagements'[task'[h].eng].ended
<1> DEFINE Goal == /\ At(h, "resolve")' /\ task'[h].eng = 0 => Candidates(Chat(h))' = {}
                   /\ task'[h].pc \in Engaging /\ task'[h].eng # 0 =>
                        ~ engagements'[task'[h].eng].ended
<1> USE DEF Engaging, At
<1>0. task \in [Handlers -> Task] /\ task[h] \in Task
  BY DEF TypeOK
<1>1. ASSUME UNCHANGED <<task, inbox, engagements>>, expired =< expired' PROVE Goal
  <2>1. \A c \in Chats : Candidates(c)' \subseteq Candidates(c)
    BY <1>1, FewerCandidates DEF Dwindles
  <2>2. At(h, "resolve") => Chat(h) \in Chats
    BY OwnUpdate DEF Busy
  <2> QED BY <1>1, <2>1, <2>2 DEF AloneOK, Chat
<1>2. ASSUME Handler(h) PROVE Goal
  <2>1. CASE Lookup(h)
    <3>1. PICK e \in 0..Len(engagements) :
             /\ ActiveEngagement(Chat(h), e)
             /\ task' = [task EXCEPT
                   ![h].pc = "resolve", ![h].eng = e,
                   ![h].cur = IF e # 0 THEN engagements[e].current ELSE 0]
      BY <2>1 DEF Lookup
    <3>2. task'[h].eng = e /\ task'[h].upd = task[h].upd
      BY <1>0, <3>1 DEF Task
    <3>3. UNCHANGED <<engagements, expired, inbox>>
      BY <2>1 DEF Lookup, ledger, tables, telegram
    <3>4. e # 0 => ~ engagements[e].ended
      BY <3>1 DEF ActiveEngagement, Candidates
    <3>5. e = 0 => Candidates(Chat(h)) = {}
      <4>1. 0 \notin DOMAIN engagements
        BY RowTypes
      <4> QED BY <3>1, <4>1 DEF ActiveEngagement, Candidates
    <3> QED BY <3>2, <3>3, <3>4, <3>5 DEF Chat, Candidates
  <2>2. CASE NewEngagement(h)
    <3>1. CreateEngagement(Chat(h)) /\ Chat(h) \in Chats
      BY <2>2, OwnUpdate DEF NewEngagement, Busy
    <3>2. task'[h].eng = Len(engagements) + 1 /\ task'[h].pc = "route"
      BY <1>0, <2>2 DEF NewEngagement, Task
    <3> QED BY <3>1, <3>2, EngagementCreated
  <2>3. CASE Join(h) \/ Route(h) \/ Gate(h)
    <3>1. task[h].pc \in Engaging /\ task'[h].pc # "resolve" /\ task'[h].eng = task[h].eng
      BY <1>0, <2>3 DEF Join, Route, Gate, Goto, Task
    <3>2. engagements' = engagements
      BY <2>3 DEF Join, Route, Gate, UpdateMessage, ledger, tables
    <3> QED BY <3>1, <3>2 DEF AloneOK
  <2>4. CASE Intake(h) \/ Classify(h) \/ Slash(h) \/ Ending(h)
    <3>1. task'[h].pc \notin Engaging \/ Reject(h)
      BY <1>0, <2>4 DEF Intake, Receive, Upsert, Insert, Skip, Classify, Slash, SlashEnds,
                        SlashReads, Ending, Reply, Settle, Goto, Return, Idle, Task
    <3> QED BY <1>0, <3>1 DEF Reject, Dequeue
  <2>5. CASE Create(h) \/ Link(h) \/ Launch(h) \/ Throttle(h) \/ Finalize(h)
    BY <1>0, <2>5 DEF Create, Link, Launch, Throttle, Finalize, Goto, Task
  <2>6. CASE Attach(h) \/ Exit(h)
    <3>1. CASE Attach(h)
      BY <1>0, <3>1 DEF Attach, Unreported
    <3>2. CASE Exit(h)
      BY <1>0, <3>2 DEF Exit, Task
    <3> QED BY <2>6, <3>1, <3>2
  <2>7. CASE Raise(h)
    BY <1>0, <2>7 DEF Raise, ReplyRaises, SpawnRaises, LedgerRaises, WriteRaises, Goto, Return,
                      Idle, Task
  <2> QED BY <1>2, <2>1, <2>2, <2>3, <2>4, <2>5, <2>6, <2>7 DEF Handler, Routing, Spawn
<1>3. CASE Poll \/ Boot \/ Signal \/ StopPolling \/ Close \/ Elapse \/ LateAttach
           \/ UNCHANGED vars
  <2>1. UNCHANGED <<task, inbox, engagements>>
    BY <1>3 DEF Poll, Boot, Signal, StopPolling, Close, Elapse, Expire, LateAttach, AttachClaude,
                vars, ledger, tables, telegram
  <2>2. expired' = expired \/ Elapse
    BY <1>3 DEF Poll, Boot, Signal, StopPolling, Close, LateAttach, AttachClaude, vars, ledger
  <2>3. expired \in Nat /\ Len(engagements) \in Nat
    BY RowTypes DEF TypeOK
  <2> QED BY <1>1, <2>1, <2>2, <2>3 DEF Elapse, Expire
<1>4. CASE Stopped \/ Crash
  BY <1>0, <1>4 DEF Stopped, Free, Crash, Idle
<1>5. (\E k \in Handlers : Handler(k)) => Handler(h)
  BY DEF OneHandler
<1> QED BY <1>2, <1>3, <1>4, <1>5 DEF Next, LifeCycle

\* The daemon leaves "healthy" by the signal, which ends the stage too, or by
\* the quota hit of the only handler, which has claude behind it.
LEMMA RefusesStep ==
    ASSUME OneHandler, IInv, RefusesUnlessHealthy, [Next]_vars
    PROVE  RefusesUnlessHealthy'
<1> DEFINE Way == {"create", "link", "spawn"}
<1>0. task \in [Handlers -> Task] /\ \A k \in Handlers : task[k] \in Task
  BY DEF IInv, Base, TypeOK
<1>1. ASSUME NEW h \in Handlers, Handler(h) PROVE RefusesUnlessHealthy'
  <2>1. SUFFICES ASSUME stage' = "up", state' # "healthy", task'[h].pc \in Way PROVE FALSE
    BY DEF RefusesUnlessHealthy, OneHandler
  <2>2. CASE Intake(h) \/ Slash(h) \/ Ending(h)
    BY <1>0, <2>1, <2>2 DEF Intake, Reject, Dequeue, At, Receive, Upsert, Insert, Skip, Slash,
                   SlashEnds, SlashReads, Ending, Reply, Settle, Goto, Return, Idle, Task
  <2>3. CASE Routing(h)
    <3>1. CASE Lookup(h)
      BY <1>0, <2>1, <3>1 DEF Lookup, Task
    <3>2. CASE Classify(h) \/ NewEngagement(h) \/ Join(h) \/ Route(h)
      BY <1>0, <2>1, <3>2 DEF Classify, NewEngagement, Join, Route, Goto, Task
    <3> QED BY <2>3, <3>1, <3>2 DEF Routing
  <2>4. CASE Gate(h)
    BY <1>0, <2>1, <2>4 DEF Gate, CanSpawn, Goto, Task, daemon
  <2>5. CASE Create(h) \/ Link(h)
    BY <1>0, <2>1, <2>5 DEF Create, Link, At, RefusesUnlessHealthy, daemon
  <2>6. CASE Launch(h) \/ Throttle(h) \/ Finalize(h)
    BY <1>0, <2>1, <2>6 DEF Launch, Throttle, Finalize, Goto, Task
  <2>7. CASE Attach(h) \/ Exit(h)
    <3>1. CASE Attach(h)
      BY <2>1, <3>1 DEF Attach, Unreported, At
    <3>2. CASE Exit(h)
      BY <1>0, <2>1, <3>2 DEF Exit, Task
    <3> QED BY <2>7, <3>1, <3>2
  <2>8. CASE Raise(h)
    BY <1>0, <2>1, <2>8 DEF Raise, ReplyRaises, SpawnRaises, LedgerRaises, WriteRaises, Goto,
                            Return, Idle, Task
  <2> QED BY <1>1, <2>2, <2>3, <2>4, <2>5, <2>6, <2>7, <2>8 DEF Handler, Spawn
<1>2. CASE LifeCycle
  BY <1>2 DEF LifeCycle, Boot, Signal, StopPolling, Stopped, Close, Crash, RefusesUnlessHealthy,
              IInv, QuietOK, Busy
<1>3. CASE Poll \/ Elapse \/ LateAttach \/ UNCHANGED vars
  <2>1. UNCHANGED <<stage, state, task>>
    BY <1>3 DEF Poll, Elapse, LateAttach, vars, daemon
  <2> QED BY <2>1 DEF RefusesUnlessHealthy
<1> QED BY <1>1, <1>2, <1>3 DEF Next

LEMMA AloneInit == Init => AloneOK
<1> SUFFICES ASSUME Init PROVE AloneOK
  OBVIOUS
<1>1. DOMAIN engagements = {}
  BY InvInit, RowTypes, EmptySeq DEF IInv, Base, Init, LedgerInit, EngIds
<1>2. \A h \in Handlers : task[h] = Idle
  BY DEF Init
<1>3. stage = "down"
  BY DEF Init
<1> QED BY <1>1, <1>2, <1>3 DEF AloneOK, Candidates, At, Idle, Engaging, RefusesUnlessHealthy

LEMMA AloneStep ==
    ASSUME OneHandler
    PROVE  IInv /\ AloneOK /\ [Next]_vars => AloneOK'
<1> SUFFICES ASSUME IInv, AloneOK, [Next]_vars PROVE AloneOK'
  OBVIOUS
<1>1. TypeOK /\ QueueOK /\ TypeOK'
  BY InvStep DEF IInv, Base
<1>2. \A c \in Chats : \A e, f \in Candidates(c)' : e = f
  BY <1>1, CandidatesStep
<1>3. \A h \in Handlers :
        /\ At(h, "resolve")' /\ task'[h].eng = 0 => Candidates(Chat(h))' = {}
        /\ task'[h].pc \in Engaging /\ task'[h].eng # 0 => ~ engagements'[task'[h].eng].ended
  BY <1>1, EngagingStep
<1>4. RefusesUnlessHealthy'
  BY RefusesStep DEF AloneOK
<1> QED BY <1>2, <1>3, <1>4 DEF AloneOK

LEMMA AloneInv ==
    ASSUME OneHandler
    PROVE  Spec => [](IInv /\ AloneOK)
BY InvInit, InvStep, AloneInit, AloneStep, PTL DEF Spec

-----------------------------------------------------------------------------
(* What follows *)

\* With one handler an operator never has two engagements in the idle window
\* and not ended: none is created between decide's lookup and the insert.
THEOREM OneActiveCorrect ==
    ASSUME OneHandler
    PROVE  Spec => []OneActive
<1>1. AloneOK => OneActive
  <2>1. SUFFICES ASSUME AloneOK, NEW c \in Chats PROVE Cardinality(Candidates(c)) =< 1
    BY DEF OneActive
  <2>2. \A e, f \in Candidates(c) : e = f
    BY <2>1 DEF AloneOK
  <2>3. Candidates(c) = {} \/ \E e \in Candidates(c) : Candidates(c) = {e}
    BY <2>2
  <2>4. CASE Candidates(c) = {}
    <3>1. Cardinality({}) = 0
      BY FS_EmptySet
    <3> QED BY <2>4, <3>1
  <2>5. ASSUME NEW e, Candidates(c) = {e} PROVE Cardinality(Candidates(c)) =< 1
    <3>1. Cardinality({e}) = 1
      BY FS_Singleton
    <3> QED BY <2>5, <3>1
  <2> QED BY <2>3, <2>4, <2>5
<1> QED BY <1>1, AloneInv, PTL

\* With one handler no session is opened in an engagement that /end or /new
\* has ended.
THEOREM EndedCorrect ==
    ASSUME OneHandler
    PROVE  Spec => EndedStaysQuiet
<1>1. ASSUME IInv, AloneOK, [Next]_vars
      PROVE  \A s \in DOMAIN sessions' \ DOMAIN sessions : ~ engagements[sessions'[s].eng].ended
  <2>0. TypeOK
    BY <1>1 DEF IInv, Base
  <2>1. CASE UNCHANGED <<engagements, sessions>>
    BY <2>1
  <2>2. ASSUME NEW h \in Handlers, Writes(h)
        PROVE  \A s \in DOMAIN sessions' \ DOMAIN sessions : ~ engagements[sessions'[s].eng].ended
    <3>1. CASE Creates(h) \/ Ends(h)
      BY <3>1 DEF Creates, CreateEngagement, Ends, EndEngagement
    <3>2. CASE Opens(h)
      <4>1. task[h].eng \in Nat /\ task[h].eng # 0 /\ task[h].pc = "create"
        BY <1>1, <2>0, <3>2, HandlerTypes DEF Opens, At, IInv, HoldsOK, Holds, Placed
      <4>2. ~ engagements[task[h].eng].ended
        BY <1>1, <4>1 DEF AloneOK, Engaging
      <4>3. CreateSession(task[h].eng) \/ HalfSession(task[h].eng)
        BY <3>2 DEF Opens
      <4>4. /\ DOMAIN sessions' = DOMAIN sessions \union {NextSession}
            /\ sessions'[NextSession].eng = task[h].eng
        BY <2>0, <4>1, <4>3, SessionOpened
      <4> QED BY <4>2, <4>4
    <3>3. CASE Attaches(h)
      BY <2>0, <3>3, SessionAttached DEF Attaches
    <3>4. CASE Finalizes(h)
      BY <2>0, <3>4, SessionFinalized DEF Finalizes
    <3> QED BY <2>2, <3>1, <3>2, <3>3, <3>4 DEF Writes
  <2>3. ASSUME NEW r \in readers, AttachesLate(r)
        PROVE  \A s \in DOMAIN sessions' \ DOMAIN sessions : ~ engagements[sessions'[s].eng].ended
    BY <2>0, <2>3, SessionAttached DEF AttachesLate
  <2> QED BY <1>1, <2>1, <2>2, <2>3, TableSteps
<1> QED BY <1>1, AloneInv, PTL DEF Spec, EndedStaysQuiet

\* With one handler nothing is on its way to claude while the daemon is up and
\* not healthy.
THEOREM RefusesCorrect ==
    ASSUME OneHandler
    PROVE  Spec => []RefusesUnlessHealthy
<1>1. AloneOK => RefusesUnlessHealthy
  BY DEF AloneOK
<1> QED BY <1>1, AloneInv, PTL

=============================================================================
