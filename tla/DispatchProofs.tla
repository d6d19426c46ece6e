--------------------------- MODULE DispatchProofs ---------------------------
(***************************************************************************)
(* Proofs about Dispatch for every number of updates, chats, message ids   *)
(* and concurrent handlers, and every bound.                               *)
(***************************************************************************)
EXTENDS DispatchInv, SequenceTheorems, TLAPS

-----------------------------------------------------------------------------
(* What the operations of the ledger do to its tables. *)

\* A column update keeps a table a table of the same rows.
LEMMA TableExcept ==
    ASSUME NEW S, NEW t \in Seq(S), NEW i, NEW v, i \in DOMAIN t => v \in S
    PROVE  /\ [t EXCEPT ![i] = v] \in Seq(S)
           /\ DOMAIN [t EXCEPT ![i] = v] = DOMAIN t
<1>1. CASE i \in DOMAIN t
  BY <1>1, LenProperties, ExceptSeq
<1>2. CASE i \notin DOMAIN t
  <2>1. [t EXCEPT ![i] = v] = t
    BY <1>2, LenProperties
  <2> QED BY <2>1
<1> QED BY <1>1, <1>2

\* Rows of the two tables have their types.
LEMMA RowTypes ==
    ASSUME TypeOK
    PROVE  /\ DOMAIN engagements = EngIds \ {0} /\ Len(engagements) \in Nat
           /\ DOMAIN sessions = SessIds \ {0} /\ Len(sessions) \in Nat
           /\ \A e \in DOMAIN engagements : engagements[e] \in Engagement
           /\ \A s \in DOMAIN sessions : sessions[s] \in Session
<1>1. engagements \in Seq(Engagement) /\ sessions \in Seq(Session)
  BY DEF TypeOK
<1>2. DOMAIN engagements = 1..Len(engagements) /\ Len(engagements) \in Nat
  BY <1>1, LenProperties
<1>3. DOMAIN sessions = 1..Len(sessions) /\ Len(sessions) \in Nat
  BY <1>1, LenProperties
<1>4. \A e \in DOMAIN engagements : engagements[e] \in Engagement
  BY <1>1, <1>2, ElementOfSeq
<1>5. \A s \in DOMAIN sessions : sessions[s] \in Session
  BY <1>1, <1>3, ElementOfSeq
<1> QED BY <1>2, <1>3, <1>4, <1>5 DEF EngIds, SessIds

LEMMA TypeEngagements ==
    ASSUME TypeOK, NEW e
    PROVE  /\ \A op \in Chats : CreateEngagement(op) => engagements' \in Seq(Engagement)
           /\ EndEngagement(e) => engagements' \in Seq(Engagement)
           /\ CreateSession(e) \/ HalfSession(e) => engagements' \in Seq(Engagement)
<1>0. /\ engagements \in Seq(Engagement) /\ sessions \in Seq(Session)
      /\ messages \in [MsgIds -> Row]
  BY DEF TypeOK
<1>1. ASSUME NEW op \in Chats, CreateEngagement(op) PROVE engagements' \in Seq(Engagement)
  BY <1>0, <1>1, AppendProperties DEF CreateEngagement, Engagement
<1>2. ASSUME EndEngagement(e) PROVE engagements' \in Seq(Engagement)
  <2>1. e \in DOMAIN engagements => [engagements[e] EXCEPT !.ended = TRUE] \in Engagement
    BY RowTypes DEF Engagement
  <2> QED BY <1>0, <1>2, <2>1, TableExcept DEF EndEngagement
<1>3. ASSUME CreateSession(e) PROVE engagements' \in Seq(Engagement)
  <2>0. NextSession \in Nat
    BY <1>0, LenProperties DEF NextSession
  <2>1. e \in DOMAIN engagements => [engagements[e] EXCEPT !.current = NextSession] \in Engagement
    BY <2>0, RowTypes DEF Engagement
  <2> QED BY <1>0, <1>3, <2>1, TableExcept DEF CreateSession, InsertSession
<1>4. ASSUME HalfSession(e) PROVE engagements' \in Seq(Engagement)
  BY <1>0, <1>4 DEF HalfSession
<1> QED BY <1>1, <1>2, <1>3, <1>4

LEMMA TypeSessions ==
    ASSUME TypeOK, NEW s
    PROVE  /\ \A e \in Nat : CreateSession(e) \/ HalfSession(e) => sessions' \in Seq(Session)
           /\ \A id \in Nat : AttachClaude(s, id) => sessions' \in Seq(Session)
           /\ \A st \in Final : FinalizeSession(s, st) => sessions' \in Seq(Session)
<1>0. /\ engagements \in Seq(Engagement) /\ sessions \in Seq(Session)
      /\ messages \in [MsgIds -> Row]
  BY DEF TypeOK
<1>1. ASSUME NEW e \in Nat, CreateSession(e) \/ HalfSession(e)
      PROVE  sessions' \in Seq(Session)
  <2>1. sessions' = Append(sessions, [eng |-> e, claude |-> 0, status |-> "spawning"])
    BY <1>1 DEF CreateSession, HalfSession, InsertSession
  <2>2. [eng |-> e, claude |-> 0, status |-> "spawning"] \in Session
    BY DEF Session, Open
  <2> QED BY <1>0, <2>1, <2>2, AppendProperties
<1>2. ASSUME NEW id \in Nat, AttachClaude(s, id) PROVE sessions' \in Seq(Session)
  <2>1. s \in DOMAIN sessions =>
          [sessions[s] EXCEPT !.claude = id, !.status = "running"] \in Session
    BY RowTypes DEF Session, Open
  <2>2. sessions' = [sessions EXCEPT ![s] = [sessions[s] EXCEPT !.claude = id,
                                                               !.status = "running"]]
    BY <1>0, <1>2, LenProperties DEF AttachClaude
  <2> QED BY <1>0, <2>1, <2>2, TableExcept
<1>3. ASSUME NEW st \in Final, FinalizeSession(s, st) PROVE sessions' \in Seq(Session)
  <2>1. s \in DOMAIN sessions => [sessions[s] EXCEPT !.status = st] \in Session
    BY RowTypes DEF Session
  <2> QED BY <1>0, <1>3, <2>1, TableExcept DEF FinalizeSession
<1> QED BY <1>1, <1>2, <1>3

LEMMA TypeMessages ==
    ASSUME TypeOK, NEW m \in MsgIds
    PROVE  /\ \A u \in Updates : InsertMessage(m, u) => messages' \in [MsgIds -> Row]
           /\ \A st \in Unsettled \union Settled, e \in Nat, s \in Nat :
                UpdateMessage(m, st, e, s) => messages' \in [MsgIds -> Row]
<1>0. /\ engagements \in Seq(Engagement) /\ sessions \in Seq(Session)
      /\ messages \in [MsgIds -> Row]
  BY DEF TypeOK
<1>1. ASSUME NEW u \in Updates, InsertMessage(m, u) PROVE messages' \in [MsgIds -> Row]
  BY <1>0, <1>1, DispatchAssumption DEF InsertMessage, Row, Updates, Unsettled, Pending
<1>2. ASSUME NEW st \in Unsettled \union Settled, NEW e \in Nat, NEW s \in Nat,
             UpdateMessage(m, st, e, s)
      PROVE  messages' \in [MsgIds -> Row]
  <2>1. /\ Coalesce(e, messages[m].eng) \in Nat
        /\ Coalesce(s, messages[m].sess) \in Nat
    BY <1>0 DEF Coalesce, Row
  <2>2. messages' = [messages EXCEPT ![m] = [messages[m] EXCEPT
              !.status = st, !.eng = Coalesce(e, @), !.sess = Coalesce(s, @)]]
    BY <1>0, <1>2 DEF UpdateMessage
  <2>3. [messages[m] EXCEPT !.status = st, !.eng = Coalesce(e, @),
                            !.sess = Coalesce(s, @)] \in Row
    BY <1>0, <2>1 DEF Row
  <2> QED BY <1>0, <2>2, <2>3
<1> QED BY <1>1, <1>2

-----------------------------------------------------------------------------
(* Types and the update queue *)

LEMMA GotoType ==
    ASSUME TypeOK, NEW h \in Handlers, NEW pc \in PCs
    PROVE  /\ Goto(h, pc) => task' \in [Handlers -> Task]
           /\ Return(h) => task' \in [Handlers -> Task]
<1>1. task \in [Handlers -> Task]
  BY DEF TypeOK
<1>2. [task[h] EXCEPT !.pc = pc] \in Task
  BY <1>1 DEF Task
<1>3. Idle \in Task
  <2>1. "idle" \in PCs
    BY DEF PCs
  <2> QED BY <2>1, DispatchAssumption DEF Idle, Task
<1>4. Goto(h, pc) => task' = [task EXCEPT ![h] = [task[h] EXCEPT !.pc = pc]]
  BY <1>1 DEF Goto
<1> QED BY <1>1, <1>2, <1>3, <1>4 DEF Return

\* A busy handler's update is one of Telegram's, so its contents have types.
LEMMA OwnUpdate ==
    ASSUME TypeOK, QueueOK, NEW h \in Handlers, Busy(h)
    PROVE  /\ task[h].upd \in Updates /\ Allowed(task[h].upd)
           /\ Chat(h) \in Chats /\ Mid(h) \in MsgIds /\ Text(h) \in Body
<1>1. task[h].upd \in 1..taken /\ Allowed(task[h].upd) /\ taken \in 0..N
  BY DEF QueueOK, TypeOK
<1>2. task[h].upd \in Updates
  BY <1>1, DispatchAssumption DEF Updates
<1>3. inbox[task[h].upd] \in Contents
  BY <1>2 DEF TypeOK
<1> QED BY <1>1, <1>2, <1>3 DEF Contents, Chat, Mid, Text

LEMMA TypeIntake ==
    ASSUME TypeOK, QueueOK, NEW h \in Handlers, Intake(h)
    PROVE  TypeOK'
<1> USE DEF telegram, daemon, history, ledger, tables
<1>1. ASSUME Reject(h) PROVE TypeOK'
  BY <1>1, DispatchAssumption DEF Reject, Dequeue, TypeOK
<1>2. ASSUME Receive(h) PROVE TypeOK'
  <2>1. taken + 1 \in 0..N /\ task \in [Handlers -> Task] /\ "upsert" \in PCs
    BY <1>2, DispatchAssumption DEF Receive, Dequeue, TypeOK, PCs
  <2>2. [task[h] EXCEPT !.pc = "upsert", !.upd = taken + 1] \in Task
    BY <2>1 DEF Task
  <2>3. task' = [task EXCEPT ![h] = [task[h] EXCEPT !.pc = "upsert", !.upd = taken + 1]]
    BY <1>2, <2>1 DEF Receive
  <2>4. task' \in [Handlers -> Task]
    BY <2>1, <2>2, <2>3
  <2> QED BY <1>2, <2>1, <2>4 DEF Receive, Dequeue, TypeOK
<1>3. ASSUME Upsert(h) PROVE TypeOK'
  <2>1. Chat(h) \in Chats
    BY <1>3, OwnUpdate DEF Upsert, At, Busy
  <2> QED BY <1>3, <2>1, GotoType DEF Upsert, UpsertOperator, TypeOK, PCs
<1>4. ASSUME Insert(h) PROVE TypeOK'
  <2>1. Mid(h) \in MsgIds /\ task[h].upd \in Updates
    BY <1>4, OwnUpdate DEF Insert, At, Busy
  <2>2. messages' \in [MsgIds -> Row]
    BY <1>4, <2>1, TypeMessages DEF Insert
  <2> QED BY <1>4, <2>2, GotoType DEF Insert, InsertMessage, TypeOK, PCs
<1>5. ASSUME Skip(h) PROVE TypeOK'
  BY <1>5, GotoType DEF Skip, TypeOK, PCs
<1> QED BY <1>1, <1>2, <1>3, <1>4, <1>5 DEF Intake

LEMMA TypeRouting ==
    ASSUME TypeOK, QueueOK, RefsOK, NEW h \in Handlers, Routing(h)
    PROVE  TypeOK'
<1> USE DEF telegram, daemon, history, ledger, tables
<1>0. task \in [Handlers -> Task] /\ task[h] \in Task
  BY DEF TypeOK
<1>a. Mid(h) \in MsgIds /\ Chat(h) \in Chats
  BY OwnUpdate DEF Routing, Classify, Lookup, NewEngagement, Join, Route, At, Busy
<1>1. ASSUME Classify(h) PROVE TypeOK'
  <2>1. messages' \in [MsgIds -> Row]
    BY <1>1, <1>a, TypeMessages DEF Classify, Unsettled, Pending
  <2> QED BY <1>1, <2>1, GotoType DEF Classify, UpdateMessage, TypeOK, PCs
<1>2. ASSUME Lookup(h) PROVE TypeOK'
  <2>1. PICK e \in 0..Len(engagements) :
          task' = [task EXCEPT ![h].pc = "resolve", ![h].eng = e,
                     ![h].cur = IF e # 0 THEN engagements[e].current ELSE 0]
    BY <1>2 DEF Lookup
  <2>2. e \in Nat /\ (e # 0 => engagements[e].current \in Nat)
    BY <2>1, RowTypes DEF EngIds, Engagement
  <2>3. "resolve" \in PCs
    BY DEF PCs
  <2> DEFINE c == IF e # 0 THEN engagements[e].current ELSE 0
  <2>4. c \in Nat
    BY <2>2
  <2> HIDE DEF c
  <2>5. [task[h] EXCEPT !.pc = "resolve", !.eng = e, !.cur = c] \in Task
    BY <1>0, <2>2, <2>3, <2>4 DEF Task
  <2>6. task' = [task EXCEPT ![h] = [task[h] EXCEPT !.pc = "resolve", !.eng = e, !.cur = c]]
    BY <1>0, <2>1 DEF c
  <2>7. task' \in [Handlers -> Task]
    BY <1>0, <2>5, <2>6
  <2> QED BY <1>2, <2>7 DEF Lookup, TypeOK
<1>3. ASSUME NewEngagement(h) PROVE TypeOK'
  <2>1. engagements' \in Seq(Engagement)
    BY <1>3, <1>a, TypeEngagements DEF NewEngagement
  <2>2. Len(engagements) + 1 \in Nat /\ "route" \in PCs
    BY RowTypes DEF PCs
  <2>3. [task[h] EXCEPT !.pc = "route", !.eng = Len(engagements) + 1] \in Task
    BY <1>0, <2>2 DEF Task
  <2>4. task' = [task EXCEPT ![h] = [task[h] EXCEPT !.pc = "route", !.eng = Len(engagements) + 1]]
    BY <1>0, <1>3 DEF NewEngagement
  <2>5. task' \in [Handlers -> Task]
    BY <1>0, <2>3, <2>4
  <2> QED BY <1>3, <2>1, <2>5 DEF NewEngagement, CreateEngagement, TypeOK
<1>4. ASSUME Join(h) PROVE TypeOK'
  <2>0. ResumeId(h) \in Nat
    <3>1. task[h].cur # 0 => task[h].cur \in DOMAIN sessions
      BY RowTypes DEF RefsOK
    <3> QED BY <3>1, RowTypes DEF ResumeId, Session
  <2>1. "route" \in PCs
    BY DEF PCs
  <2>2. [task[h] EXCEPT !.pc = "route", !.cur = 0, !.resume = ResumeId(h)] \in Task
    BY <1>0, <2>0, <2>1 DEF Task
  <2>3. task' = [task EXCEPT ![h] = [task[h] EXCEPT !.pc = "route", !.cur = 0,
                                                   !.resume = ResumeId(h)]]
    BY <1>0, <1>4 DEF Join
  <2>4. task' \in [Handlers -> Task]
    BY <1>0, <2>2, <2>3
  <2> QED BY <1>4, <2>4 DEF Join, TypeOK
<1>5. ASSUME Route(h) PROVE TypeOK'
  <2>1. task[h].eng \in Nat
    BY <1>0 DEF Task
  <2>2. messages' \in [MsgIds -> Row]
    BY <1>5, <1>a, <2>1, TypeMessages DEF Route, Unsettled
  <2>3. task' \in [Handlers -> Task]
    <3>1. (IF Text(h) \in Commands THEN "slash" ELSE "gate") \in PCs
      BY DEF PCs
    <3> QED BY <1>5, <3>1, GotoType DEF Route
  <2> QED BY <1>5, <2>2, <2>3 DEF Route, UpdateMessage, TypeOK
<1> QED BY <1>1, <1>2, <1>3, <1>4, <1>5 DEF Routing

LEMMA TypeSpawn ==
    ASSUME TypeOK, QueueOK, NEW h \in Handlers, Spawn(h)
    PROVE  TypeOK'
<1> USE DEF telegram, daemon, history, ledger, tables
<1>0. task \in [Handlers -> Task] /\ task[h] \in Task
  BY DEF TypeOK
<1>a. task[h].eng \in Nat /\ task[h].sess \in Nat /\ task[h].resume \in Nat
  BY <1>0 DEF Task
<1>b. Mid(h) \in MsgIds /\ task[h].upd \in Updates
  BY OwnUpdate DEF Spawn, Gate, Create, Link, Launch, Attach, Unreported, Exit, Throttle,
                   Finalize, At, Busy
<1>1. ASSUME Gate(h) PROVE TypeOK'
  <2>1. (IF CanSpawn THEN "create" ELSE "refuse") \in PCs
    BY DEF PCs
  <2>2. task' \in [Handlers -> Task]
    BY <1>1, <2>1, GotoType DEF Gate
  <2> QED BY <1>1, <2>2 DEF Gate, TypeOK
<1>2. ASSUME Create(h) PROVE TypeOK'
  <2>1. sessions' \in Seq(Session) /\ engagements' \in Seq(Engagement)
    BY <1>2, <1>a, TypeSessions, TypeEngagements DEF Create
  <2>2. NextSession \in Nat /\ "link" \in PCs
    BY RowTypes DEF PCs, NextSession
  <2>3. [task[h] EXCEPT !.pc = "link", !.sess = NextSession] \in Task
    BY <1>0, <2>2 DEF Task
  <2>4. task' = [task EXCEPT ![h] = [task[h] EXCEPT !.pc = "link", !.sess = NextSession]]
    BY <1>0, <1>2 DEF Create
  <2>5. task' \in [Handlers -> Task]
    BY <1>0, <2>3, <2>4
  <2> QED BY <1>2, <2>1, <2>5 DEF Create, CreateSession, InsertSession, TypeOK
<1>3. ASSUME Link(h) PROVE TypeOK'
  <2>1. messages' \in [MsgIds -> Row]
    BY <1>3, <1>a, <1>b, TypeMessages DEF Link, Unsettled
  <2>2. task' \in [Handlers -> Task]
    BY <1>3, GotoType DEF Link, PCs
  <2> QED BY <1>3, <2>1, <2>2 DEF Link, UpdateMessage, TypeOK
<1>4. ASSUME Launch(h) PROVE TypeOK'
  <2>1. task' \in [Handlers -> Task]
    BY <1>4, GotoType DEF Launch, PCs
  <2>2. launched' \in [Updates -> Nat]
    BY <1>4, <1>b DEF Launch, TypeOK
  <2> QED BY <1>4, <2>1, <2>2 DEF Launch, TypeOK
<1>5. ASSUME Attach(h) PROVE TypeOK'
  <2>1. sessions' \in Seq(Session)
    BY <1>5, <1>a, TypeSessions DEF Attach, ClaudeIds, Reader
  <2> QED BY <1>5, <2>1 DEF Attach, AttachClaude, TypeOK
<1>6. ASSUME Exit(h) PROVE TypeOK'
  <2>1. PICK code \in {0, 1}, quota \in BOOLEAN :
          task' = [task EXCEPT ![h].pc = IF quota THEN "throttle" ELSE "finalize",
                               ![h].code = code]
    BY <1>6 DEF Exit
  <2> DEFINE pc == IF quota THEN "throttle" ELSE "finalize"
  <2>2. pc \in PCs
    BY DEF PCs
  <2> HIDE DEF pc
  <2>3. [task[h] EXCEPT !.pc = pc, !.code = code] \in Task
    BY <1>0, <2>2 DEF Task
  <2>4. task' = [task EXCEPT ![h] = [task[h] EXCEPT !.pc = pc, !.code = code]]
    BY <1>0, <2>1 DEF pc
  <2>5. task' \in [Handlers -> Task]
    BY <1>0, <2>3, <2>4
  <2> QED BY <1>6, <2>5 DEF Exit, TypeOK
<1>7. ASSUME Throttle(h) PROVE TypeOK'
  <2>1. task' \in [Handlers -> Task]
    BY <1>7, GotoType DEF Throttle, PCs
  <2> QED BY <1>7, <2>1 DEF Throttle, NextState, States, TypeOK
<1>8. ASSUME Finalize(h) PROVE TypeOK'
  <2>1. sessions' \in Seq(Session)
    BY <1>8, TypeSessions DEF Finalize, Final
  <2>2. "reply" \in PCs
    BY DEF PCs
  <2>3. [task[h] EXCEPT !.pc = "reply", !.code = 0] \in Task
    BY <1>0, <2>2 DEF Task
  <2>4. task' = [task EXCEPT ![h] = [task[h] EXCEPT !.pc = "reply", !.code = 0]]
    BY <1>0, <1>8 DEF Finalize
  <2>5. task' \in [Handlers -> Task]
    BY <1>0, <2>3, <2>4
  <2> QED BY <1>8, <2>1, <2>5 DEF Finalize, FinalizeSession, TypeOK
<1> QED BY <1>1, <1>2, <1>3, <1>4, <1>5, <1>6, <1>7, <1>8 DEF Spawn

LEMMA TypeEnding ==
    ASSUME TypeOK, QueueOK, NEW h \in Handlers, Slash(h) \/ Ending(h) \/ Raise(h)
    PROVE  TypeOK'
<1> USE DEF telegram, daemon, history, ledger, tables
<1>1. ASSUME SlashEnds(h) PROVE TypeOK'
  <2>1. engagements' \in Seq(Engagement)
    BY <1>1, TypeEngagements DEF SlashEnds
  <2>2. task' \in [Handlers -> Task]
    BY <1>1, GotoType DEF SlashEnds, PCs
  <2> QED BY <1>1, <2>1, <2>2 DEF SlashEnds, EndEngagement, TypeOK
<1>2. ASSUME SlashReads(h) PROVE TypeOK'
  <2>1. task' \in [Handlers -> Task]
    BY <1>2, GotoType DEF SlashReads, PCs
  <2> QED BY <1>2, <2>1 DEF SlashReads, TypeOK
<1>3. ASSUME Reply(h) PROVE TypeOK'
  <2>1. task' \in [Handlers -> Task]
    BY <1>3, GotoType DEF Reply, PCs
  <2>2. task[h].upd \in Updates
    BY <1>3, OwnUpdate DEF Reply, At, Busy
  <2>3. answered' \in [Updates -> Nat]
    BY <1>3, <2>2 DEF Reply, TypeOK
  <2> QED BY <1>3, <2>1, <2>3 DEF Reply, TypeOK
<1>4. ASSUME Settle(h) PROVE TypeOK'
  <2>1. Mid(h) \in MsgIds
    BY <1>4, OwnUpdate DEF Settle, Busy
  <2>2. messages' \in [MsgIds -> Row]
    BY <1>4, <2>1, TypeMessages DEF Settle, Verdict, Settled
  <2>3. task' \in [Handlers -> Task]
    <3>1. "idle" \in PCs
      BY DEF PCs
    <3> QED BY <1>4, <3>1, GotoType DEF Settle
  <2> QED BY <1>4, <2>2, <2>3 DEF Settle, UpdateMessage, TypeOK
<1>5. ASSUME ReplyRaises(h) PROVE TypeOK'
  <2>1. task' \in [Handlers -> Task]
    BY <1>5, GotoType DEF ReplyRaises, PCs
  <2>2. task[h].upd \in Updates
    BY <1>5, OwnUpdate DEF ReplyRaises, Busy
  <2>3. answered' \in [Updates -> Nat]
    BY <1>5, <2>2 DEF ReplyRaises, TypeOK
  <2> QED BY <1>5, <2>1, <2>3 DEF ReplyRaises, TypeOK
<1>6. ASSUME SpawnRaises(h) \/ LedgerRaises(h) PROVE task' \in [Handlers -> Task]
  <2>1. "failing" \in PCs
    BY DEF PCs
  <2> QED BY <1>6, <2>1, GotoType DEF SpawnRaises, LedgerRaises
<1>7. ASSUME SpawnRaises(h) PROVE TypeOK'
  <2>1. Reader(h) \in [sess : Nat, resume : Nat]
    BY DEF Reader, TypeOK, Task
  <2> QED BY <1>6, <1>7, <2>1 DEF SpawnRaises, TypeOK
<1>8. ASSUME LedgerRaises(h) PROVE TypeOK'
  BY <1>6, <1>8 DEF LedgerRaises, TypeOK
<1>9. ASSUME WriteRaises(h) PROVE TypeOK'
  <2>0. /\ Chat(h) \in Chats /\ Mid(h) \in MsgIds /\ task[h].upd \in Updates
        /\ task[h].eng \in Nat
    <3>1. Busy(h)
      BY <1>9 DEF WriteRaises, At, Busy
    <3> QED BY <3>1, OwnUpdate DEF TypeOK, Task
  <2>1. task' \in [Handlers -> Task]
    <3>1. "failing" \in PCs
      BY DEF PCs
    <3> QED BY <1>9, <3>1, GotoType DEF WriteRaises
  <2>2. CASE UpsertOperator(Chat(h))
    BY <1>9, <2>0, <2>1, <2>2 DEF WriteRaises, UpsertOperator, TypeOK
  <2>3. CASE InsertMessage(Mid(h), task[h].upd)
    <3>1. messages' \in [MsgIds -> Row]
      BY <2>0, <2>3, TypeMessages
    <3> QED BY <1>9, <2>1, <2>3, <3>1 DEF WriteRaises, InsertMessage, TypeOK
  <2>4. CASE CreateEngagement(Chat(h))
    <3>1. engagements' \in Seq(Engagement)
      BY <2>0, <2>4, TypeEngagements
    <3> QED BY <1>9, <2>1, <2>4, <3>1 DEF WriteRaises, CreateEngagement, TypeOK
  <2>5. CASE CreateSession(task[h].eng) \/ HalfSession(task[h].eng)
    <3>1. engagements' \in Seq(Engagement) /\ sessions' \in Seq(Session)
      BY <2>0, <2>5, TypeEngagements, TypeSessions
    <3>2. UNCHANGED <<operators, messages, expired>>
      BY <2>5 DEF CreateSession, HalfSession, InsertSession
    <3> QED BY <1>9, <2>1, <3>1, <3>2 DEF WriteRaises, TypeOK
  <2> QED BY <1>9, <2>2, <2>3, <2>4, <2>5 DEF WriteRaises
<1> QED BY <1>1, <1>2, <1>3, <1>4, <1>5, <1>7, <1>8, <1>9 DEF Slash, Ending, Raise

LEMMA TypeLife ==
    ASSUME TypeOK, Poll \/ LifeCycle \/ Elapse \/ LateAttach
    PROVE  TypeOK'
<1> USE DispatchAssumption DEF telegram, daemon, history, ledger, tables
<1>1. ASSUME Poll PROVE TypeOK'
  BY <1>1 DEF Poll, TypeOK
<1>2. ASSUME Boot \/ Signal \/ StopPolling \/ Stopped \/ Close PROVE TypeOK'
  BY <1>2 DEF Boot, Signal, StopPolling, Stopped, Close, NextState, Stages, States, TypeOK
<1>3. ASSUME Crash PROVE TypeOK'
  <2>1. Idle \in Task
    BY DEF Idle, Task, PCs
  <2>2. task' \in [Handlers -> Task]
    BY <1>3, <2>1 DEF Crash
  <2> QED BY <1>3, <2>2 DEF Crash, Stages, States, TypeOK
<1>4. ASSUME Elapse PROVE TypeOK'
  BY <1>4 DEF Elapse, Expire, TypeOK
<1>5. ASSUME LateAttach PROVE TypeOK'
  <2>1. PICK r \in readers :
          /\ \E id \in ClaudeIds(r) : AttachClaude(r.sess, id)
          /\ readers' = readers \ {r}
    BY <1>5 DEF LateAttach
  <2>2. sessions' \in Seq(Session)
    BY <2>1, TypeSessions DEF ClaudeIds, TypeOK
  <2> QED BY <1>5, <2>1, <2>2 DEF LateAttach, AttachClaude, TypeOK
<1> QED BY <1>1, <1>2, <1>3, <1>4, <1>5 DEF LifeCycle

\* A handler's step leaves the other handlers alone, and its own update
\* until it returns.
Works(h) == /\ taken' = taken /\ Busy(h)
            /\ \/ task'[h] = Idle
               \/ task'[h].upd = task[h].upd /\ task'[h].pc # "idle"

LEMMA Frame ==
    ASSUME TypeOK, NEW h \in Handlers, Handler(h)
    PROVE  /\ \A k \in Handlers \ {h} : task'[k] = task[k]
           /\ inbox' = inbox /\ confirmed' = confirmed /\ fetched' = fetched
           /\ Reject(h) \/ Receive(h) \/ Works(h)
<1> USE DEF telegram, Works, Busy, At, Goto, Return
<1>0. task \in [Handlers -> Task] /\ task[h] \in Task
  BY DEF TypeOK
<1> USE DEF Task
<1>1. CASE Intake(h)
  BY <1>0, <1>1 DEF Intake, Reject, Receive, Dequeue, Upsert, Insert, Skip
<1>2. CASE Routing(h)
  <2>1. CASE Classify(h) \/ Route(h)
    BY <1>0, <2>1 DEF Classify, Route
  <2>2. CASE Lookup(h)
    BY <1>0, <2>2 DEF Lookup
  <2>3. CASE NewEngagement(h) \/ Join(h)
    BY <1>0, <2>3 DEF NewEngagement, Join
  <2> QED BY <1>2, <2>1, <2>2, <2>3 DEF Routing
<1>3. CASE Slash(h)
  BY <1>0, <1>3 DEF Slash, SlashEnds, SlashReads
<1>4. CASE Spawn(h)
  <2>1. CASE Gate(h) \/ Link(h) \/ Launch(h) \/ Throttle(h)
    BY <1>0, <2>1 DEF Gate, Link, Launch, Throttle
  <2>2. CASE Create(h) \/ Finalize(h)
    BY <1>0, <2>2 DEF Create, Finalize
  <2>3. CASE Attach(h)
    BY <1>0, <2>3 DEF Attach, Unreported
  <2>4. CASE Exit(h)
    BY <1>0, <2>4 DEF Exit
  <2> QED BY <1>4, <2>1, <2>2, <2>3, <2>4 DEF Spawn
<1>5. CASE Ending(h)
  BY <1>0, <1>5 DEF Ending, Reply, Settle
<1>6. CASE Raise(h)
  BY <1>0, <1>6 DEF Raise, ReplyRaises, SpawnRaises, Unreported, LedgerRaises,
                    WriteRaises
<1> QED BY <1>1, <1>2, <1>3, <1>4, <1>5, <1>6 DEF Handler

LEMMA QueueStep ==
    ASSUME TypeOK, QueueOK, [Next]_vars, TypeOK'
    PROVE  QueueOK'
<1>1. ASSUME NEW h \in Handlers, Handler(h) PROVE QueueOK'
  <2>1. CASE Reject(h)
    BY <1>1, <2>1 DEF Reject, Dequeue, QueueOK, TypeOK, Busy, Allowed
  <2>2. CASE Receive(h)
    <3>1. /\ task'[h].upd = taken + 1 /\ task'[h].pc = "upsert"
          /\ taken' = taken + 1 /\ taken < fetched
          /\ Allowed(taken + 1) /\ inbox' = inbox
          /\ confirmed' = confirmed /\ fetched' = fetched
      BY <2>2 DEF Receive, Dequeue, TypeOK, Task
    <3>2. \A k \in Handlers \ {h} : task'[k] = task[k]
      BY <1>1, Frame
    <3>3. \A k \in Handlers : Busy(k) => task[k].upd # taken + 1
      BY DEF QueueOK, TypeOK
    <3>4. taken \in 0..N /\ fetched \in 0..N
      BY DEF TypeOK
    <3>5. \A k \in Handlers : (IF Busy(k) THEN /\ task[k].upd \in 1..taken
                                                 /\ Allowed(task[k].upd)
                                            ELSE task[k] = Idle)'
      BY <3>1, <3>2, <3>4 DEF QueueOK, Busy, Allowed
    <3>6. \A k, l \in Handlers : k # l /\ Busy(k)' => task'[k].upd # task'[l].upd
      <4>1. SUFFICES ASSUME NEW k \in Handlers, NEW l \in Handlers, k # l, Busy(k)'
                     PROVE  task'[k].upd # task'[l].upd
        OBVIOUS
      <4>2. ~ Busy(l) => task[l].upd = 0
        BY DEF QueueOK, Idle
      <4>3. CASE k = h
        BY <3>1, <3>2, <3>3, <3>4, <4>1, <4>2, <4>3
      <4>4. CASE l = h
        BY <3>1, <3>2, <3>3, <3>4, <4>1, <4>4 DEF Busy
      <4>5. CASE k # h /\ l # h
        BY <3>2, <4>1, <4>5 DEF QueueOK, Busy
      <4> QED BY <4>3, <4>4, <4>5
    <3> QED BY <3>1, <3>4, <3>5, <3>6 DEF QueueOK
  <2>3. CASE Works(h)
    <3>1. /\ \A k \in Handlers \ {h} : task'[k] = task[k]
          /\ inbox' = inbox /\ confirmed' = confirmed /\ fetched' = fetched
      BY <1>1, Frame
    <3>2. Idle.pc = "idle"
      BY DEF Idle
    <3>3. /\ taken' = taken /\ Busy(h)
          /\ task'[h] = Idle \/ (task'[h].upd = task[h].upd /\ task'[h].pc # "idle")
      BY <2>3 DEF Works
    <3>4. \A k \in Handlers : (IF Busy(k) THEN /\ task[k].upd \in 1..taken
                                                 /\ Allowed(task[k].upd)
                                            ELSE task[k] = Idle)'
      BY <3>1, <3>2, <3>3 DEF QueueOK, Busy, Allowed
    <3>5. \A k, l \in Handlers : k # l /\ Busy(k)' => task'[k].upd # task'[l].upd
      <4>1. SUFFICES ASSUME NEW k \in Handlers, NEW l \in Handlers, k # l, Busy(k)'
                     PROVE  task'[k].upd # task'[l].upd
        OBVIOUS
      <4>2. \A j \in Handlers : task'[j].upd = task[j].upd \/ task'[j] = Idle
        BY <3>1, <3>3
      <4>3. Busy(k) /\ task'[k].upd = task[k].upd /\ task[k].upd \in 1..taken
        BY <3>1, <3>2, <3>3, <4>1 DEF Busy, QueueOK
      <4>4. task[k].upd # task[l].upd
        BY <4>1, <4>3 DEF QueueOK
      <4> QED BY <4>2, <4>3, <4>4 DEF Idle, TypeOK
    <3> QED BY <3>1, <3>3, <3>4, <3>5 DEF QueueOK
  <2> QED BY <1>1, <2>1, <2>2, <2>3, Frame
<1>2. ASSUME Poll PROVE QueueOK'
  BY <1>2, DispatchAssumption DEF Poll, QueueOK, TypeOK, Busy, Allowed
<1>3. ASSUME LifeCycle PROVE QueueOK'
  <2>1. CASE Crash
    BY <2>1, DispatchAssumption DEF Crash, QueueOK, TypeOK, Busy, Idle
  <2>2. CASE Boot \/ Signal \/ Stopped \/ Close
    BY <2>2 DEF Boot, Signal, Stopped, Close, telegram, QueueOK, Busy, Allowed
  <2>3. CASE StopPolling
    BY <2>3 DEF StopPolling, QueueOK, TypeOK, Busy, Allowed
  <2> QED BY <1>3, <2>1, <2>2, <2>3 DEF LifeCycle
<1>4. ASSUME Elapse \/ LateAttach \/ UNCHANGED vars PROVE QueueOK'
  BY <1>4 DEF Elapse, LateAttach, vars, telegram, QueueOK, Busy, Allowed
<1> QED BY <1>1, <1>2, <1>3, <1>4 DEF Next

LEMMA RefsStep ==
    ASSUME Base, [Next]_vars, TypeOK'
    PROVE  RefsOK'
<1> USE DEF Base
<1>0. task \in [Handlers -> Task]
  BY DEF TypeOK
<1>1. ASSUME UNCHANGED <<engagements, sessions>>,
             \A h \in Handlers : task'[h].cur \in {0, task[h].cur}
      PROVE  RefsOK'
  BY <1>1, RowTypes DEF RefsOK, SessIds
<1>2. ASSUME NEW h \in Handlers, Handler(h) PROVE RefsOK'
  <2> USE DEF ledger, tables, Goto, Return, Idle, Task
  <2>1. CASE Lookup(h)
    BY <1>0, <2>1, RowTypes DEF Lookup, RefsOK, SessIds, EngIds
  <2>2. CASE NewEngagement(h) \/ (WriteRaises(h) /\ CreateEngagement(Chat(h)))
    <3>1. /\ engagements' = Append(engagements,
                  [operator |-> Chat(h), ended |-> FALSE, current |-> 0])
          /\ sessions' = sessions
      BY <2>2 DEF NewEngagement, CreateEngagement
    <3>2. \A k \in Handlers : task'[k].cur \in {0, task[k].cur}
      <4>1. CASE NewEngagement(h)
        BY <1>0, <4>1 DEF NewEngagement
      <4>2. CASE WriteRaises(h)
        BY <1>0, <4>2 DEF WriteRaises
      <4> QED BY <2>2, <4>1, <4>2
    <3>3. Chat(h) \in Chats
      BY <2>2, OwnUpdate DEF NewEngagement, WriteRaises, At, Busy
    <3>4. [operator |-> Chat(h), ended |-> FALSE, current |-> 0] \in Engagement
      BY <3>3 DEF Engagement
    <3>5. /\ DOMAIN engagements' = 1..Len(engagements) + 1
          /\ \A e \in 1..Len(engagements) : engagements'[e] = engagements[e]
          /\ engagements'[Len(engagements) + 1].current = 0
      BY <3>1, <3>4, AppendProperties, LenProperties DEF TypeOK
    <3> QED BY <3>1, <3>2, <3>5, RowTypes DEF RefsOK, SessIds, EngIds
  <2> DEFINE Half == WriteRaises(h) /\ HalfSession(task[h].eng)
             Whole == WriteRaises(h) /\ CreateSession(task[h].eng)
  <2>3. CASE Create(h) \/ Whole \/ Half
    <3>1. \A k \in Handlers : task'[k].cur \in {0, task[k].cur}
      BY <1>0, <2>3 DEF Create, WriteRaises
    <3>2. /\ DOMAIN engagements' = DOMAIN engagements
          /\ \A e \in DOMAIN engagements :
               engagements'[e].current \in {engagements[e].current, Len(sessions) + 1}
      BY <1>0, <2>3, RowTypes DEF Create, CreateSession, HalfSession, NextSession, Engagement
    <3>3. [eng |-> task[h].eng, claude |-> 0, status |-> "spawning"] \in Session
      BY <1>0 DEF Session, Open
    <3>4. sessions' = Append(sessions, [eng |-> task[h].eng, claude |-> 0, status |-> "spawning"])
      BY <2>3 DEF Create, CreateSession, HalfSession, InsertSession
    <3>5. Len(sessions') = Len(sessions) + 1 /\ Len(sessions) \in Nat
      BY <3>3, <3>4, AppendProperties, RowTypes DEF TypeOK
    <3> QED BY <3>1, <3>2, <3>5 DEF RefsOK, SessIds
  <2>4. CASE SlashEnds(h)
    <3>1. /\ DOMAIN engagements' = DOMAIN engagements
          /\ \A e \in DOMAIN engagements : engagements'[e].current = engagements[e].current
          /\ sessions' = sessions
          /\ \A k \in Handlers : task'[k].cur = task[k].cur
      BY <1>0, <2>4, RowTypes DEF SlashEnds, EndEngagement, Engagement
    <3> QED BY <3>1 DEF RefsOK, SessIds
  <2>5. CASE Attach(h) \/ Finalize(h)
    <3>1. /\ engagements' = engagements
          /\ Len(sessions') = Len(sessions)
          /\ \A k \in Handlers : task'[k].cur = task[k].cur
      <4>1. sessions \in Seq(Session) /\ sessions' \in Seq(Session)
        BY DEF TypeOK
      <4>2. CASE Attach(h)
        <5>1. DOMAIN sessions' = DOMAIN sessions /\ engagements' = engagements /\ task' = task
          BY <4>2 DEF Attach, AttachClaude
        <5> QED BY <4>1, <5>1, LenProperties
      <4>3. CASE Finalize(h)
        <5>1. DOMAIN sessions' = DOMAIN sessions /\ engagements' = engagements
          BY <4>3 DEF Finalize, FinalizeSession
        <5>2. \A k \in Handlers : task'[k].cur = task[k].cur
          BY <1>0, <4>3 DEF Finalize
        <5> QED BY <4>1, <5>1, <5>2, LenProperties
      <4> QED BY <2>5, <4>2, <4>3
    <3> QED BY <3>1 DEF RefsOK, SessIds
  <2>6. CASE Intake(h) \/ Classify(h) \/ Join(h) \/ Route(h) \/ SlashReads(h)
             \/ Ending(h) \/ ReplyRaises(h) \/ SpawnRaises(h) \/ LedgerRaises(h)
    BY <1>0, <1>1, <2>6
       DEF Intake, Reject, Receive, Dequeue, Upsert, UpsertOperator, Insert, InsertMessage,
           Skip, Classify, UpdateMessage, Join, Route, SlashReads, Ending, Reply, Settle,
           ReplyRaises, SpawnRaises, LedgerRaises
  <2>7. CASE Gate(h) \/ Link(h) \/ Launch(h) \/ Exit(h) \/ Throttle(h)
    <3>1. CASE Exit(h)
      BY <1>0, <1>1, <3>1 DEF Exit
    <3>2. CASE Gate(h) \/ Link(h) \/ Launch(h) \/ Throttle(h)
      BY <1>0, <1>1, <3>2 DEF Gate, Link, UpdateMessage, Launch, Throttle
    <3> QED BY <2>7, <3>1, <3>2
  <2>8. CASE WriteRaises(h) /\ UNCHANGED <<engagements, sessions>>
    BY <1>0, <1>1, <2>8 DEF WriteRaises
  <2>9. WriteRaises(h) => \/ CreateEngagement(Chat(h)) \/ Whole \/ Half
                          \/ UNCHANGED <<engagements, sessions>>
    BY DEF WriteRaises, UpsertOperator, InsertMessage
  <2> QED BY <1>2, <2>1, <2>2, <2>3, <2>4, <2>5, <2>6, <2>7, <2>8, <2>9
          DEF Handler, Routing, Slash, Spawn, Raise
<1>3. ASSUME LateAttach PROVE RefsOK'
  <2>1. /\ sessions \in Seq(Session) /\ sessions' \in Seq(Session)
        /\ DOMAIN sessions' = DOMAIN sessions
        /\ UNCHANGED <<engagements, task>>
    BY <1>3 DEF LateAttach, AttachClaude, TypeOK
  <2>2. Len(sessions') = Len(sessions)
    BY <2>1, LenProperties
  <2> QED BY <2>1, <2>2 DEF RefsOK, SessIds
<1>4. ASSUME Poll \/ LifeCycle \/ Elapse \/ UNCHANGED vars PROVE RefsOK'
  BY <1>1, <1>4 DEF Poll, LifeCycle, Boot, Signal, StopPolling, Stopped, Close, Crash, Idle, Elapse,
                    Expire, vars, ledger, tables
<1> QED BY <1>2, <1>3, <1>4 DEF Next

\* Types are kept by every step.
LEMMA TypeStep ==
    ASSUME Base, [Next]_vars
    PROVE  TypeOK'
<1> USE DEF Base
<1>1. CASE UNCHANGED vars
  BY <1>1 DEF vars, ledger, tables, telegram, daemon, history, TypeOK
<1> QED BY <1>1, TypeIntake, TypeRouting, TypeSpawn, TypeEnding, TypeLife DEF Next, Handler

LEMMA BaseInit == Init => Base
<1> SUFFICES ASSUME Init PROVE Base
  OBVIOUS
<1> USE DispatchAssumption DEF Init, LedgerInit
<1>1. task \in [Handlers -> Task]
  <2>1. Idle \in Task
    BY DEF Idle, Task, PCs
  <2> QED BY <2>1
<1>2. messages \in [MsgIds -> Row]
  BY DEF NoRow, Row
<1>3. engagements \in Seq(Engagement) /\ sessions \in Seq(Session)
  BY EmptySeq
<1>4. TypeOK
  BY <1>1, <1>2, <1>3 DEF TypeOK, Stages, States
<1>5. QueueOK /\ RefsOK
  <2>1. DOMAIN engagements = {}
    BY <1>3, <1>4, RowTypes, EmptySeq DEF EngIds
  <2> QED BY <2>1, RowTypes, <1>4 DEF QueueOK, RefsOK, SessIds, Busy, Idle
<1> QED BY <1>4, <1>5 DEF Base

\* In every reachable state each variable has its type (TypeOK), and with it
\* the queue counters are ordered and no two handlers work on one update.
THEOREM TypeCorrect == Spec => []TypeOK
<1>1. Base /\ [Next]_vars => Base'
  BY TypeStep, QueueStep, RefsStep DEF Base
<1>2. Base => TypeOK
  BY DEF Base
<1> QED BY BaseInit, <1>1, <1>2, PTL DEF Spec

-----------------------------------------------------------------------------
(* Rows: who owns which, and what was done for it *)

\* No handler comes to own a row, and owners keep their update.
KeepsOwners ==
    \A k \in Handlers : Owns(k)' => Owns(k) /\ task'[k].upd = task[k].upd

\* Two handlers in _dispatch work on different rows.
LEMMA DistinctRows ==
    ASSUME Base, RowsOK, NEW h \in Handlers, NEW k \in Handlers, h # k, Owns(h), Owns(k)
    PROVE  Mid(h) # Mid(k)
<1>1. task[h].upd # task[k].upd
  BY DEF Base, QueueOK, Owns, Before, Busy
<1>2. RowOf(h).upd = task[h].upd /\ RowOf(k).upd = task[k].upd
  BY DEF RowsOK
<1> QED BY <1>1, <1>2 DEF RowOf

LEMMA OwnerFacts ==
    ASSUME Base, RowsOK, NEW h \in Handlers, Owns(h)
    PROVE  /\ Busy(h) /\ task[h].upd \in Updates /\ Mid(h) \in MsgIds
           /\ Mid(h) = inbox[task[h].upd].mid
           /\ RowOf(h).upd = task[h].upd /\ RowOf(h).status \in Unsettled
<1>1. Busy(h)
  BY DEF Owns, Before, Busy
<1> QED BY <1>1, OwnUpdate DEF Base, RowsOK, Mid

LEMMA RowsKept ==
    ASSUME RowsOK, UNCHANGED <<messages, inbox>>, KeepsOwners
    PROVE  RowsOK' /\ \A u \in Updates : HasRow(u) => HasRow(u)'
<1>1. \A u \in Updates : HasRow(u) => HasRow(u)'
  BY DEF HasRow
<1>2. \A k \in Handlers : Owns(k)' => Owns(k) /\ Mid(k)' = Mid(k)
  BY DEF KeepsOwners, Mid
<1> QED BY <1>1, <1>2 DEF RowsOK, RowOf, KeepsOwners

LEMMA RowsUpdated ==
    ASSUME Base, RowsOK, NEW h \in Handlers, Owns(h),
           NEW st \in Unsettled \union Settled, NEW e, NEW s,
           UpdateMessage(Mid(h), st, e, s),
           inbox' = inbox, KeepsOwners, Owns(h)' => st \in Unsettled
    PROVE  RowsOK' /\ \A u \in Updates : HasRow(u) => HasRow(u)'
<1>0. messages \in [MsgIds -> Row] /\ Mid(h) \in MsgIds
  BY OwnerFacts DEF Base, TypeOK
<1>1. /\ messages'[Mid(h)].status = st
      /\ messages'[Mid(h)].upd = messages[Mid(h)].upd
      /\ \A m \in MsgIds \ {Mid(h)} : messages'[m] = messages[m]
  BY <1>0 DEF UpdateMessage, Row
<1>2. \A u \in Updates : HasRow(u) => HasRow(u)'
  <2>1. inbox \in [Updates -> Contents]
    BY DEF Base, TypeOK
  <2> QED BY <1>1, <2>1 DEF HasRow, Contents
<1>3. \A m \in MsgIds : IF messages'[m].status = "absent"
                         THEN messages'[m] = NoRow
                         ELSE /\ messages'[m].upd \in Updates
                              /\ inbox'[messages'[m].upd].mid = m
  <2>1. messages[Mid(h)].status # "absent"
    BY OwnerFacts DEF RowOf, Unsettled, Pending
  <2>2. st # "absent"
    BY DEF Unsettled, Pending, Settled
  <2> QED BY <1>0, <1>1, <2>1, <2>2 DEF RowsOK
<1>4. ASSUME NEW k \in Handlers, Owns(k)'
      PROVE  RowOf(k)'.upd = task'[k].upd /\ RowOf(k)'.status \in Unsettled
  <2>1. Owns(k) /\ task'[k].upd = task[k].upd /\ Mid(k)' = Mid(k)
    BY <1>4 DEF KeepsOwners, Mid
  <2>2. RowOf(k).upd = task[k].upd /\ RowOf(k).status \in Unsettled /\ Mid(k) \in MsgIds
    BY <2>1, OwnerFacts
  <2>3. CASE k = h
    BY <1>1, <1>4, <2>1, <2>2, <2>3 DEF RowOf
  <2>4. CASE k # h
    BY <1>1, <2>1, <2>2, <2>4, DistinctRows DEF RowOf
  <2> QED BY <2>3, <2>4
<1> QED BY <1>2, <1>3, <1>4 DEF RowsOK

LEMMA RowsInserted ==
    ASSUME Base, RowsOK, NEW h \in Handlers, Busy(h), ~ IsReplay(Mid(h)),
           InsertMessage(Mid(h), task[h].upd), inbox' = inbox,
           \A k \in Handlers \ {h} : task'[k] = task[k],
           Owns(h)' => task'[h].upd = task[h].upd
    PROVE  RowsOK' /\ \A u \in Updates : HasRow(u) => HasRow(u)'
<1>0. /\ messages \in [MsgIds -> Row] /\ inbox \in [Updates -> Contents]
  BY DEF Base, TypeOK
<1>1. Mid(h) \in MsgIds /\ task[h].upd \in Updates
  BY OwnUpdate DEF Base
<1>2. /\ messages[Mid(h)] = NoRow /\ messages[Mid(h)].status = "absent"
      /\ messages'[Mid(h)].upd = task[h].upd /\ messages'[Mid(h)].status = "received"
      /\ \A m \in MsgIds \ {Mid(h)} : messages'[m] = messages[m]
  BY <1>0, <1>1 DEF IsReplay, InsertMessage, RowsOK
<1>4. \A u \in Updates : HasRow(u) => HasRow(u)'
  BY <1>0, <1>2, DispatchAssumption DEF HasRow, Contents, NoRow, Updates
<1>5. \A m \in MsgIds : IF messages'[m].status = "absent"
                         THEN messages'[m] = NoRow
                         ELSE /\ messages'[m].upd \in Updates
                              /\ inbox'[messages'[m].upd].mid = m
  BY <1>1, <1>2 DEF RowsOK, Mid
<1>6. ASSUME NEW k \in Handlers, Owns(k)'
      PROVE  RowOf(k)'.upd = task'[k].upd /\ RowOf(k)'.status \in Unsettled
  <2>1. task'[k].upd = task[k].upd /\ Mid(k)' = Mid(k)
    BY <1>6 DEF Mid
  <2>2. CASE k = h
    BY <1>2, <2>1, <2>2 DEF RowOf, Unsettled, Pending
  <2>3. CASE k # h
    <3>1. Owns(k)
      BY <1>6, <2>3 DEF Owns
    <3>2. RowOf(k).upd = task[k].upd /\ RowOf(k).status \in Unsettled /\ Mid(k) \in MsgIds
      BY <3>1, OwnerFacts
    <3>3. Mid(k) # Mid(h)
      BY <1>2, <3>2 DEF RowOf, Unsettled, Pending
    <3> QED BY <1>2, <2>1, <3>2, <3>3 DEF RowOf
  <2> QED BY <2>2, <2>3
<1> QED BY <1>4, <1>5, <1>6 DEF RowsOK

\* A step of h that ends in _dispatch only if it began there keeps the owners.
LEMMA OwnersKept ==
    ASSUME Base, NEW h \in Handlers, Handler(h), Owns(h)' => Owns(h)
    PROVE  KeepsOwners
<1>1. \A k \in Handlers \ {h} : task'[k] = task[k]
  BY Frame DEF Base
<1>2. Owns(h)' => task'[h].upd = task[h].upd
  <2>1. CASE Reject(h)
    BY <2>1 DEF Reject
  <2>2. CASE Receive(h)
    BY <2>2 DEF Receive, Owns, Before, Base, TypeOK, Task
  <2>3. CASE Works(h)
    BY <2>3 DEF Works, Owns, Before, Idle
  <2> QED BY <2>1, <2>2, <2>3, Frame DEF Base
<1> QED BY <1>1, <1>2 DEF KeepsOwners, Owns

\* What a step may do to the message table and to the handlers' rows.
LEMMA RowsStep ==
    ASSUME Base, RowsOK, [Next]_vars
    PROVE  RowsOK' /\ \A u \in Updates : HasRow(u) => HasRow(u)'
<1> USE DEF ledger, tables
<1>0. task \in [Handlers -> Task]
  BY DEF Base, TypeOK
<1>1. ASSUME NEW h \in Handlers, Handler(h)
      PROVE  RowsOK' /\ \A u \in Updates : HasRow(u) => HasRow(u)'
  <2>0. inbox' = inbox
    BY <1>1, Frame DEF Base
  <2>a. \A k \in Handlers \ {h} : task'[k] = task[k]
    BY <1>1, Frame DEF Base
  <2>1. CASE Insert(h)
    <3>1. Busy(h) /\ task'[h].upd = task[h].upd
      BY <1>0, <2>1 DEF Insert, At, Busy, Goto, Task
    <3> QED BY <2>0, <2>a, <2>1, <3>1, RowsInserted DEF Insert
  <2>2. ASSUME Owns(h), NEW st \in Unsettled \union Settled, NEW e, NEW s,
               UpdateMessage(Mid(h), st, e, s), Owns(h)' => st \in Unsettled
        PROVE  RowsOK' /\ \A u \in Updates : HasRow(u) => HasRow(u)'
    BY <1>1, <2>0, <2>2, OwnersKept, RowsUpdated
  <2>3. CASE Classify(h)
    BY <2>2, <2>3 DEF Classify, At, Owns, Before, Unsettled, Pending
  <2>4. CASE Route(h)
    BY <2>2, <2>4 DEF Route, At, Owns, Before, Unsettled
  <2>5. CASE Link(h)
    BY <2>2, <2>5 DEF Link, At, Owns, Before, Unsettled
  <2>6. CASE Settle(h)
    <3>1. Owns(h) /\ ~ Owns(h)' /\ Verdict(task[h].pc) \in Settled
      BY <1>0, <2>6 DEF Settle, Return, Idle, Owns, Before, Verdict, Settled
    <3> QED BY <2>2, <2>6, <3>1 DEF Settle
  <2>7. ASSUME messages' = messages, Owns(h)' => Owns(h)
        PROVE  RowsOK' /\ \A u \in Updates : HasRow(u) => HasRow(u)'
    BY <1>1, <2>0, <2>7, OwnersKept, RowsKept
  <2>8. CASE Reject(h) \/ Receive(h) \/ Upsert(h) \/ Skip(h)
    <3>1. messages' = messages /\ (Owns(h)' => Owns(h))
      BY <1>0, <2>8 DEF Reject, Receive, Upsert, UpsertOperator, Skip, Goto, Return, Idle,
                        Owns, Before, Task
    <3> QED BY <2>7, <3>1
  <2>9. CASE Lookup(h) \/ NewEngagement(h) \/ Join(h) \/ Slash(h) \/ Gate(h) \/ Create(h)
    <3>1. messages' = messages /\ Owns(h)
      BY <2>9 DEF Lookup, NewEngagement, CreateEngagement, Join, Slash, SlashEnds,
                  EndEngagement, SlashReads, Gate, Create, CreateSession, InsertSession, At, Owns, Before
    <3> QED BY <2>7, <3>1
  <2>10. CASE Launch(h) \/ Attach(h) \/ Exit(h) \/ Throttle(h) \/ Finalize(h)
    <3>1. messages' = messages /\ Owns(h)
      BY <2>10 DEF Launch, Attach, Unreported, AttachClaude, Exit, Throttle, Finalize,
                   FinalizeSession, At, Owns, Before
    <3> QED BY <2>7, <3>1
  <2>11. CASE Reply(h) \/ ReplyRaises(h) \/ SpawnRaises(h)
    <3>1. messages' = messages /\ Owns(h)
      BY <2>11 DEF Reply, ReplyRaises, SpawnRaises, Unreported, At, Owns, Before
    <3> QED BY <2>7, <3>1
  <2>12. CASE LedgerRaises(h)
    <3>1. messages' = messages /\ (Owns(h)' => Owns(h))
      BY <1>0, <2>12 DEF LedgerRaises, Goto, Return, Idle, Owns, Before, Task
    <3> QED BY <2>7, <3>1
  <2>13. CASE WriteRaises(h)
    <3>0. Busy(h) /\ (Owns(h)' => Owns(h))
      BY <1>0, <2>13 DEF WriteRaises, At, Busy, Goto, Return, Idle, Owns, Before, Task
    <3>1. CASE At(h, "insert") /\ ~ IsReplay(Mid(h)) /\ InsertMessage(Mid(h), task[h].upd)
      <4>1. ~ Owns(h)
        BY <3>1 DEF At, Owns, Before
      <4> QED BY <2>0, <2>a, <3>0, <3>1, <4>1, RowsInserted
    <3>2. CASE messages' = messages
      BY <2>7, <3>0, <3>2
    <3> QED BY <2>13, <3>1, <3>2 DEF WriteRaises, UpsertOperator, CreateEngagement,
                CreateSession, HalfSession, InsertSession
  <2> QED BY <1>1, <2>1, <2>3, <2>4, <2>5, <2>6, <2>8, <2>9, <2>10, <2>11, <2>12, <2>13
          DEF Handler, Intake, Routing, Spawn, Ending, Raise
<1>2. ASSUME Poll \/ LifeCycle \/ Elapse \/ LateAttach \/ UNCHANGED vars
      PROVE  RowsOK' /\ \A u \in Updates : HasRow(u) => HasRow(u)'
  <2>1. UNCHANGED <<messages, inbox>>
    BY <1>2 DEF Poll, LifeCycle, Boot, Signal, StopPolling, Stopped, Close, Crash, Elapse, Expire,
                LateAttach, AttachClaude, telegram, vars
  <2>2. KeepsOwners
    <3>1. CASE Crash
      BY <3>1 DEF Crash, KeepsOwners, Owns, Before, Idle
    <3>2. CASE task' = task
      BY <3>2 DEF KeepsOwners, Owns
    <3> QED BY <1>2, <3>1, <3>2 DEF Poll, LifeCycle, Boot, Signal, StopPolling, Stopped, Close,
                                Elapse, LateAttach, vars
  <2> QED BY <2>1, <2>2, RowsKept
<1> QED BY <1>1, <1>2 DEF Next

\* A handler that has its counters as OnceOK wants them, after a step that
\* moves it along without launching or answering.
Advances(k) ==
    /\ task'[k].pc \in Unlaunched => task[k].pc \in Unlaunched
    /\ task'[k].pc \in Unanswered => task[k].pc \in Unanswered
    /\ task'[k].pc = "done" => task[k].pc = "done"

LEMMA OnceKept ==
    ASSUME OnceOK, KeepsOwners, UNCHANGED <<launched, answered>>,
           \A u \in Updates : HasRow(u) => HasRow(u)',
           \A k \in Handlers : Advances(k)
    PROVE  OnceOK'
<1>1. \A u \in Updates : /\ launched'[u] # 0 => HasRow(u)'
                         /\ answered'[u] # 0 => HasRow(u)'
                         /\ launched'[u] =< 1 /\ answered'[u] =< 1
  BY DEF OnceOK
<1>2. ASSUME NEW k \in Handlers
      PROVE  /\ task'[k].pc \in Unlaunched => launched'[task'[k].upd] = 0
             /\ task'[k].pc \in Unanswered => answered'[task'[k].upd] = 0
             /\ task'[k].pc = "done" => answered'[task'[k].upd] = 1
  <2>1. task'[k].pc \in Unanswered \union {"done"} => task'[k].upd = task[k].upd
    BY DEF KeepsOwners, Owns, Before, Unanswered, Unlaunched, InSession
  <2>2. task'[k].pc \in Unlaunched => task'[k].pc \in Unanswered
    BY DEF Unanswered
  <2> QED BY <2>1, <2>2 DEF Advances, OnceOK
<1> QED BY <1>1, <1>2 DEF OnceOK

LEMMA OnceStep ==
    ASSUME Base, RowsOK, OnceOK, [Next]_vars
    PROVE  OnceOK'
<1> USE DEF history
<1>0. task \in [Handlers -> Task]
  BY DEF Base, TypeOK
<1>a. \A u \in Updates : HasRow(u) => HasRow(u)'
  BY RowsStep
<1>1. ASSUME NEW h \in Handlers, Handler(h) PROVE OnceOK'
  <2>0. \A k \in Handlers \ {h} : task'[k] = task[k]
    BY <1>1, Frame DEF Base
  <2>a. \A k \in Handlers \ {h} : Advances(k)
    BY <2>0 DEF Advances
  <2>1. ASSUME UNCHANGED <<launched, answered>>, Owns(h)' => Owns(h), Advances(h)
        PROVE  OnceOK'
    BY <1>1, <1>a, <2>a, <2>1, OwnersKept, OnceKept
  <2>2. CASE Insert(h)
    <3>1. /\ \A k \in Handlers \ {h} : task'[k] = task[k]
          /\ task'[h].pc = "classify" /\ task'[h].upd = task[h].upd
          /\ UNCHANGED <<launched, answered>>
      BY <1>0, <2>0, <2>2 DEF Insert, Goto, Task
    <3>2. task[h].upd \in Updates /\ Mid(h) \in MsgIds
      BY <2>2, OwnUpdate DEF Insert, At, Busy, Base
    <3>3. ~ HasRow(task[h].upd)
      BY <2>2, <3>2, DispatchAssumption
         DEF Insert, IsReplay, RowsOK, NoRow, HasRow, Mid, Updates
    <3>4. launched[task[h].upd] = 0 /\ answered[task[h].upd] = 0
      BY <3>2, <3>3 DEF OnceOK
    <3> QED BY <1>a, <3>1, <3>4 DEF OnceOK
  <2>3. CASE Launch(h)
    <3>1. /\ task'[h].pc = "running" /\ task'[h].upd = task[h].upd
          /\ task[h].pc = "spawn" /\ answered' = answered
          /\ launched' = [launched EXCEPT ![task[h].upd] = @ + 1]
          /\ launched \in [Updates -> Nat]
      BY <1>0, <2>3 DEF Launch, Goto, At, Task, Base, TypeOK
    <3>2. Owns(h) /\ task[h].upd \in Updates /\ HasRow(task[h].upd)
      BY <3>1, OwnerFacts DEF Owns, Before, HasRow, RowOf
    <3>3. launched[task[h].upd] = 0
      BY <3>1 DEF OnceOK, Unlaunched
    <3>4. \A k \in Handlers \ {h} : Owns(k) => task[k].upd # task[h].upd
      BY <3>2, OwnerFacts DEF Base, QueueOK
    <3>5. \A u \in Updates : launched'[u] = IF u = task[h].upd THEN 1 ELSE launched[u]
      BY <3>1, <3>2, <3>3
    <3>6. \A u \in Updates : /\ launched'[u] # 0 => HasRow(u)'
                             /\ answered'[u] # 0 => HasRow(u)'
                             /\ launched'[u] =< 1 /\ answered'[u] =< 1
      BY <1>a, <3>1, <3>2, <3>5 DEF OnceOK
    <3>7. ASSUME NEW k \in Handlers
          PROVE  /\ task'[k].pc \in Unlaunched => launched'[task'[k].upd] = 0
                 /\ task'[k].pc \in Unanswered => answered'[task'[k].upd] = 0
                 /\ task'[k].pc = "done" => answered'[task'[k].upd] = 1
      <4>1. CASE k = h
        BY <3>1, <4>1 DEF OnceOK, Unlaunched, Unanswered
      <4>2. CASE k # h
        <5>1. task[k].pc \in Unlaunched => Owns(k) /\ task[k].upd \in Updates
          BY OwnerFacts DEF Unlaunched, Owns, Before
        <5> QED BY <2>0, <3>1, <3>4, <3>5, <4>2, <5>1 DEF OnceOK
      <4> QED BY <4>1, <4>2
    <3> QED BY <3>6, <3>7 DEF OnceOK
  <2>4. CASE Reply(h) \/ ReplyRaises(h)
    <3>1. PICK n \in {0, 1} :
            /\ task'[h].upd = task[h].upd
            /\ task'[h].pc \in {"done", "refused", "failing"}
            /\ task'[h].pc = "done" => n = 1
            /\ task[h].pc \in {"reply", "refuse"} /\ launched' = launched
            /\ answered' = [answered EXCEPT ![task[h].upd] = @ + n]
      BY <1>0, <2>4 DEF Reply, ReplyRaises, Goto, At, Task
    <3>2. Owns(h) /\ task[h].upd \in Updates /\ HasRow(task[h].upd)
      BY <3>1, OwnerFacts DEF Owns, Before, HasRow, RowOf
    <3>3. answered[task[h].upd] = 0 /\ answered \in [Updates -> Nat]
      BY <3>1 DEF OnceOK, Unanswered, Unlaunched, Base, TypeOK
    <3>4. \A k \in Handlers \ {h} : Owns(k) => task[k].upd # task[h].upd
      BY <3>2, OwnerFacts DEF Base, QueueOK
    <3>5. \A u \in Updates : answered'[u] = IF u = task[h].upd THEN n ELSE answered[u]
      BY <3>1, <3>2, <3>3
    <3>6. \A u \in Updates : /\ launched'[u] # 0 => HasRow(u)'
                             /\ answered'[u] # 0 => HasRow(u)'
                             /\ launched'[u] =< 1 /\ answered'[u] =< 1
      BY <1>a, <3>1, <3>2, <3>5 DEF OnceOK
    <3>7. ASSUME NEW k \in Handlers
          PROVE  /\ task'[k].pc \in Unlaunched => launched'[task'[k].upd] = 0
                 /\ task'[k].pc \in Unanswered => answered'[task'[k].upd] = 0
                 /\ task'[k].pc = "done" => answered'[task'[k].upd] = 1
      <4>1. CASE k = h
        BY <3>1, <3>2, <3>5, <4>1 DEF Unlaunched, Unanswered, InSession
      <4>2. CASE k # h
        <5>1. task[k].pc \in Unanswered \union {"done"} => Owns(k) /\ task[k].upd \in Updates
          BY OwnerFacts DEF Unlaunched, Unanswered, InSession, Owns, Before
        <5> QED BY <2>0, <3>1, <3>4, <3>5, <4>2, <5>1 DEF OnceOK
      <4> QED BY <4>1, <4>2
    <3> QED BY <3>6, <3>7 DEF OnceOK
  <2>5. CASE Reject(h) \/ Receive(h) \/ Upsert(h) \/ Skip(h) \/ Settle(h)
    <3>1. /\ UNCHANGED <<launched, answered>>
          /\ task'[h] = task[h] \/ task'[h].pc \in Before
      BY <1>0, <2>5 DEF Reject, Receive, Upsert, Skip, Settle, Goto, Return, Idle, Before, Task
    <3>2. Advances(h) /\ (Owns(h)' => Owns(h))
      BY <3>1 DEF Advances, Owns, Before, Unlaunched, Unanswered, InSession
    <3> QED BY <2>1, <3>1, <3>2
  <2>6. CASE Classify(h) \/ Lookup(h) \/ NewEngagement(h) \/ Join(h)
    <3>1. /\ UNCHANGED <<launched, answered>>
          /\ task[h].pc \in Unlaunched /\ task'[h].pc \in Unlaunched
      BY <1>0, <2>6 DEF Classify, Lookup, NewEngagement, Join, At, Goto, Unlaunched, Task
    <3>2. Advances(h) /\ Owns(h)
      BY <3>1 DEF Advances, Owns, Before, Unlaunched, Unanswered
    <3> QED BY <2>1, <3>1, <3>2
  <2>7. CASE Route(h) \/ Gate(h) \/ Create(h) \/ Link(h)
    <3>1. /\ UNCHANGED <<launched, answered>>
          /\ task[h].pc \in Unlaunched /\ task'[h].pc \in Unlaunched
      BY <1>0, <2>7 DEF Route, Gate, Create, Link, At, Goto, Unlaunched, Task
    <3>2. Advances(h) /\ Owns(h)
      BY <3>1 DEF Advances, Owns, Before, Unlaunched, Unanswered
    <3> QED BY <2>1, <3>1, <3>2
  <2>8. CASE Slash(h) \/ Attach(h) \/ Exit(h) \/ Throttle(h) \/ Finalize(h)
    <3>1. /\ UNCHANGED <<launched, answered>>
          /\ task[h].pc \in Unanswered
          /\ task'[h].pc \in {"reply"} \union InSession
          /\ task'[h].pc \in Unlaunched => task[h].pc \in Unlaunched
      <4>0. task[h] \in Task
        BY <1>0 DEF Base, TypeOK
      <4>1. CASE Slash(h) \/ Throttle(h) \/ Finalize(h)
        BY <1>0, <4>0, <4>1 DEF Slash, SlashEnds, SlashReads, Throttle, Finalize,
                        At, Goto, Unanswered, Unlaunched, InSession, Task
      <4>2. CASE Attach(h)
        BY <4>2 DEF Attach, Unreported, At, Unanswered, InSession
      <4>3. CASE Exit(h)
        BY <1>0, <4>0, <4>3 DEF Exit, At, Unanswered, Unlaunched, InSession, Task
      <4> QED BY <2>8, <4>1, <4>2, <4>3
    <3>2. Advances(h) /\ Owns(h)
      BY <3>1 DEF Advances, Owns, Before, Unlaunched, Unanswered, InSession
    <3> QED BY <2>1, <3>1, <3>2
  <2>9. CASE SpawnRaises(h) \/ LedgerRaises(h)
    <3>1. /\ UNCHANGED <<launched, answered>>
          /\ \/ task'[h].pc = "failing" /\ task[h].pc \notin Before
             \/ task'[h].pc = "idle"
      BY <1>0, <2>9 DEF SpawnRaises, Unreported, At, LedgerRaises, Goto, Return, Idle, Before, Task
    <3>2. Advances(h) /\ (Owns(h)' => Owns(h))
      BY <3>1 DEF Advances, Owns, Before, Unlaunched, Unanswered, InSession
    <3> QED BY <2>1, <3>1, <3>2
  <2>10. CASE WriteRaises(h)
    <3>1. /\ UNCHANGED <<launched, answered>>
          /\ \/ task'[h].pc = "failing" /\ task[h].pc \notin Before
             \/ task'[h].pc = "idle"
      BY <1>0, <2>10 DEF WriteRaises, At, Goto, Return, Idle, Before, Task
    <3>2. Advances(h) /\ (Owns(h)' => Owns(h))
      BY <3>1 DEF Advances, Owns, Before, Unlaunched, Unanswered, InSession
    <3> QED BY <2>1, <3>1, <3>2
  <2> QED BY <1>1, <2>2, <2>3, <2>4, <2>5, <2>6, <2>7, <2>8, <2>9, <2>10
          DEF Handler, Intake, Routing, Spawn, Ending, Raise
<1>2. ASSUME Poll \/ LifeCycle \/ Elapse \/ LateAttach \/ UNCHANGED vars PROVE OnceOK'
  <2>1. UNCHANGED <<launched, answered>>
    BY <1>2 DEF Poll, LifeCycle, Boot, Signal, StopPolling, Stopped, Close, Crash, Elapse, LateAttach,
                vars
  <2>2. KeepsOwners /\ \A k \in Handlers : Advances(k)
    <3>1. CASE Crash
      BY <3>1 DEF Crash, KeepsOwners, Owns, Before, Idle, Advances, Unlaunched, Unanswered,
                  InSession
    <3>2. CASE task' = task
      BY <3>2 DEF KeepsOwners, Owns, Advances
    <3> QED BY <1>2, <3>1, <3>2 DEF Poll, LifeCycle, Boot, Signal, StopPolling, Stopped, Close,
                                Elapse, LateAttach, vars
  <2> QED BY <1>a, <2>1, <2>2, OnceKept
<1> QED BY <1>1, <1>2 DEF Next

LEMMA OnceInit == Init => RowsOK /\ OnceOK
BY DispatchAssumption
   DEF Init, LedgerInit, RowsOK, OnceOK, NoRow, Idle, Owns, Before, Unlaunched, Unanswered,
       InSession, HasRow

\* An update's claude starts at most once and its operator gets at most one
\* reply, through redelivery, crashes, restarts and concurrent handlers.
THEOREM OnceCorrect == Spec => []AtMostOnce
<1> DEFINE Inv == Base /\ RowsOK /\ OnceOK
<1>1. Init => Inv
  BY BaseInit, OnceInit
<1>2. Inv /\ [Next]_vars => Inv'
  BY TypeStep, QueueStep, RefsStep, RowsStep, OnceStep DEF Base
<1>3. Inv => AtMostOnce
  BY DEF OnceOK, AtMostOnce
<1> QED BY <1>1, <1>2, <1>3, PTL DEF Spec

=============================================================================
