--------------------------- MODULE DispatchRefines ---------------------------
(***************************************************************************)
(* Dispatch implements its two abstract specifications: what it promises   *)
(* of one update (MessageLife) and how the daemon's state moves            *)
(* (Lifecycle).  Both for any number of concurrent handlers.               *)
(***************************************************************************)
EXTENDS DispatchSafety

-----------------------------------------------------------------------------
(* The life of an update, step by step *)

LEMMA OpenLife ==
    ASSUME IInv, NEW h \in Handlers, Owns(h)
    PROVE  task[h].upd \in Updates /\ Life(task[h].upd) = "open"
<1>1. /\ task[h].upd \in Updates /\ Mid(h) = inbox[task[h].upd].mid
      /\ RowOf(h).upd = task[h].upd /\ RowOf(h).status \in Unsettled
  BY OwnerFacts DEF IInv
<1> QED BY <1>1 DEF Life, RowOf, Unsettled, Pending, Settled

\* A step that leaves the rows' updates, and which of them are settled, as they
\* are is not visible in a life.
LEMMA SameLives ==
    ASSUME IInv, inbox' = inbox, NEW m \in MsgIds,
           \A n \in MsgIds \ {m} : messages'[n] = messages[n],
           messages'[m].upd = messages[m].upd,
           \/ messages'[m].status = messages[m].status
           \/ messages[m].status \notin Settled /\ messages'[m].status \notin Settled
    PROVE  \A u \in Updates : Life(u)' = Life(u)
<1>1. inbox \in [Updates -> Contents]
  BY DEF IInv, Base, TypeOK
<1>2. \A u \in Updates : inbox[u].mid \in MsgIds
  BY <1>1 DEF Contents
<1> QED BY <1>2 DEF Life

LEMMA LivesKept ==
    ASSUME UNCHANGED <<inbox, messages>>
    PROVE  \A u \in Updates : Life(u)' = Life(u)
BY DEF Life

LEMMA AcceptStep ==
    ASSUME IInv, inbox' = inbox, NEW h \in Handlers, Inserts(h), UNCHANGED history
    PROVE  \E u \in Updates : Messages!Accept(u)
<1>1. PICK u \in Updates : u = task[h].upd
  BY OwnUpdate DEF IInv, Base, Inserts, At, Busy
<1>2. /\ Mid(h) \in MsgIds /\ messages[Mid(h)].status = "absent"
      /\ \A n \in MsgIds \ {Mid(h)} : messages'[n] = messages[n]
      /\ messages'[Mid(h)].status = "received" /\ messages'[Mid(h)].upd = u
  BY <1>1, RowInserted DEF IInv
<1>3. messages[Mid(h)].upd \notin Updates
  BY <1>2, DispatchAssumption DEF IInv, RowsOK, NoRow, Updates
<1>4. \A v \in Updates : inbox[v].mid \in MsgIds
  BY DEF IInv, Base, TypeOK, Contents
<1>5. Mid(h) = inbox[u].mid
  BY <1>1 DEF Mid
<1>6. Life(u) = "new" /\ Life(u)' = "open"
  BY <1>2, <1>3, <1>5 DEF Life, Settled
<1>7. \A v \in Updates \ {u} : Life(v)' = Life(v)
  BY <1>2, <1>3, <1>4 DEF Life
<1>8. [v \in Updates |-> Life(v)]' = [[v \in Updates |-> Life(v)] EXCEPT ![u] = "open"]
  BY <1>6, <1>7
<1> QED BY <1>6, <1>8 DEF Messages!Accept, history

LEMMA FinishStep ==
    ASSUME IInv, inbox' = inbox, NEW h \in Handlers, Settle(h)
    PROVE  \E u \in Updates : Messages!Finish(u)
<1>0. Owns(h) /\ Mid(h) \in MsgIds
  BY MarkOwned DEF IInv, Marks
<1>1. PICK u \in Updates : u = task[h].upd /\ Life(u) = "open"
  BY <1>0, OpenLife
<1>2. Mid(h) = inbox[u].mid /\ messages[Mid(h)].upd = u
  BY <1>0, <1>1, OwnerFacts DEF IInv, RowOf
<1>3. PICK v \in {"done", "failed"} : v = Verdict(task[h].pc)
  BY DEF Verdict
<1>4. /\ \A n \in MsgIds \ {Mid(h)} : messages'[n] = messages[n]
      /\ messages'[Mid(h)].status = v /\ messages'[Mid(h)].upd = u
  BY <1>0, <1>2, <1>3, RowMarked DEF IInv, Settle
<1>5. \A w \in Updates : inbox[w].mid \in MsgIds
  BY DEF IInv, Base, TypeOK, Contents
<1>6. Life(u)' = v
  BY <1>2, <1>4 DEF Life, Settled
<1>7. \A w \in Updates \ {u} : Life(w)' = Life(w)
  BY <1>2, <1>4, <1>5 DEF Life
<1>8. [w \in Updates |-> Life(w)]' = [[w \in Updates |-> Life(w)] EXCEPT ![u] = v]
  BY <1>6, <1>7
<1>9. v = "done" => answered[u] = 1
  BY <1>1, <1>3 DEF IInv, OnceOK, Verdict
<1>10. UNCHANGED <<launched, answered>>
  BY DEF Settle, history
<1> QED BY <1>1, <1>3, <1>8, <1>9, <1>10 DEF Messages!Finish

LEMMA LaunchStep ==
    ASSUME IInv, inbox' = inbox, NEW h \in Handlers, Launch(h)
    PROVE  Messages!Launch(task[h].upd) /\ task[h].upd \in Updates
<1>1. task[h].pc = "spawn" /\ Owns(h)
  BY DEF Launch, At, Owns, Before
<1>2. task[h].upd \in Updates /\ Life(task[h].upd) = "open"
  BY <1>1, OpenLife
<1>3. launched[task[h].upd] = 0 /\ launched \in [Updates -> Nat]
  BY <1>1 DEF IInv, OnceOK, Unlaunched, Base, TypeOK
<1>4. launched' = [launched EXCEPT ![task[h].upd] = 1]
  BY <1>2, <1>3 DEF Launch
<1>5. messages' = messages /\ answered' = answered
  BY DEF Launch, ledger, tables
<1>6. [u \in Updates |-> Life(u)]' = [u \in Updates |-> Life(u)]
  BY <1>5, LivesKept
<1> QED BY <1>2, <1>3, <1>4, <1>5, <1>6 DEF Messages!Launch

LEMMA AnswerStep ==
    ASSUME IInv, inbox' = inbox, NEW h \in Handlers, Reply(h) \/ ReplyRaises(h)
    PROVE  /\ task[h].upd \in Updates
           /\ Messages!Answer(task[h].upd) \/ UNCHANGED Messages!vars
<1>1. task[h].pc \in {"reply", "refuse"} /\ Owns(h)
  BY DEF Reply, ReplyRaises, At, Owns, Before
<1>2. task[h].upd \in Updates /\ Life(task[h].upd) = "open"
  BY <1>1, OpenLife
<1>3. answered[task[h].upd] = 0 /\ answered \in [Updates -> Nat]
  BY <1>1 DEF IInv, OnceOK, Unanswered, Unlaunched, Base, TypeOK
<1>4. answered' = answered \/ answered' = [answered EXCEPT ![task[h].upd] = 1]
  BY <1>2, <1>3 DEF Reply, ReplyRaises
<1>5. messages' = messages /\ launched' = launched
  BY DEF Reply, ReplyRaises, ledger, tables
<1>6. [u \in Updates |-> Life(u)]' = [u \in Updates |-> Life(u)]
  BY <1>5, LivesKept
<1> QED BY <1>2, <1>3, <1>4, <1>5, <1>6 DEF Messages!Answer, Messages!vars

\* Every step of Dispatch is a step of MessageLife, or one it does not see.
LEMMA LifeStep ==
    ASSUME IInv, [Next]_vars
    PROVE  [Messages!Next]_(Messages!vars)
<1> USE DEF history
<1>1. ASSUME UNCHANGED <<launched, answered>>, \A u \in Updates : Life(u)' = Life(u)
      PROVE  UNCHANGED Messages!vars
  BY <1>1 DEF Messages!vars
<1>2. ASSUME NEW h \in Handlers, Handler(h) PROVE [Messages!Next]_(Messages!vars)
  <2>0. inbox' = inbox
    BY <1>2, Frame DEF IInv, Base
  <2>1. CASE Launch(h)
    BY <2>0, <2>1, LaunchStep DEF Messages!Next
  <2>2. CASE Reply(h) \/ ReplyRaises(h)
    BY <2>0, <2>2, AnswerStep DEF Messages!Next
  <2>3. CASE Settle(h)
    BY <2>0, <2>3, FinishStep DEF Messages!Next
  <2>4. CASE /\ ~ (Launch(h) \/ Reply(h) \/ ReplyRaises(h) \/ Settle(h))
             /\ UNCHANGED history
    <3>1. CASE messages' = messages
      BY <1>1, <2>0, <2>4, <3>1, LivesKept
    <3>2. CASE Inserts(h)
      BY <2>0, <2>4, <3>2, AcceptStep DEF Messages!Next
    <3>3. CASE Classify(h) \/ Route(h) \/ Link(h)
      <4>1. /\ Owns(h) /\ Mid(h) \in MsgIds /\ messages[Mid(h)].status \notin Settled
        BY <3>3, MarkOwned, OwnerFacts DEF IInv, Marks, RowOf, Unsettled, Pending, Settled
      <4>2. \E st \in Unsettled, e \in Nat, s \in Nat : UpdateMessage(Mid(h), st, e, s)
        BY <3>3, HandlerTypes DEF Classify, Route, Link, Unsettled, Pending, IInv, Base
      <4>3. /\ \A n \in MsgIds \ {Mid(h)} : messages'[n] = messages[n]
            /\ messages'[Mid(h)].upd = messages[Mid(h)].upd
            /\ messages'[Mid(h)].status \notin Settled
        BY <4>1, <4>2, RowMarked DEF IInv, Unsettled, Pending, Settled
      <4> QED BY <1>1, <2>0, <2>4, <4>1, <4>3, SameLives
    <3> QED BY <1>2, <2>4, <3>1, <3>2, <3>3, HandlerMarks DEF Marks
  <2>5. UNCHANGED history \/ Launch(h) \/ Reply(h) \/ ReplyRaises(h)
    BY <1>2, HistoryWriters
  <2> QED BY <2>1, <2>2, <2>3, <2>4, <2>5
<1>3. CASE Poll \/ LifeCycle \/ Elapse \/ LateAttach \/ UNCHANGED vars
  <2>1. UNCHANGED <<messages, inbox, launched, answered>>
    BY <1>3 DEF Poll, LifeCycle, Boot, Signal, StopPolling, Stopped, Close, Crash, Elapse, Expire,
                LateAttach, AttachClaude, vars, ledger, tables, telegram
  <2> QED BY <1>1, <2>1, LivesKept
<1> QED BY <1>2, <1>3 DEF Next

\* The daemon gives each update the life that MessageLife promises, through
\* redelivery, crashes, restarts, exceptions and concurrent handlers.
THEOREM LifeCorrect == Spec => ImplementsLife
<1>1. Init => Messages!Init
  <2>1. SUFFICES ASSUME Init PROVE Messages!Init
    OBVIOUS
  <2>2. inbox \in [Updates -> Contents]
    BY <2>1, BaseInit DEF Base, TypeOK
  <2>3. \A u \in Updates : Life(u) = "new"
    BY <2>1, <2>2, DispatchAssumption DEF Init, LedgerInit, Life, NoRow, Updates, Contents
  <2> QED BY <2>1, <2>3 DEF Init, Messages!Init
<1>2. IInv /\ [Next]_vars => [Messages!Next]_(Messages!vars)
  BY LifeStep
<1> QED BY <1>1, <1>2, InvCorrect, PTL DEF Spec, ImplementsLife, Messages!Spec

-----------------------------------------------------------------------------
(* The daemon's state *)

LEMMA SeenStep ==
    ASSUME IInv, [Next]_vars
    PROVE  [Seen!Next]_(Seen!vars)
<1> USE DEF daemon, Seen!vars, Seen!Next
<1>1. CASE Boot
  BY <1>1 DEF Boot, Seen!Boot
<1>2. CASE Signal
  BY <1>2 DEF Signal, NextState, Seen!Signal
<1>3. CASE StopPolling
  BY <1>3 DEF StopPolling, Seen!StopPolling
<1>4. CASE Stopped \/ Crash
  BY <1>4 DEF Stopped, Crash, Seen!Down
<1>5. ASSUME NEW h \in Handlers, Throttle(h) PROVE Seen!Throttle
  <2>1. stage # "down" /\ state # "degraded"
    BY <1>5 DEF Throttle, At, IInv, QuietOK, Busy
  <2> QED BY <1>5, <2>1 DEF Throttle, NextState, Seen!Throttle
<1>6. ASSUME NEW h \in Handlers, Handler(h), ~ Throttle(h) PROVE UNCHANGED <<stage, state>>
  <2>1. CASE Intake(h) \/ Routing(h) \/ Slash(h) \/ Ending(h)
    BY <2>1 DEF Intake, Reject, Receive, Upsert, Insert, Skip, Routing, Classify, Lookup,
                NewEngagement, Join, Route, Slash, SlashEnds, SlashReads, Ending, Reply, Settle
  <2>2. CASE Spawn(h) \/ Raise(h)
    BY <1>6, <2>2 DEF Spawn, Gate, Create, Link, Launch, Attach, Exit, Finalize, Raise,
                      ReplyRaises, SpawnRaises, LedgerRaises, WriteRaises
  <2> QED BY <1>6, <2>1, <2>2 DEF Handler
<1>7. CASE Poll \/ Close \/ Elapse \/ LateAttach \/ UNCHANGED vars
  BY <1>7 DEF Poll, Close, Elapse, LateAttach, vars
<1> QED BY <1>1, <1>2, <1>3, <1>4, <1>5, <1>6, <1>7 DEF Next, LifeCycle

\* Whatever the handlers do to the daemon's state is a step of Lifecycle: a quota
\* hit never moves a daemon that is down or degraded, for nothing runs claude
\* there.
THEOREM LifecycleCorrect == Spec => ImplementsLifecycle
<1>1. Init => Seen!Init
  BY DEF Init, Seen!Init
<1>2. IInv /\ [Next]_vars => [Seen!Next]_(Seen!vars)
  BY SeenStep
<1> QED BY <1>1, <1>2, InvCorrect, PTL DEF Spec, ImplementsLifecycle, Seen!Spec

=============================================================================
