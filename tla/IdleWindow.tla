----------------------------- MODULE IdleWindow -----------------------------
(***************************************************************************)
(* The idle window with the wall clock that module Ledger leaves out: each *)
(* engagement row has a last_activity_at, get_active_engagement (db.py)    *)
(* compares it with now, and decide (router.py) joins what it finds or,    *)
(* an await later, creates one.  Nothing calls touch_engagement, so a row  *)
(* keeps the time of its INSERT.  The wall clock does not step back.       *)
(***************************************************************************)
EXTENDS Integers, Sequences, FiniteSets

CONSTANTS
    Operators,
    Window,     \* idle_window_seconds
    MaxNow,     \* bound: the time the clock reaches
    MaxRows     \* bound: engagements created

ASSUME IdleWindowAssumption == Window \in Nat /\ MaxNow \in Nat /\ MaxRows \in Nat

VARIABLES
    now,        \* the wall clock
    rows,       \* engagement table: operator, last_activity_at, ended_at set?
    task,       \* the handler: its await, operator, whether it is /end or /new, engagement
    last        \* history: engagement and time of each operator's previous message

vars == <<now, rows, task, last>>

Idle == [pc |-> "idle", op |-> "none", ends |-> FALSE, eng |-> 0]
Never == [eng |-> 0, at |-> 0]

Init ==
    /\ now = 0
    /\ rows = <<>>
    /\ task = Idle
    /\ last = [op \in Operators |-> Never]

-----------------------------------------------------------------------------
(* get_active_engagement *)

\* Slip: the times of day are compared, without the date.
InWindowTimeOfDay(e) == (now - rows[e].activity) % (2 * Window + 1) =< Window

InWindow(e) == now - rows[e].activity =< Window

\* Slip: the WHERE clause without "ended_at IS NULL".
FoundEndedToo(op) == {e \in DOMAIN rows : rows[e].operator = op /\ InWindow(e)}

Found(op) == {e \in DOMAIN rows : /\ rows[e].operator = op
                                  /\ ~ rows[e].ended
                                  /\ InWindow(e)}

\* ORDER BY last_activity_at DESC LIMIT 1, or 0 for None
ActiveEngagement(op, e) ==
    \/ e = 0 /\ Found(op) = {}
    \/ e \in Found(op) /\ \A f \in Found(op) : rows[f].activity =< rows[e].activity

-----------------------------------------------------------------------------
(* One message at a time; each action is the code between two awaits *)

Lookup(op) ==
    /\ task.pc = "idle"
    /\ \E e \in 0..Len(rows), ends \in BOOLEAN :
         /\ ActiveEngagement(op, e)
         /\ task' = [pc |-> "resolve", op |-> op, ends |-> ends, eng |-> e]
    /\ UNCHANGED <<now, rows, last>>

Resolved(e) ==
    /\ task' = [task EXCEPT !.pc = "work", !.eng = e]
    /\ last' = [last EXCEPT ![task.op] = [eng |-> e, at |-> now]]

Join ==
    /\ task.pc = "resolve" /\ task.eng # 0
    /\ Resolved(task.eng)
    /\ UNCHANGED <<now, rows>>

\* Slip: the time at which the window will have elapsed is stored.
StampDeadline == now + Window

\* strftime('now'), the column's DEFAULT
Stamp == now

Create ==
    /\ task.pc = "resolve" /\ task.eng = 0
    /\ Len(rows) < MaxRows
    /\ rows' = Append(rows, [operator |-> task.op, activity |-> Stamp, ended |-> FALSE])
    /\ Resolved(Len(rows) + 1)
    /\ UNCHANGED now

\* Slip: end_engagement writes last_activity_at too.
CloseTouching ==
    /\ task.pc = "work" /\ task.ends
    /\ rows' = [rows EXCEPT ![task.eng].ended = TRUE, ![task.eng].activity = now]
    /\ task' = Idle
    /\ UNCHANGED <<now, last>>

\* /end and /new
Close ==
    /\ task.pc = "work" /\ task.ends
    /\ rows' = [rows EXCEPT ![task.eng].ended = TRUE]
    /\ task' = Idle
    /\ UNCHANGED <<now, last>>

\* Everything else done for a message leaves the engagement's times alone, and
\* so does an exception at any await.
Finish ==
    /\ task.pc # "idle"
    /\ task' = Idle
    /\ UNCHANGED <<now, rows, last>>

Tick ==
    /\ now < MaxNow
    /\ now' = now + 1
    /\ UNCHANGED <<rows, task, last>>

Next == (\E op \in Operators : Lookup(op)) \/ Join \/ Create \/ Close \/ Finish \/ Tick

Spec == Init /\ [][Next]_vars

-----------------------------------------------------------------------------

\* Each column and field has a value of its type; no time lies ahead of the clock.
TypeOK ==
    /\ now \in Nat
    /\ rows \in Seq([operator : Operators, activity : 0..now, ended : BOOLEAN])
    /\ task \in [pc : {"idle", "resolve", "work"}, op : Operators \union {"none"},
                 ends : BOOLEAN, eng : 0..Len(rows)]
    /\ last \in [Operators -> [eng : 0..Len(rows), at : 0..now]]

\* The rows outside the window, counted, and the tables as module Ledger has them.
Gone == {e \in DOMAIN rows : ~ InWindow(e)}
Table == INSTANCE Ledger WITH
    Chats <- Operators, MsgIds <- {},
    operators <- Operators, sessions <- <<>>, messages <- <<>>,
    engagements <- [e \in DOMAIN rows |->
        [operator |-> rows[e].operator, ended |-> rows[e].ended, current |-> 0]],
    expired <- Cardinality(Gone)

\* Counting the engagements that left the window, as Ledger does, loses nothing:
\* they leave in the order of their ids, and the row the query finds by its time
\* is the row Ledger finds by its id.
SameAnswer ==
    /\ Gone = 1..Cardinality(Gone)
    /\ \A op \in Operators : \A e \in 0..Len(rows) :
         ActiveEngagement(op, e) <=> Table!ActiveEngagement(op, e)

\* Every step on timestamps is a step Ledger allows on its count: an engagement
\* is created inside the window, ended, or leaves it for good.
ImplementsLedger ==
    /\ rows = <<>>
    /\ [][ \/ \E op \in Operators : Table!CreateEngagement(op)
           \/ \E e \in DOMAIN rows : Table!EndEngagement(e)
           \/ Table!Expire ]_(Table!ledger)

\* A message never goes back to an engagement older than that of its operator's
\* previous message, nor to one that was ended since ("Next message starts a
\* fresh engagement", slash.py 74).
NeverBack ==
    [][ \A op \in Operators :
            task.pc = "idle" /\ task'.op = op /\ task'.eng # 0 =>
                task'.eng >= last[op].eng /\ ~ rows[task'.eng].ended ]_vars

\* "free text within idle window -> resume operator's most-recent session"
\* (router.py 5-6): who wrote less than a window ago, and did not end the
\* engagement, is still in it.
KeptWhileTalking ==
    [][ \A op \in Operators :
            /\ task.pc = "idle" /\ task'.op = op
            /\ last[op].eng # 0 /\ ~ rows[last[op].eng].ended
            /\ now - last[op].at =< Window
            => task'.eng = last[op].eng ]_vars
=============================================================================
