-------------------------- MODULE IdleWindowProofs --------------------------
(***************************************************************************)
(* IdleWindow proved for every window, clock and number of engagements:    *)
(* the query by time answers as module Ledger's query by id does, and no   *)
(* message goes back to an engagement that is over.                        *)
(***************************************************************************)
EXTENDS IdleWindow, TLAPS, SequenceTheorems, FiniteSetTheorems

Row == [operator : Operators, activity : Nat, ended : BOOLEAN]

\* Later rows have later times; an operator has one engagement at most in the
\* window and not ended, no older than the one of his previous message; and
\* between lookup and its use, the handler knows which it is.
IInv ==
    /\ TypeOK
    /\ \A e, f \in DOMAIN rows : e =< f => rows[e].activity =< rows[f].activity
    /\ \A op \in Operators : \A e \in Found(op) : \A f \in Found(op) : e = f
    /\ \A op \in Operators : \A e \in Found(op) : e >= last[op].eng
    /\ task.pc # "idle" => task.op \in Operators
    /\ task.pc = "resolve" => Found(task.op) \subseteq {task.eng}
    /\ task.pc = "work" => task.eng # 0
    /\ task.pc = "idle" => task.eng = 0

LEMMA RowFacts ==
    ASSUME TypeOK
    PROVE  /\ rows \in Seq(Row) /\ Len(rows) \in Nat /\ DOMAIN rows = 1..Len(rows)
           /\ \A e \in DOMAIN rows : /\ rows[e] \in Row
                                     /\ rows[e].activity \in 0..now
                                     /\ rows[e].operator \in Operators
                                     /\ rows[e].ended \in BOOLEAN
           /\ now \in Nat
<1> DEFINE R == [operator : Operators, activity : 0..now, ended : BOOLEAN]
<1>1. rows \in Seq(R) /\ now \in Nat
  BY DEF TypeOK
<1>2. R \subseteq Row
  BY <1>1 DEF Row
<1>3. rows \in Seq(Row)
  BY <1>1, <1>2, SeqMonotonic
<1>4. Len(rows) \in Nat /\ DOMAIN rows = 1..Len(rows) /\ \A e \in DOMAIN rows : rows[e] \in R
  BY <1>1, LenProperties
<1> QED BY <1>1, <1>2, <1>3, <1>4

LEMMA Created ==
    ASSUME TypeOK, task.op \in Operators, Create
    PROVE  /\ Len(rows') = Len(rows) + 1
           /\ DOMAIN rows' = DOMAIN rows \union {Len(rows) + 1}
           /\ \A e \in DOMAIN rows : rows'[e] = rows[e]
           /\ rows'[Len(rows) + 1] = [operator |-> task.op, activity |-> now, ended |-> FALSE]
           /\ rows' \in Seq([operator : Operators, activity : 0..now, ended : BOOLEAN])
<1>1. [operator |-> task.op, activity |-> now, ended |-> FALSE]
        \in [operator : Operators, activity : 0..now, ended : BOOLEAN]
  BY DEF TypeOK
<1> QED BY <1>1, AppendProperties, LenProperties DEF Create, Stamp, TypeOK

LEMMA Closed ==
    ASSUME TypeOK, Close
    PROVE  /\ Len(rows') = Len(rows) /\ DOMAIN rows' = DOMAIN rows
           /\ \A e \in DOMAIN rows : /\ rows'[e].operator = rows[e].operator
                                     /\ rows'[e].activity = rows[e].activity
                                     /\ rows[e].ended => rows'[e].ended
                                     /\ e # task.eng => rows'[e] = rows[e]
           /\ rows' \in Seq([operator : Operators, activity : 0..now, ended : BOOLEAN])
<1> DEFINE R == [operator : Operators, activity : 0..now, ended : BOOLEAN]
<1>1. rows \in Seq(R) /\ rows' = [rows EXCEPT ![task.eng] = [rows[task.eng] EXCEPT !.ended = TRUE]]
  BY DEF TypeOK, Close
<1>2. \A e \in DOMAIN rows : rows[e] \in R /\ [rows[e] EXCEPT !.ended = TRUE] \in R
  <2>1. \A e \in DOMAIN rows : rows[e] \in R
    BY <1>1, LenProperties
  <2>2. \A r \in R : [r EXCEPT !.ended = TRUE] \in R
    OBVIOUS
  <2> QED BY <2>1, <2>2
<1>3. CASE task.eng \in DOMAIN rows
  <2>1. /\ rows' \in Seq(R) /\ Len(rows') = Len(rows)
        /\ \A e \in 1..Len(rows) :
             rows'[e] = IF e = task.eng THEN [rows[task.eng] EXCEPT !.ended = TRUE] ELSE rows[e]
    BY <1>1, <1>2, <1>3, ExceptSeq, LenProperties
  <2> QED BY <1>1, <1>2, <2>1, LenProperties
<1>4. CASE task.eng \notin DOMAIN rows
  <2>1. rows' = rows
    BY <1>1, <1>4, LenProperties
  <2> QED BY <1>1, <2>1
<1> QED BY <1>3, <1>4

-----------------------------------------------------------------------------

LEMMA TypeStep ==
    ASSUME IInv, [Next]_vars
    PROVE  TypeOK' /\ (task'.pc # "idle" => task'.op \in Operators)
<1> USE DEF IInv
<1> DEFINE R == [operator : Operators, activity : 0..now, ended : BOOLEAN]
<1>0. /\ now \in Nat /\ rows \in Seq(R) /\ Len(rows) \in Nat
      /\ task \in [pc : {"idle", "resolve", "work"}, op : Operators \union {"none"},
                   ends : BOOLEAN, eng : 0..Len(rows)]
      /\ last \in [Operators -> [eng : 0..Len(rows), at : 0..now]]
  BY RowFacts DEF TypeOK
<1>1. ASSUME NEW op \in Operators, Lookup(op)
      PROVE  TypeOK' /\ (task'.pc # "idle" => task'.op \in Operators)
  BY <1>0, <1>1 DEF Lookup, TypeOK
<1>2. CASE Join
  <2>1. task.op \in Operators /\ [eng |-> task.eng, at |-> now] \in [eng : 0..Len(rows), at : 0..now]
    BY <1>0, <1>2 DEF Join
  <2>2. last' \in [Operators -> [eng : 0..Len(rows), at : 0..now]]
    BY <1>0, <1>2, <2>1 DEF Join, Resolved
  <2> QED BY <1>0, <1>2, <2>1, <2>2 DEF Join, Resolved, TypeOK
<1>3. CASE Create
  <2>1. task.op \in Operators
    BY <1>3 DEF Create
  <2>2. Len(rows') = Len(rows) + 1 /\ rows' \in Seq(R)
    BY <1>3, <2>1, Created
  <2>3. task' = [task EXCEPT !.pc = "work", !.eng = Len(rows) + 1] /\ now' = now
    BY <1>3 DEF Create, Resolved
  <2>4. last' \in [Operators -> [eng : 0..Len(rows'), at : 0..now]]
    <3>1. [eng |-> Len(rows) + 1, at |-> now] \in [eng : 0..Len(rows'), at : 0..now]
      BY <1>0, <2>2
    <3>2. last \in [Operators -> [eng : 0..Len(rows'), at : 0..now]]
      BY <1>0, <2>2
    <3> QED BY <1>3, <2>1, <3>1, <3>2 DEF Create, Resolved
  <2>5. task' \in [pc : {"idle", "resolve", "work"}, op : Operators \union {"none"},
                   ends : BOOLEAN, eng : 0..Len(rows')]
    <3>1. Len(rows) + 1 \in 0..Len(rows')
      BY <1>0, <2>2
    <3> QED BY <1>0, <2>3, <3>1
  <2>6. task'.op = task.op
    BY <1>0, <2>3
  <2> QED BY <1>0, <2>1, <2>2, <2>3, <2>4, <2>5, <2>6 DEF TypeOK
<1>4. CASE Close
  BY <1>0, <1>4, Closed DEF Close, Idle, TypeOK
<1>5. CASE Finish \/ UNCHANGED vars
  <2>1. CASE Finish
    BY <1>0, <2>1 DEF Finish, Idle, TypeOK
  <2>2. CASE UNCHANGED vars
    BY <1>0, <2>2 DEF vars, TypeOK
  <2> QED BY <1>5, <2>1, <2>2
<1>6. CASE Tick
  <2>1. now' = now + 1 /\ 0..now \subseteq 0..now'
    BY <1>0, <1>6 DEF Tick
  <2>2. R \subseteq [operator : Operators, activity : 0..now', ended : BOOLEAN]
    BY <2>1
  <2>3. rows \in Seq([operator : Operators, activity : 0..now', ended : BOOLEAN])
    <3> DEFINE T == [operator : Operators, activity : 0..now', ended : BOOLEAN]
    <3>1. rows \in Seq(R) /\ R \subseteq T
      BY <1>0, <2>2
    <3> HIDE DEF R, T
    <3>2. rows \in Seq(T)
      BY <3>1, SeqMonotonic
    <3> QED BY <3>2 DEF T
  <2> QED BY <1>0, <1>6, <2>1, <2>3 DEF Tick, TypeOK
<1> QED BY <1>1, <1>2, <1>3, <1>4, <1>5, <1>6 DEF Next

LEMMA FoundFewer ==
    ASSUME TypeOK, TypeOK', now =< now', DOMAIN rows' = DOMAIN rows,
           \A e \in DOMAIN rows : /\ rows'[e].operator = rows[e].operator
                                  /\ rows'[e].activity = rows[e].activity
                                  /\ rows[e].ended => rows'[e].ended
    PROVE  \A op \in Operators : Found(op)' \subseteq Found(op)
<1>1. SUFFICES ASSUME NEW op \in Operators, NEW e \in Found(op)' PROVE e \in Found(op)
  OBVIOUS
<1>2. /\ e \in DOMAIN rows /\ rows[e].operator = op /\ ~ rows[e].ended
      /\ now' - rows[e].activity =< Window
  BY <1>1 DEF Found, InWindow
<1>3. rows[e].activity \in Nat /\ now \in Nat /\ now' \in Nat
  <2>1. now' \in Nat
    BY DEF TypeOK
  <2> QED BY <1>2, <2>1, RowFacts
<1> QED BY <1>2, <1>3, IdleWindowAssumption DEF Found, InWindow

LEMMA InvStep == IInv /\ [Next]_vars => IInv'
<1> SUFFICES ASSUME IInv, [Next]_vars PROVE IInv'
  OBVIOUS
<1>0. TypeOK /\ TypeOK' /\ (task'.pc # "idle" => task'.op \in Operators)
  BY TypeStep DEF IInv
<1>1. /\ Len(rows) \in Nat /\ DOMAIN rows = 1..Len(rows) /\ now \in Nat
      /\ \A e \in DOMAIN rows : rows[e].activity \in 0..now
      /\ task \in [pc : {"idle", "resolve", "work"}, op : Operators \union {"none"},
                   ends : BOOLEAN, eng : 0..Len(rows)]
      /\ last \in [Operators -> [eng : 0..Len(rows), at : 0..now]]
      /\ \A op \in Operators : Found(op) \subseteq 1..Len(rows)
  BY <1>0, RowFacts DEF TypeOK, Found
<1>2. ASSUME \A op \in Operators : Found(op)' \subseteq Found(op),
             \A op \in Operators : \A e \in Found(op)' : e >= last'[op].eng,
             DOMAIN rows' = DOMAIN rows,
             \A e \in DOMAIN rows : rows'[e].activity = rows[e].activity,
             task'.pc = "resolve" => Found(task.op)' \subseteq {task'.eng},
             task'.pc = "work" => task'.eng # 0,
             task'.pc = "idle" => task'.eng = 0
      PROVE  IInv'
  <2>1. \A op \in Operators : \A e \in Found(op)' : \A f \in Found(op)' : e = f
    BY <1>2 DEF IInv
  <2>2. \A e, f \in DOMAIN rows' : e =< f => rows'[e].activity =< rows'[f].activity
    BY <1>2 DEF IInv
  <2> QED BY <1>0, <1>2, <2>1, <2>2 DEF IInv
<1>3. ASSUME NEW op \in Operators, Lookup(op) PROVE IInv'
  <2>1. PICK e \in 0..Len(rows), ends \in BOOLEAN :
           /\ ActiveEngagement(op, e)
           /\ task' = [pc |-> "resolve", op |-> op, ends |-> ends, eng |-> e]
    BY <1>3 DEF Lookup
  <2>2. UNCHANGED <<now, rows, last>> /\ \A o \in Operators : Found(o)' = Found(o)
    BY <1>3 DEF Lookup, Found, InWindow
  <2>3. Found(op) \subseteq {e}
    BY <2>1 DEF IInv, ActiveEngagement
  <2>4. task'.pc = "resolve" /\ task'.op = op /\ task'.eng = e
    BY <2>1
  <2>5. \A o \in Operators : \A g \in Found(o)' : g >= last'[o].eng
    BY <2>2 DEF IInv
  <2>6. Found(task.op)' \subseteq {task'.eng}
    <3>1. Found(task.op)' = Found(op)
      BY <2>2, <2>4 DEF Found, InWindow
    <3> QED BY <2>3, <2>4, <3>1
  <2> QED BY <1>2, <2>2, <2>4, <2>5, <2>6
<1>4. CASE Join
  <2>1. /\ UNCHANGED <<now, rows>> /\ \A o \in Operators : Found(o)' = Found(o)
        /\ task.pc = "resolve" /\ task.eng # 0 /\ task'.pc = "work" /\ task'.eng = task.eng
        /\ last' = [last EXCEPT ![task.op] = [eng |-> task.eng, at |-> now]]
    BY <1>1, <1>4 DEF Join, Resolved, Found, InWindow
  <2>2. \A o \in Operators : \A e \in Found(o) : e >= last'[o].eng
    BY <1>1, <2>1 DEF IInv
  <2> QED BY <1>2, <2>1, <2>2
<1>5. CASE Create
  <2> DEFINE n == Len(rows) + 1
  <2>1. task.pc = "resolve" /\ task.eng = 0 /\ task.op \in Operators /\ now' = now
    BY <1>5 DEF Create, IInv
  <2>2. /\ DOMAIN rows' = DOMAIN rows \union {n} /\ \A e \in DOMAIN rows : rows'[e] = rows[e]
        /\ rows'[n].operator = task.op /\ rows'[n].activity = now
    BY <1>0, <1>5, <2>1, Created
  <2>3. /\ task'.pc = "work" /\ task'.eng = n
        /\ last' = [last EXCEPT ![task.op] = [eng |-> n, at |-> now]]
    BY <1>1, <1>5 DEF Create, Resolved
  <2>4. Found(task.op) = {}
    BY <1>1, <2>1 DEF IInv
  <2>5. \A o \in Operators : \A e \in Found(o)' : e \in Found(o) \/ (o = task.op /\ e = n)
    BY <1>1, <2>1, <2>2 DEF Found, InWindow
  <2>6. \A e, f \in DOMAIN rows' : e =< f => rows'[e].activity =< rows'[f].activity
    BY <1>1, <2>2 DEF IInv
  <2>7. \A o \in Operators : \A e \in Found(o)' : \A f \in Found(o)' : e = f
    BY <2>4, <2>5 DEF IInv
  <2>8. \A o \in Operators : \A e \in Found(o)' : e >= last'[o].eng
    BY <1>1, <2>1, <2>3, <2>4, <2>5 DEF IInv
  <2> QED BY <1>0, <1>1, <2>3, <2>6, <2>7, <2>8 DEF IInv
<1>6. CASE Close \/ Finish \/ Tick \/ UNCHANGED vars
  <2>1. /\ now =< now' /\ DOMAIN rows' = DOMAIN rows /\ last' = last
        /\ \A e \in DOMAIN rows : /\ rows'[e].operator = rows[e].operator
                                  /\ rows'[e].activity = rows[e].activity
                                  /\ rows[e].ended => rows'[e].ended
        /\ task' = task \/ (task'.pc = "idle" /\ task'.eng = 0)
    BY <1>0, <1>1, <1>6, Closed DEF Close, Finish, Tick, vars, Idle
  <2>2. \A op \in Operators : Found(op)' \subseteq Found(op)
    BY <1>0, <2>1, FoundFewer
  <2>3. \A op \in Operators : \A e \in Found(op)' : e >= last'[op].eng
    BY <2>1, <2>2 DEF IInv
  <2>4. task'.pc = "resolve" => Found(task.op)' \subseteq {task'.eng}
    <3>1. task'.pc = "resolve" => task' = task /\ task.op \in Operators
      BY <2>1 DEF IInv
    <3>2. task' = task => Found(task.op)' = {e \in DOMAIN rows' :
              rows'[e].operator = task.op /\ ~ rows'[e].ended /\ now' - rows'[e].activity =< Window}
      BY DEF Found, InWindow
    <3>3. task.op \in Operators => {e \in DOMAIN rows' :
              rows'[e].operator = task.op /\ ~ rows'[e].ended /\ now' - rows'[e].activity =< Window}
            \subseteq Found(task.op)
      BY <2>2 DEF Found, InWindow
    <3> QED BY <3>1, <3>2, <3>3 DEF IInv
  <2>5. /\ task'.pc = "work" => task'.eng # 0
        /\ task'.pc = "idle" => task'.eng = 0
    BY <2>1 DEF IInv
  <2> QED BY <1>2, <2>1, <2>2, <2>3, <2>4, <2>5
<1> QED BY <1>3, <1>4, <1>5, <1>6 DEF Next

LEMMA InvInit == Init => IInv
<1> SUFFICES ASSUME Init PROVE IInv
  OBVIOUS
<1>1. TypeOK
  BY EmptySeq DEF Init, TypeOK, Idle, Never
<1>2. DOMAIN rows = {}
  BY <1>1, RowFacts, EmptySeq DEF Init
<1> QED BY <1>1, <1>2 DEF Init, IInv, Found, Idle

\* Times, engagement ids and the handler's locals keep their types, rows are in
\* the order of their times, and an operator has at most one engagement that
\* the query can find.
THEOREM InvCorrect == Spec => []IInv
BY InvInit, InvStep, PTL DEF Spec

\* The clock, the rows and the handler's locals keep their types.
THEOREM TypeCorrect == Spec => []TypeOK
<1>1. IInv => TypeOK
  BY DEF IInv
<1> QED BY <1>1, InvCorrect, PTL

-----------------------------------------------------------------------------
(* The rows outside the window are counted by the last of their ids *)

LEMMA UpTo ==
    ASSUME NEW n \in Nat
    PROVE  IsFiniteSet(1..n) /\ Cardinality(1..n) = n
<1>1. /\ IsFiniteSet(1..n)
      /\ Cardinality(1..n) = IF 1 > n THEN 0 ELSE n - 1 + 1
  BY FS_Interval
<1> QED BY <1>1

LEMMA PartOfInterval ==
    ASSUME NEW n \in Nat, NEW S \in SUBSET (1..n)
    PROVE  IsFiniteSet(S) /\ Cardinality(S) \in 0..n
<1>1. IsFiniteSet(1..n) /\ Cardinality(1..n) = n
  BY UpTo
<1>2. IsFiniteSet(S) /\ Cardinality(S) =< n
  BY <1>1, FS_Subset
<1> QED BY <1>2, FS_CardinalityType

LEMMA GoneFinite ==
    ASSUME TypeOK
    PROVE  /\ IsFiniteSet(Gone) /\ Cardinality(Gone) \in 0..Len(rows)
           /\ Gone \subseteq 1..Len(rows)
<1>1. Len(rows) \in Nat /\ Gone \in SUBSET (1..Len(rows))
  BY RowFacts DEF Gone
<1> QED BY <1>1, PartOfInterval

LEMMA GoneFirst ==
    ASSUME IInv
    PROVE  Gone = 1..Cardinality(Gone)
<1>1. /\ Len(rows) \in Nat /\ DOMAIN rows = 1..Len(rows) /\ now \in Nat
      /\ \A e \in DOMAIN rows : rows[e].activity \in Nat
  BY RowFacts DEF IInv
<1>2. IsFiniteSet(Gone) /\ Cardinality(Gone) \in Nat /\ Gone \subseteq 1..Len(rows)
  BY <1>1, GoneFinite DEF IInv
<1>3. ASSUME NEW e \in Gone PROVE e \in 1..Cardinality(Gone)
  <2>1. e \in 1..Len(rows)
    BY <1>2
  <2>2. ASSUME NEW f \in 1..e PROVE f \in Gone
    <3>1. f \in DOMAIN rows /\ f =< e
      BY <1>1, <2>1
    <3>2. rows[f].activity =< rows[e].activity
      BY <1>1, <2>1, <3>1 DEF IInv
    <3>3. ~ (now - rows[e].activity =< Window)
      BY <1>3 DEF Gone, InWindow
    <3> QED BY <1>1, <2>1, <3>1, <3>2, <3>3, IdleWindowAssumption DEF Gone, InWindow
  <2>3. 1..e \in SUBSET Gone
    BY <2>2
  <2>4. Cardinality(1..e) =< Cardinality(Gone)
    BY <1>2, <2>3, FS_Subset
  <2>5. Cardinality(1..e) = e
    BY <1>1, <2>1, UpTo
  <2> QED BY <1>2, <2>1, <2>4, <2>5
<1>4. Gone \in SUBSET (1..Cardinality(Gone))
  BY <1>3
<1>5. IsFiniteSet(1..Cardinality(Gone)) /\ Cardinality(1..Cardinality(Gone)) = Cardinality(Gone)
  BY <1>2, UpTo
<1> QED BY <1>4, <1>5, FS_Subset

\* At every time the query by last_activity_at gives the answer of module
\* Ledger's, which orders by id and counts the engagements out of the window.
THEOREM SameAnswerCorrect == Spec => []SameAnswer
<1>1. IInv => SameAnswer
  <2>1. SUFFICES ASSUME IInv PROVE SameAnswer
    OBVIOUS
  <2>2. /\ Len(rows) \in Nat /\ DOMAIN rows = 1..Len(rows) /\ now \in Nat
        /\ \A e \in DOMAIN rows : rows[e].activity \in Nat
    BY <2>1, RowFacts DEF IInv
  <2>3. Gone = 1..Cardinality(Gone) /\ Cardinality(Gone) \in Nat
    BY <2>1, <2>2, GoneFirst, GoneFinite DEF IInv
  <2>4. \A e \in DOMAIN rows : InWindow(e) <=> e > Cardinality(Gone)
    <3>1. \A e \in DOMAIN rows : e \in Gone <=> e \in 1..Cardinality(Gone)
      BY <2>3
    <3>2. ASSUME NEW e \in DOMAIN rows PROVE InWindow(e) <=> e > Cardinality(Gone)
      <4>1. InWindow(e) <=> e \notin Gone
        BY DEF Gone
      <4> QED BY <2>2, <2>3, <3>1, <4>1
    <3> QED BY <3>2
  <2>5. \A op \in Operators : Table!Candidates(op) = Found(op)
    BY <2>4 DEF Table!Candidates, Found
  <2>6. ASSUME NEW op \in Operators, NEW e \in 0..Len(rows)
        PROVE  ActiveEngagement(op, e) <=> Table!ActiveEngagement(op, e)
    <3>1. Found(op) \subseteq DOMAIN rows /\ \A f, g \in Found(op) : f = g
      BY <2>1 DEF IInv, Found
    <3> QED BY <2>2, <2>5, <3>1 DEF ActiveEngagement, Table!ActiveEngagement
  <2> QED BY <2>3, <2>6 DEF SameAnswer
<1> QED BY <1>1, InvCorrect, PTL

\* A message never goes back to an older engagement of its operator, nor to one
\* that is over.
THEOREM NeverBackCorrect == Spec => NeverBack
<1>1. ASSUME IInv, [Next]_vars, NEW op \in Operators,
             task.pc = "idle", task'.op = op, task'.eng # 0
      PROVE  task'.eng >= last[op].eng /\ ~ rows[task'.eng].ended
  <2>1. CASE \E o \in Operators : Lookup(o)
    <3>1. PICK o \in Operators : Lookup(o)
      BY <2>1
    <3>2. PICK e \in 0..Len(rows), ends \in BOOLEAN :
             /\ ActiveEngagement(o, e)
             /\ task' = [pc |-> "resolve", op |-> o, ends |-> ends, eng |-> e]
      BY <3>1 DEF Lookup
    <3>3. o = op /\ task'.eng = e /\ e \in Found(op)
      BY <1>1, <3>2 DEF ActiveEngagement
    <3> QED BY <1>1, <3>3 DEF IInv, Found
  <2>2. CASE Tick \/ UNCHANGED vars
    <3>1. task' = task
      BY <2>2 DEF Tick, vars
    <3>2. task.eng = 0
      BY <1>1 DEF IInv
    <3> QED BY <1>1, <3>1, <3>2
  <2>3. ~ (Join \/ Create \/ Close \/ Finish)
    BY <1>1 DEF Join, Create, Close, Finish
  <2> QED BY <1>1, <2>1, <2>2, <2>3 DEF Next
<1>2. ASSUME IInv, [Next]_vars
      PROVE  \A op \in Operators : task.pc = "idle" /\ task'.op = op /\ task'.eng # 0 =>
                task'.eng >= last[op].eng /\ ~ rows[task'.eng].ended
  BY <1>1, <1>2
<1> QED BY <1>2, InvCorrect, PTL DEF Spec, NeverBack

-----------------------------------------------------------------------------
(* The refinement of module Ledger's engagement table *)

Shown(r) == [operator |-> r.operator, ended |-> r.ended, current |-> 0]

LEMMA ShownAppend ==
    ASSUME NEW r \in Seq(Row), NEW n \in Seq(Row), NEW x \in Row,
           Len(n) = Len(r) + 1, \A e \in DOMAIN r : n[e] = r[e], n[Len(r) + 1] = x
    PROVE  [e \in DOMAIN n |-> Shown(n[e])] = Append([e \in DOMAIN r |-> Shown(r[e])], Shown(x))
<1> DEFINE S == [operator : Operators, ended : BOOLEAN, current : Nat]
           R == [e \in DOMAIN r |-> Shown(r[e])]
           M == [e \in DOMAIN n |-> Shown(n[e])]
<1>1. /\ Len(r) \in Nat /\ DOMAIN r = 1..Len(r) /\ DOMAIN n = 1..(Len(r) + 1)
      /\ \A e \in DOMAIN r : r[e] \in Row
      /\ \A e \in DOMAIN n : n[e] \in Row
  BY LenProperties
<1>2. \A y \in Row : Shown(y) \in S
  BY DEF Shown, Row
<1>3. R \in Seq(S) /\ Len(R) = Len(r) /\ \A e \in 1..Len(r) : R[e] = Shown(r[e])
  BY <1>1, <1>2
<1>4. M \in Seq(S) /\ Len(M) = Len(r) + 1 /\ \A e \in 1..(Len(r) + 1) : M[e] = Shown(n[e])
  BY <1>1, <1>2
<1>5. Shown(x) \in S
  BY <1>2
<1> HIDE DEF R, M, S
<1>6. /\ Append(R, Shown(x)) \in Seq(S) /\ Len(Append(R, Shown(x))) = Len(r) + 1
      /\ \A e \in 1..Len(r) : Append(R, Shown(x))[e] = R[e]
      /\ Append(R, Shown(x))[Len(r) + 1] = Shown(x)
  BY <1>3, <1>5, AppendProperties
<1>7. \A e \in 1..Len(M) : M[e] = Append(R, Shown(x))[e]
  BY <1>1, <1>3, <1>4, <1>6
<1>8. M = Append(R, Shown(x))
  BY <1>4, <1>6, <1>7, SeqEqual
<1> QED BY <1>8 DEF R, M

\* Every step of the clock, of a lookup, of an insert and of /end is a step of
\* Ledger's engagement table, for every window.
THEOREM LedgerImplemented == Spec => ImplementsLedger
<1> DEFINE Steps == \/ \E op \in Operators : Table!CreateEngagement(op)
                    \/ \E e \in DOMAIN rows : Table!EndEngagement(e)
                    \/ Table!Expire
<1>1. ASSUME IInv, IInv', [Next]_vars
      PROVE  Steps \/ UNCHANGED Table!ledger
  <2>1. /\ rows \in Seq(Row) /\ Len(rows) \in Nat /\ DOMAIN rows = 1..Len(rows)
        /\ now \in Nat /\ \A e \in DOMAIN rows : rows[e].activity \in 0..now /\ rows[e] \in Row
    BY <1>1, RowFacts DEF IInv
  <2>2. CASE UNCHANGED <<rows, now>>
    BY <2>2 DEF Table!ledger, Table!tables, Gone, InWindow
  <2>3. CASE Create
    <3>1. task.op \in Operators
      BY <1>1, <2>3 DEF IInv, Create
    <3>2. /\ Len(rows') = Len(rows) + 1 /\ DOMAIN rows' = DOMAIN rows \union {Len(rows) + 1}
          /\ \A e \in DOMAIN rows : rows'[e] = rows[e]
          /\ rows'[Len(rows) + 1] = [operator |-> task.op, activity |-> now, ended |-> FALSE]
          /\ now' = now
      BY <1>1, <2>3, <3>1, Created DEF IInv, Create
    <3>3. Gone' = Gone
      BY <2>1, <3>2, IdleWindowAssumption DEF Gone, InWindow
    <3>4. [e \in DOMAIN rows' |-> Shown(rows'[e])]
             = Append([e \in DOMAIN rows |-> Shown(rows[e])],
                      [operator |-> task.op, ended |-> FALSE, current |-> 0])
      <4>1. rows' \in Seq(Row)
        <5> DEFINE R == [operator : Operators, activity : 0..now, ended : BOOLEAN]
        <5>1. rows' \in Seq(R) /\ R \subseteq Row
          BY <1>1, <2>1, <2>3, <3>1, Created DEF IInv, Row
        <5> HIDE DEF R
        <5> QED BY <5>1, SeqMonotonic
      <4>2. [operator |-> task.op, activity |-> now, ended |-> FALSE] \in Row
        BY <2>1, <3>1 DEF Row
      <4>3. Shown([operator |-> task.op, activity |-> now, ended |-> FALSE])
              = [operator |-> task.op, ended |-> FALSE, current |-> 0]
        BY DEF Shown
      <4> QED BY <2>1, <3>2, <4>1, <4>2, <4>3, ShownAppend
    <3>5. PICK op \in Operators : op = task.op
      BY <3>1
    <3>6. Table!CreateEngagement(op)
      BY <3>3, <3>4, <3>5 DEF Table!CreateEngagement, Shown
    <3> QED BY <3>6
  <2>4. CASE Close
    <3>1. /\ DOMAIN rows' = DOMAIN rows /\ rows' = [rows EXCEPT ![task.eng].ended = TRUE]
          /\ now' = now /\ task.eng # 0
      BY <1>1, <2>4, Closed DEF IInv, Close
    <3>2. task.eng \in DOMAIN rows
      BY <1>1, <2>1, <3>1 DEF IInv, TypeOK
    <3>3. /\ \A e \in DOMAIN rows : rows'[e].activity = rows[e].activity
          /\ \A e \in DOMAIN rows : rows'[e].operator = rows[e].operator
          /\ \A e \in DOMAIN rows : rows'[e].ended = IF e = task.eng THEN TRUE ELSE rows[e].ended
      BY <2>1, <3>1 DEF Row
    <3>4. Gone' = Gone
      BY <3>1, <3>3 DEF Gone, InWindow
    <3>5. [e \in DOMAIN rows' |-> Shown(rows'[e])]
             = [[e \in DOMAIN rows |-> Shown(rows[e])] EXCEPT ![task.eng].ended = TRUE]
      BY <3>1, <3>2, <3>3 DEF Shown
    <3>6. PICK e \in DOMAIN rows : e = task.eng
      BY <3>2
    <3>7. Table!EndEngagement(e)
      BY <3>4, <3>5, <3>6 DEF Table!EndEngagement, Shown
    <3> QED BY <3>7
  <2>5. CASE Tick
    <3>1. rows' = rows /\ now' = now + 1
      BY <2>5 DEF Tick
    <3>2. Gone \subseteq Gone'
      BY <2>1, <3>1, IdleWindowAssumption DEF Gone, InWindow
    <3>3. /\ IsFiniteSet(Gone') /\ Cardinality(Gone') \in 0..Len(rows)
          /\ Cardinality(Gone) \in 0..Len(rows)
      <4>1. Gone' \in SUBSET (1..Len(rows)) /\ Gone \in SUBSET (1..Len(rows))
        BY <2>1, <3>1 DEF Gone
      <4> QED BY <2>1, <4>1, PartOfInterval
    <3>4. Cardinality(Gone) =< Cardinality(Gone')
      BY <3>2, <3>3, FS_Subset
    <3>5. CASE Cardinality(Gone') = Cardinality(Gone)
      BY <3>1, <3>5 DEF Table!ledger, Table!tables
    <3>6. CASE Cardinality(Gone') > Cardinality(Gone)
      <4>1. Len([e \in DOMAIN rows |-> Shown(rows[e])]) = Len(rows)
        BY <2>1
      <4>2. Table!Expire
        BY <2>1, <3>1, <3>3, <3>6, <4>1 DEF Table!Expire, Table!tables
      <4> QED BY <4>2
    <3> QED BY <2>1, <3>3, <3>4, <3>5, <3>6
  <2>6. CASE (\E op \in Operators : Lookup(op)) \/ Join \/ Finish \/ UNCHANGED vars
    BY <2>2, <2>6 DEF Lookup, Join, Finish, vars
  <2> QED BY <1>1, <2>3, <2>4, <2>5, <2>6 DEF Next
<1>2. Init => rows = <<>>
  BY DEF Init
<1> QED BY <1>1, <1>2, InvCorrect, PTL DEF Spec, ImplementsLedger

=============================================================================
