--------------------------- MODULE SpawnerProofs ---------------------------
(***************************************************************************)
(* Spawner proved for every set of calls, finite or not, and every size of *)
(* the semaphore: no permit is lost or doubled and no wake-up is lost,     *)
(* whatever raises and whoever is cancelled, and waiters are served in     *)
(* their order.                                                            *)
(***************************************************************************)
EXTENDS Spawner, TLAPS, SequenceTheorems, FiniteSetTheorems

-----------------------------------------------------------------------------
(* The inductive invariant *)

\* c is waiting for a permit, or was handed one.
Queued(c) == c \in woken \/ \E i \in 1..Len(waiters) : waiters[i] = c

\* A queue w beside the woken calls k: nobody is in it twice.
Orderly(w, k) ==
    /\ w \in Seq(Calls) /\ k \subseteq Calls /\ IsFiniteSet(k)
    /\ \A i, j \in 1..Len(w) : w[i] = w[j] => i = j
    /\ \A i \in 1..Len(w) : w[i] \notin k

QueueOK ==
    /\ Orderly(waiters, woken)
    /\ \A c \in Calls : pc[c] = "waiting" <=> Queued(c)

\* Beside a free permit nobody waits, unless somebody who runs next looks.
NoneForgotten == waiters # <<>> /\ permits # 0 => woken # {}

SlotsOK ==
    /\ permits \in Nat /\ IsFiniteSet(Holders)
    /\ SlotsAccounted

PcOK == pc \in [Calls -> {"new", "waiting"} \union InSlot \union Over]

PoolInv == PcOK /\ QueueOK /\ NoneForgotten /\ SlotsOK

\* The process is started once, by the call's exec.
OsOK ==
    /\ proc \in [Calls -> {"none", "alive", "exited"}]
    /\ signal \in [Calls -> {"none", "TERM", "KILL"}]
    /\ \A c \in Calls : pc[c] \in {"new", "waiting", "exec"} => proc[c] = "none"

IInv == PoolInv /\ OsOK

LEMMA InvInit == Init => IInv
<1> SUFFICES ASSUME Init PROVE IInv
  OBVIOUS
<1> USE SpawnerAssumption DEF Init
<1>1. PcOK /\ OsOK
  BY DEF PcOK, OsOK
<1>2. waiters \in Seq(Calls) /\ Len(waiters) = 0
  BY EmptySeq
<1>3. IsFiniteSet({}) /\ Cardinality({}) = 0
  BY FS_EmptySet
<1>4. QueueOK
  BY <1>2, <1>3 DEF QueueOK, Orderly, Queued
<1>5. Holders = {}
  BY DEF Holders, InSlot
<1>6. SlotsOK
  BY <1>3, <1>5 DEF SlotsOK, SlotsAccounted
<1>7. NoneForgotten
  BY DEF NoneForgotten
<1> QED BY <1>1, <1>4, <1>6, <1>7 DEF IInv, PoolInv

-----------------------------------------------------------------------------
(* The semaphore *)

\* Min of three numbers is one of them and below the others.
LEMMA MinOfThree ==
    ASSUME NEW a \in Nat, NEW b \in Nat, NEW d \in Nat
    PROVE  /\ Min({a, b, d}) \in {a, b, d}
           /\ Min({a, b, d}) =< a /\ Min({a, b, d}) =< b /\ Min({a, b, d}) =< d
<1>1. \E x \in {a, b, d} : \A y \in {a, b, d} : x =< y
  <2>1. CASE a =< b /\ a =< d
    BY <2>1
  <2>2. CASE b =< a /\ b =< d
    BY <2>2
  <2>3. CASE d =< a /\ d =< b
    BY <2>3
  <2> QED BY <2>1, <2>2, <2>3
<1>2. Min({a, b, d}) \in {a, b, d} /\ \A y \in {a, b, d} : Min({a, b, d}) =< y
  BY <1>1 DEF Min
<1> QED BY <1>2

\* The first s of a queue are s calls.
First(w, s) == {w[i] : i \in 1..s}

LEMMA FirstOnes ==
    ASSUME NEW w, NEW k, Orderly(w, k), NEW s \in 0..Len(w)
    PROVE  /\ IsFiniteSet(k \union First(w, s))
           /\ Cardinality(k \union First(w, s)) = Cardinality(k) + s
<1> DEFINE first == {w[i] : i \in 1..s}
           f == [i \in 1..s |-> w[i]]
<1>1. Len(w) \in Nat /\ s \in Nat
  BY LenProperties DEF Orderly
<1>2. f \in Bijection(1..s, first)
  <2>1. f \in [1..s -> first]
    OBVIOUS
  <2>2. \A i, j \in 1..s : f[i] = f[j] => i = j
    BY <1>1 DEF Orderly
  <2>3. \A x \in first : \E i \in 1..s : f[i] = x
    OBVIOUS
  <2> QED BY <2>1, <2>2, <2>3 DEF Bijection, Injection, Surjection, IsInjective
<1>3. ExistsBijection(1..s, first)
  BY <1>2 DEF ExistsBijection
<1>4. Cardinality(first) = s
  BY <1>1, <1>3, FS_CountingElements
<1>5. IsFiniteSet(first)
  BY <1>1, <1>3, FS_NatBijection
<1>6. k \cap first = {}
  BY <1>1 DEF Orderly
<1>7. IsFiniteSet(k) /\ Cardinality(k) \in Nat
  BY FS_CardinalityType DEF Orderly
<1>8. Cardinality(k \union first) = Cardinality(k) + Cardinality(first) - Cardinality({})
        /\ IsFiniteSet(k \union first)
  BY <1>5, <1>6, <1>7, FS_Union
<1>9. Cardinality({}) = 0
  BY FS_EmptySet
<1> QED BY <1>1, <1>4, <1>5, <1>7, <1>8, <1>9 DEF First

\* Grant serves the first of the queue, as many as there are permits, waiters
\* and leave for.
Serves(s, w, k, n, most) ==
    /\ s \in 0..Len(w)
    /\ s =< n /\ s =< most /\ s \in {n, Len(w), most}
    /\ woken' = k \union First(w, s)
    /\ waiters' \in Seq(Calls) /\ Len(waiters') = Len(w) - s
    /\ \A i \in 1..(Len(w) - s) : waiters'[i] = w[s + i]
    /\ permits' = n - s

LEMMA GrantServes ==
    ASSUME NEW w, NEW k, Orderly(w, k), NEW n \in Nat, NEW most \in Nat,
           Grant(w, k, n, most)
    PROVE  \E s : Serves(s, w, k, n, most)
<1> DEFINE s == Min({n, Len(w), most})
<1>1. Len(w) \in Nat /\ w \in Seq(Calls) /\ \A i \in 1..Len(w) : w[i] \in Calls
  BY LenProperties, ElementOfSeq DEF Orderly
<1>2. s \in {n, Len(w), most} /\ s =< n /\ s =< Len(w) /\ s =< most
  BY <1>1, MinOfThree
<1>3. s \in 0..Len(w)
  BY <1>1, <1>2
<1>4. /\ woken' = k \union First(w, s)
      /\ waiters' = SubSeq(w, s + 1, Len(w))
      /\ permits' = n - s
  BY DEF Grant, First
<1> HIDE DEF s
<1>5. s + 1 \in Int /\ Len(w) \in Int /\ \A i \in (s + 1)..Len(w) : w[i] \in Calls
  BY <1>1, <1>3
<1>6. /\ SubSeq(w, s + 1, Len(w)) \in Seq(Calls)
      /\ Len(SubSeq(w, s + 1, Len(w))) = IF s + 1 =< Len(w) THEN Len(w) - (s + 1) + 1 ELSE 0
      /\ \A i \in 1..(Len(w) - (s + 1) + 1) : SubSeq(w, s + 1, Len(w))[i] = w[(s + 1) + i - 1]
  BY <1>5, SubSeqProperties
<1>7. Len(waiters') = Len(w) - s
  BY <1>1, <1>3, <1>4, <1>6
<1>8. \A i \in 1..(Len(w) - s) : waiters'[i] = w[s + i]
  <2> SUFFICES ASSUME NEW i \in 1..(Len(w) - s) PROVE waiters'[i] = w[s + i]
    OBVIOUS
  <2>1. Len(w) - (s + 1) + 1 = Len(w) - s /\ (s + 1) + i - 1 = s + i
    BY <1>1, <1>3
  <2>2. SubSeq(w, s + 1, Len(w))[i] = w[(s + 1) + i - 1]
    BY <1>6, <2>1
  <2> QED BY <1>4, <2>1, <2>2
<1>9. Serves(s, w, k, n, most)
  BY <1>2, <1>3, <1>4, <1>6, <1>7, <1>8 DEF Serves
<1> QED BY <1>9

\* Whatever the queue and the permits were: after Grant nobody is in the queue
\* twice, the same calls are queued, each permit handed out is counted, and a
\* permit is left only if there is none to take it or Grant had to stop.
LEMMA GrantKeeps ==
    ASSUME NEW w, NEW k, Orderly(w, k), NEW n \in Nat, NEW most \in Nat,
           Grant(w, k, n, most)
    PROVE  /\ Orderly(waiters', woken')
           /\ \A c : Queued(c)' <=> c \in k \/ \E i \in 1..Len(w) : w[i] = c
           /\ permits' \in Nat
           /\ permits' + Cardinality(woken') = n + Cardinality(k)
           /\ waiters' # <<>> /\ permits' # 0 => most < Len(w) /\ (most # 0 => woken' # {})
<1>0. PICK s : Serves(s, w, k, n, most)
  BY GrantServes
<1>1. /\ s \in 0..Len(w)
      /\ s =< n /\ s =< most /\ s \in {n, Len(w), most}
      /\ woken' = k \union First(w, s)
      /\ waiters' \in Seq(Calls) /\ Len(waiters') = Len(w) - s
      /\ \A i \in 1..(Len(w) - s) : waiters'[i] = w[s + i]
      /\ permits' = n - s
  BY <1>0 DEF Serves
<1>2. Len(w) \in Nat /\ w \in Seq(Calls) /\ \A i \in 1..Len(w) : w[i] \in Calls
  BY LenProperties, ElementOfSeq DEF Orderly
<1>s. s \in Nat /\ s \in 0..Len(w)
  BY <1>1, <1>2
<1>3. /\ IsFiniteSet(woken') /\ Cardinality(woken') = Cardinality(k) + s
      /\ Cardinality(k) \in Nat
  <2>1. /\ IsFiniteSet(k \union First(w, s))
        /\ Cardinality(k \union First(w, s)) = Cardinality(k) + s
    BY <1>s, FirstOnes
  <2>2. IsFiniteSet(k)
    BY DEF Orderly
  <2> QED BY <1>1, <2>1, <2>2, FS_CardinalityType
<1>4. Orderly(waiters', woken')
  <2>1. woken' \subseteq Calls
    BY <1>1, <1>2, <1>s DEF Orderly, First
  <2>2. ASSUME NEW i \in 1..Len(waiters'), NEW j \in 1..Len(waiters'), waiters'[i] = waiters'[j]
        PROVE  i = j
    <3>1. i \in 1..(Len(w) - s) /\ j \in 1..(Len(w) - s)
      BY <1>1
    <3>2. w[s + i] = w[s + j] /\ s + i \in 1..Len(w) /\ s + j \in 1..Len(w)
      BY <1>1, <1>2, <1>s, <2>2, <3>1
    <3>3. s + i = s + j
      BY <3>2 DEF Orderly
    <3> QED BY <1>2, <1>s, <3>1, <3>3
  <2>3. ASSUME NEW i \in 1..Len(waiters') PROVE waiters'[i] \notin woken'
    <3>1. i \in 1..(Len(w) - s) /\ s + i \in 1..Len(w) /\ waiters'[i] = w[s + i]
      BY <1>1, <1>2, <1>s
    <3>2. w[s + i] \notin k
      BY <3>1 DEF Orderly
    <3>3. \A j \in 1..s : w[s + i] # w[j]
      BY <1>2, <1>s, <3>1 DEF Orderly
    <3> QED BY <1>1, <3>1, <3>2, <3>3 DEF First
  <2> QED BY <1>1, <1>3, <2>1, <2>2, <2>3 DEF Orderly
<1>5. ASSUME NEW c PROVE Queued(c)' <=> c \in k \/ \E i \in 1..Len(w) : w[i] = c
  <2>1. ASSUME NEW i \in 1..Len(w), w[i] = c PROVE Queued(c)'
    <3>1. CASE i =< s
      <4>1. i \in 1..s
        BY <1>2, <1>s, <3>1
      <4> QED BY <1>1, <2>1, <4>1 DEF Queued, First
    <3>2. CASE i > s
      <4>1. i - s \in 1..(Len(w) - s) /\ s + (i - s) = i
        BY <1>2, <1>s, <3>2
      <4>2. waiters'[i - s] = c /\ i - s \in 1..Len(waiters')
        BY <1>1, <2>1, <4>1
      <4> QED BY <4>2 DEF Queued
    <3> QED BY <1>2, <1>s, <3>1, <3>2
  <2>2. ASSUME NEW i \in 1..Len(waiters'), waiters'[i] = c
        PROVE  \E j \in 1..Len(w) : w[j] = c
    <3>1. s + i \in 1..Len(w) /\ w[s + i] = c
      BY <1>1, <1>2, <1>s, <2>2
    <3> QED BY <3>1
  <2>3. ASSUME c \in woken' PROVE c \in k \/ \E j \in 1..Len(w) : w[j] = c
    BY <1>1, <1>2, <1>s, <2>3 DEF First
  <2>4. c \in k => Queued(c)'
    BY <1>1 DEF Queued
  <2> QED BY <2>1, <2>2, <2>3, <2>4 DEF Queued
<1>6. permits' \in Nat /\ permits' + Cardinality(woken') = n + Cardinality(k)
  BY <1>1, <1>2, <1>s, <1>3
<1>7. ASSUME waiters' # <<>>, permits' # 0 PROVE most < Len(w) /\ (most # 0 => woken' # {})
  <2>1. Len(waiters') # 0
    BY <1>1, <1>7, EmptySeq
  <2>2. s # n /\ s # Len(w)
    BY <1>1, <1>2, <1>s, <1>7, <2>1
  <2>3. s = most /\ most < Len(w)
    BY <1>1, <1>2, <1>s, <2>2
  <2>4. ASSUME most # 0 PROVE w[1] \in woken'
    BY <1>1, <1>2, <1>s, <2>3, <2>4 DEF First
  <2> QED BY <2>3, <2>4
<1> QED BY <1>4, <1>5, <1>6, <1>7

\* r is the queue w without its entry i.
Closed(r, w, i) ==
    /\ Len(r) = Len(w) - 1
    /\ \A j \in 1..(Len(w) - 1) : r[j] = IF j < i THEN w[j] ELSE w[j + 1]
    /\ \A c : (\E j \in 1..(Len(w) - 1) : r[j] = c)
                <=> c # w[i] /\ \E j \in 1..Len(w) : w[j] = c

\* A call that is cancelled leaves a hole that the others close.
LEMMA LeaveQueue ==
    ASSUME NEW w, NEW k, Orderly(w, k), NEW i \in 1..Len(w)
    PROVE  Orderly(RemoveAt(w, i), k) /\ Closed(RemoveAt(w, i), w, i)
<1> DEFINE r == RemoveAt(w, i)
           front == SubSeq(w, 1, i - 1)
           back == SubSeq(w, i + 1, Len(w))
<1>1. Len(w) \in Nat /\ i \in Nat /\ w \in Seq(Calls) /\ \A j \in 1..Len(w) : w[j] \in Calls
  BY LenProperties, ElementOfSeq DEF Orderly
<1>2. /\ front \in Seq(Calls) /\ Len(front) = i - 1
      /\ \A j \in 1..(i - 1) : front[j] = w[j]
  <2>1. 1 \in Int /\ i - 1 \in Int /\ \A j \in 1..(i - 1) : w[j] \in Calls
    BY <1>1
  <2>2. /\ front \in Seq(Calls) /\ Len(front) = IF 1 =< i - 1 THEN (i - 1) - 1 + 1 ELSE 0
        /\ \A j \in 1..((i - 1) - 1 + 1) : front[j] = w[1 + j - 1]
    BY <2>1, SubSeqProperties
  <2>3. \A j \in 1..(i - 1) : 1 + j - 1 = j /\ j \in 1..((i - 1) - 1 + 1)
    BY <1>1
  <2>4. Len(front) = i - 1
    BY <1>1, <2>2
  <2>5. \A j \in 1..(i - 1) : front[j] = w[1 + j - 1]
    BY <2>2, <2>3
  <2> QED BY <2>2, <2>3, <2>4, <2>5
<1>3. /\ back \in Seq(Calls) /\ Len(back) = Len(w) - i
      /\ \A j \in 1..(Len(w) - i) : back[j] = w[i + j]
  <2>1. i + 1 \in Int /\ Len(w) \in Int /\ \A j \in (i + 1)..Len(w) : w[j] \in Calls
    BY <1>1
  <2>2. /\ back \in Seq(Calls)
        /\ Len(back) = IF i + 1 =< Len(w) THEN Len(w) - (i + 1) + 1 ELSE 0
        /\ \A j \in 1..(Len(w) - (i + 1) + 1) : back[j] = w[(i + 1) + j - 1]
    BY <2>1, SubSeqProperties
  <2>3. \A j \in 1..(Len(w) - i) : (i + 1) + j - 1 = i + j /\ j \in 1..(Len(w) - (i + 1) + 1)
    BY <1>1
  <2>4. Len(back) = Len(w) - i
    BY <1>1, <2>2
  <2>5. \A j \in 1..(Len(w) - i) : back[j] = w[(i + 1) + j - 1]
    BY <2>2, <2>3
  <2> QED BY <2>2, <2>3, <2>4, <2>5
<1> HIDE DEF front, back
<1>4. r = front \o back
  BY DEF RemoveAt, front, back
<1> HIDE DEF r
<1>5. /\ r \in Seq(Calls) /\ Len(r) = Len(front) + Len(back)
      /\ \A j \in 1..(Len(front) + Len(back)) :
           r[j] = IF j =< Len(front) THEN front[j] ELSE back[j - Len(front)]
  BY <1>2, <1>3, <1>4, ConcatProperties
<1>6. Len(r) = Len(w) - 1
  BY <1>1, <1>2, <1>3, <1>5
<1>7. ASSUME NEW j \in 1..(Len(w) - 1) PROVE r[j] = IF j < i THEN w[j] ELSE w[j + 1]
  <2>1. r[j] = IF j =< i - 1 THEN front[j] ELSE back[j - (i - 1)]
    BY <1>1, <1>2, <1>3, <1>5
  <2>2. CASE j < i
    BY <1>1, <1>2, <2>1, <2>2
  <2>3. CASE ~ (j < i)
    <3>1. j - (i - 1) \in 1..(Len(w) - i) /\ i + (j - (i - 1)) = j + 1 /\ ~ (j =< i - 1)
      BY <1>1, <2>3
    <3>2. back[j - (i - 1)] = w[i + (j - (i - 1))]
      BY <1>3, <3>1
    <3> QED BY <2>1, <2>3, <3>1, <3>2
  <2> QED BY <2>2, <2>3
<1>8. Orderly(r, k)
  <2>1. ASSUME NEW a \in 1..Len(r), NEW b \in 1..Len(r), r[a] = r[b] PROVE a = b
    <3>1. a \in 1..(Len(w) - 1) /\ b \in 1..(Len(w) - 1)
      BY <1>6
    <3>2. PICK x \in 1..Len(w) : x = IF a < i THEN a ELSE a + 1
      BY <1>1, <3>1
    <3>3. PICK y \in 1..Len(w) : y = IF b < i THEN b ELSE b + 1
      BY <1>1, <3>1
    <3>4. w[x] = w[y]
      BY <1>7, <2>1, <3>1, <3>2, <3>3
    <3>5. x = y
      BY <3>4 DEF Orderly
    <3> QED BY <1>1, <3>1, <3>2, <3>3, <3>5
  <2>2. \A a \in 1..Len(r) : r[a] \notin k
    BY <1>1, <1>6, <1>7 DEF Orderly
  <2> QED BY <1>5, <2>1, <2>2 DEF Orderly
<1>9. ASSUME NEW c
      PROVE  (\E j \in 1..(Len(w) - 1) : r[j] = c)
               <=> c # w[i] /\ \E j \in 1..Len(w) : w[j] = c
  <2>1. ASSUME NEW j \in 1..(Len(w) - 1), r[j] = c
        PROVE  c # w[i] /\ \E h \in 1..Len(w) : w[h] = c
    <3>1. PICK h \in 1..Len(w) : h = (IF j < i THEN j ELSE j + 1)
      BY <1>1
    <3>2. w[h] = c /\ h # i
      BY <1>1, <1>7, <2>1, <3>1
    <3> QED BY <3>2 DEF Orderly
  <2>2. ASSUME NEW h \in 1..Len(w), w[h] = c, c # w[i]
        PROVE  \E j \in 1..(Len(w) - 1) : r[j] = c
    <3>1. h # i
      BY <2>2
    <3>2. CASE h < i
      <4>1. h \in 1..(Len(w) - 1) /\ r[h] = c
        BY <1>1, <1>7, <2>2, <3>2
      <4> QED BY <4>1
    <3>3. CASE h > i
      <4>1. h - 1 \in 1..(Len(w) - 1) /\ ~ (h - 1 < i) /\ (h - 1) + 1 = h
        BY <1>1, <3>3
      <4>2. r[h - 1] = c
        BY <1>7, <2>2, <4>1
      <4> QED BY <4>1, <4>2
    <3> QED BY <1>1, <3>1, <3>2, <3>3
  <2> QED BY <2>1, <2>2
<1>10. Closed(r, w, i)
  BY <1>6, <1>7, <1>9 DEF Closed
<1> QED BY <1>8, <1>10 DEF r

-----------------------------------------------------------------------------
(* The steps of a call *)

\* The calls in a slot change by the call that moves, if at all.
LEMMA HoldersMove ==
    ASSUME PcOK, IsFiniteSet(Holders), NEW c \in Calls,
           NEW p \in {"waiting"} \union InSlot \union Over, Goto(c, p)
    PROVE  /\ PcOK' /\ IsFiniteSet(Holders') /\ Cardinality(Holders') \in Nat
           /\ Cardinality(Holders) \in Nat
           /\ \A d \in Calls : pc'[d] = IF d = c THEN p ELSE pc[d]
           /\ (pc[c] \in InSlot) = (p \in InSlot) => Holders' = Holders
           /\ pc[c] \notin InSlot /\ p \in InSlot =>
                Cardinality(Holders') = Cardinality(Holders) + 1
           /\ pc[c] \in InSlot /\ p \notin InSlot =>
                Cardinality(Holders') = Cardinality(Holders) - 1
<1>1. PcOK' /\ \A d \in Calls : pc'[d] = IF d = c THEN p ELSE pc[d]
  BY DEF PcOK, Goto
<1>2. (pc[c] \in InSlot) = (p \in InSlot) => Holders' = Holders
  BY <1>1 DEF Holders
<1>3. pc[c] \notin InSlot /\ p \in InSlot => c \notin Holders /\ Holders' = Holders \union {c}
  BY <1>1 DEF Holders
<1>4. pc[c] \in InSlot /\ p \notin InSlot => c \in Holders /\ Holders' = Holders \ {c}
  BY <1>1 DEF Holders
<1>5. /\ IsFiniteSet(Holders \union {c}) /\ IsFiniteSet(Holders \ {c})
      /\ c \notin Holders => Cardinality(Holders \union {c}) = Cardinality(Holders) + 1
      /\ c \in Holders => Cardinality(Holders \ {c}) = Cardinality(Holders) - 1
  BY FS_AddElement, FS_RemoveElement
<1>6. IsFiniteSet(Holders')
  BY <1>2, <1>3, <1>4, <1>5
<1> QED BY <1>1, <1>2, <1>3, <1>4, <1>5, <1>6, FS_CardinalityType

\* A call that moves and grants permits to a queue w, beside the woken k, that
\* is the old one without itself.
LEMMA Regrant ==
    ASSUME PoolInv, NEW c \in Calls, NEW p \in InSlot \union Over, Goto(c, p),
           NEW w, NEW k, NEW n \in Nat, NEW most \in Nat,
           Orderly(w, k), Grant(w, k, n, most),
           \A d \in Calls : (d \in k \/ \E i \in 1..Len(w) : w[i] = d) <=> d # c /\ Queued(d),
           n + Cardinality(k) + Cardinality(Holders') = MaxConcurrent,
           inFlight' = Cardinality(Holders'),
           most = 1 \/ most >= Len(w)
    PROVE  PoolInv'
<1>1. /\ PcOK' /\ IsFiniteSet(Holders') /\ Cardinality(Holders') \in Nat
      /\ \A d \in Calls : pc'[d] = IF d = c THEN p ELSE pc[d]
  BY HoldersMove DEF PoolInv, SlotsOK
<1>2. /\ Orderly(waiters', woken')
      /\ \A d : Queued(d)' <=> d \in k \/ \E i \in 1..Len(w) : w[i] = d
      /\ permits' \in Nat
      /\ permits' + Cardinality(woken') = n + Cardinality(k)
      /\ waiters' # <<>> /\ permits' # 0 => most < Len(w) /\ (most # 0 => woken' # {})
  BY GrantKeeps
<1>3. QueueOK'
  <2>1. ASSUME NEW d \in Calls PROVE pc'[d] = "waiting" <=> Queued(d)'
    <3>1. Queued(d)' <=> d # c /\ Queued(d)
      BY <1>2
    <3>2. pc'[d] = "waiting" <=> d # c /\ pc[d] = "waiting"
      BY <1>1 DEF InSlot, Over
    <3> QED BY <3>1, <3>2 DEF PoolInv, QueueOK
  <2> QED BY <1>2, <2>1 DEF QueueOK
<1>4. Len(w) \in Nat
  BY LenProperties DEF Orderly
<1>5. NoneForgotten'
  BY <1>2, <1>4 DEF NoneForgotten
<1>6. SlotsOK'
  <2>1. Cardinality(woken') \in Nat /\ Cardinality(k) \in Nat
    BY <1>2, FS_CardinalityType DEF Orderly
  <2>2. permits' + Cardinality(woken') + Cardinality(Holders') = MaxConcurrent
    BY <1>1, <1>2, <2>1
  <2> QED BY <1>1, <1>2, <2>2 DEF SlotsOK, SlotsAccounted
<1> QED BY <1>1, <1>3, <1>5, <1>6 DEF PoolInv

\* What the steps do to the pool.
Enters(c) ==
    /\ pc[c] = "new" /\ ~ Locked
    /\ Goto(c, "exec")
    /\ permits' = permits - 1 /\ inFlight' = inFlight + 1
    /\ UNCHANGED <<waiters, woken>>

Queues(c) ==
    /\ pc[c] = "new" /\ Locked
    /\ Goto(c, "waiting")
    /\ waiters' = Append(waiters, c)
    /\ UNCHANGED <<permits, inFlight, woken>>

Moves(c) ==
    /\ pc[c] \in InSlot
    /\ \E p \in InSlot \ {"exec"} : Goto(c, p)
    /\ UNCHANGED pool

Leaves(c) ==
    /\ pc[c] \in InSlot
    /\ \E p \in Over : Goto(c, p)
    /\ Leave

LEMMA Ways ==
    ASSUME IInv, [Next]_vars
    PROVE  \/ UNCHANGED <<pc, waiters, woken, permits, inFlight>>
           \/ \E c \in Calls : \/ Enters(c) \/ Queues(c) \/ Moves(c) \/ Leaves(c)
                               \/ Wake(c) \/ CancelWaiting(c)
<1> USE DEF InSlot, Over
<1>1. CASE UNCHANGED vars
  BY <1>1 DEF vars
<1>2. ASSUME NEW c \in Calls, Step(c) \/ ProcessExits(c)
      PROVE  \/ UNCHANGED <<pc, waiters, woken, permits, inFlight>>
             \/ Enters(c) \/ Queues(c) \/ Moves(c) \/ Leaves(c)
             \/ Wake(c) \/ CancelWaiting(c)
  <2>1. ASSUME Call(c) PROVE Enters(c) \/ Queues(c)
    BY <2>1 DEF Call, Enters, Queues
  <2>2. ASSUME Exec(c) \/ Feed(c) \/ ReadersEnd(c) \/ Timeout(c) \/ Terminated(c)
               \/ CancelReading(c) \/ CancelTerminated(c)
        PROVE  Moves(c)
    BY <2>2 DEF Exec, Feed, ReadersEnd, Timeout, Terminated, CancelReading, CancelTerminated,
                Terminate, Moves
  <2>3. ASSUME ExecRaises(c) \/ ReaderRaises(c) \/ Return(c) \/ Unwind(c) \/ CancelElsewhere(c)
        PROVE  Leaves(c)
    BY <2>3 DEF ExecRaises, ReaderRaises, Return, Unwind, CancelElsewhere, Leaves
  <2>4. ProcessExits(c) => UNCHANGED <<pc, waiters, woken, permits, inFlight>>
    BY DEF ProcessExits, pool
  <2> QED BY <1>2, <2>1, <2>2, <2>3, <2>4 DEF Step, Waiting, Running, Cancelling
<1> QED BY <1>1, <1>2 DEF Next

LEMMA PoolStep ==
    ASSUME IInv, [Next]_vars
    PROVE  PoolInv'
<1>0. /\ PoolInv /\ PcOK /\ QueueOK /\ NoneForgotten /\ SlotsAccounted
      /\ Orderly(waiters, woken) /\ permits \in Nat /\ IsFiniteSet(Holders)
      /\ MaxConcurrent \in Nat
  BY SpawnerAssumption DEF IInv, PoolInv, SlotsOK, QueueOK
<1>n. /\ Len(waiters) \in Nat /\ waiters \in Seq(Calls) /\ IsFiniteSet(woken)
      /\ Cardinality(woken) \in Nat /\ Cardinality(Holders) \in Nat
  BY <1>0, LenProperties, FS_CardinalityType DEF Orderly
<1>1. CASE UNCHANGED <<pc, waiters, woken, permits, inFlight>>
  <2>1. Holders' = Holders
    BY <1>1 DEF Holders
  <2>2. \A c : Queued(c)' <=> Queued(c)
    BY <1>1 DEF Queued
  <2> QED BY <1>0, <1>1, <2>1, <2>2
          DEF PoolInv, PcOK, QueueOK, Orderly, NoneForgotten, SlotsOK, SlotsAccounted
<1>2. ASSUME NEW c \in Calls, Enters(c) PROVE PoolInv'
  <2>1. /\ waiters = <<>> /\ woken = {} /\ permits # 0
        /\ Goto(c, "exec") /\ pc[c] = "new"
        /\ permits' = permits - 1 /\ inFlight' = inFlight + 1
        /\ waiters' = waiters /\ woken' = woken
    BY <1>2 DEF Enters, Locked
  <2>2. /\ PcOK' /\ IsFiniteSet(Holders') /\ Cardinality(Holders') = Cardinality(Holders) + 1
        /\ \A d \in Calls : pc'[d] = IF d = c THEN "exec" ELSE pc[d]
    BY <1>0, <2>1, HoldersMove DEF InSlot, Over
  <2>3. \A d : Queued(d)' <=> Queued(d)
    BY <2>1 DEF Queued
  <2>4. QueueOK'
    BY <1>0, <2>1, <2>2, <2>3 DEF QueueOK
  <2>5. SlotsOK' /\ NoneForgotten'
    BY <1>0, <1>n, <2>1, <2>2 DEF SlotsOK, SlotsAccounted, NoneForgotten
  <2> QED BY <2>2, <2>4, <2>5 DEF PoolInv
<1>3. ASSUME NEW c \in Calls, Queues(c) PROVE PoolInv'
  <2>1. /\ permits = 0 \/ waiters # <<>> \/ woken # {}
        /\ Goto(c, "waiting") /\ pc[c] = "new"
        /\ permits' = permits /\ inFlight' = inFlight /\ woken' = woken
        /\ waiters' = Append(waiters, c)
    BY <1>3 DEF Queues, Locked
  <2>2. /\ PcOK' /\ IsFiniteSet(Holders') /\ Holders' = Holders
        /\ \A d \in Calls : pc'[d] = IF d = c THEN "waiting" ELSE pc[d]
    BY <1>0, <2>1, HoldersMove DEF InSlot, Over
  <2>3. /\ waiters' \in Seq(Calls) /\ Len(waiters') = Len(waiters) + 1
        /\ \A i \in 1..Len(waiters) : waiters'[i] = waiters[i]
        /\ waiters'[Len(waiters) + 1] = c
    BY <1>n, <2>1, AppendProperties
  <2>4. ~ Queued(c)
    BY <1>0, <2>1 DEF QueueOK
  <2>5. Orderly(waiters', woken')
    <3>1. ASSUME NEW i \in 1..Len(waiters'), NEW j \in 1..Len(waiters'), waiters'[i] = waiters'[j]
          PROVE  i = j
      BY <1>0, <1>n, <2>3, <2>4, <3>1 DEF Orderly, Queued
    <3>2. ASSUME NEW i \in 1..Len(waiters') PROVE waiters'[i] \notin woken'
      BY <1>0, <1>n, <2>1, <2>3, <2>4 DEF Orderly, Queued
    <3> QED BY <1>0, <2>1, <2>3, <3>1, <3>2 DEF Orderly
  <2>6. ASSUME NEW d \in Calls PROVE Queued(d)' <=> d = c \/ Queued(d)
    <3>1. Len(waiters) + 1 \in 1..Len(waiters') /\ 1..Len(waiters) \subseteq 1..Len(waiters')
            /\ \A i \in 1..Len(waiters') : i \in 1..Len(waiters) \/ i = Len(waiters) + 1
      BY <1>n, <2>3
    <3> QED BY <2>1, <2>3, <3>1 DEF Queued
  <2>7. QueueOK'
    BY <1>0, <2>2, <2>5, <2>6 DEF QueueOK
  <2>8. SlotsOK' /\ NoneForgotten'
    BY <1>0, <1>n, <2>1, <2>2 DEF SlotsOK, SlotsAccounted, NoneForgotten
  <2> QED BY <2>2, <2>7, <2>8 DEF PoolInv
<1>4. ASSUME NEW c \in Calls, Moves(c) PROVE PoolInv'
  <2>1. PICK p \in InSlot : Goto(c, p)
    BY <1>4 DEF Moves
  <2>2. UNCHANGED <<waiters, woken, permits, inFlight>> /\ pc[c] \in InSlot
    BY <1>4 DEF Moves, pool
  <2>3. /\ PcOK' /\ IsFiniteSet(Holders') /\ Holders' = Holders
        /\ \A d \in Calls : pc'[d] = IF d = c THEN p ELSE pc[d]
    BY <1>0, <2>1, <2>2, HoldersMove
  <2>4. \A d : Queued(d)' <=> Queued(d)
    BY <2>2 DEF Queued
  <2>5. "waiting" \notin InSlot
    BY DEF InSlot
  <2>6. QueueOK'
    BY <1>0, <2>2, <2>3, <2>4, <2>5 DEF QueueOK
  <2>7. SlotsOK' /\ NoneForgotten'
    BY <1>0, <2>2, <2>3 DEF SlotsOK, SlotsAccounted, NoneForgotten
  <2> QED BY <2>3, <2>6, <2>7 DEF PoolInv
<1>5. ASSUME NEW c \in Calls, Leaves(c) PROVE PoolInv'
  <2>1. PICK p \in Over : Goto(c, p)
    BY <1>5 DEF Leaves
  <2>2. /\ pc[c] \in InSlot /\ p \notin InSlot /\ pc[c] # "waiting"
        /\ inFlight' = inFlight - 1 /\ Grant(waiters, woken, permits + 1, 1)
    BY <1>5 DEF Leaves, Leave, Release, InSlot, Over
  <2>3. /\ Cardinality(Holders') = Cardinality(Holders) - 1
        /\ Cardinality(Holders') \in Nat
    BY <1>0, <2>1, <2>2, HoldersMove
  <2>4. \A d \in Calls : (d \in woken \/ \E i \in 1..Len(waiters) : waiters[i] = d)
                           <=> d # c /\ Queued(d)
    BY <1>0, <2>2 DEF QueueOK, Queued
  <2>5. /\ permits + 1 + Cardinality(woken) + Cardinality(Holders') = MaxConcurrent
        /\ inFlight' = Cardinality(Holders') /\ permits + 1 \in Nat
    BY <1>0, <1>n, <2>2, <2>3 DEF SlotsAccounted
  <2> QED BY <1>0, <2>1, <2>2, <2>4, <2>5, Regrant
<1>6. ASSUME NEW c \in Calls, Wake(c) PROVE PoolInv'
  <2>1. /\ c \in woken /\ Goto(c, "exec") /\ inFlight' = inFlight + 1
        /\ Grant(waiters, woken \ {c}, permits, Len(waiters))
    BY <1>6 DEF Wake
  <2>2. pc[c] = "waiting"
    BY <1>0, <2>1 DEF QueueOK, Queued
  <2>3. Cardinality(Holders') = Cardinality(Holders) + 1
    BY <1>0, <2>1, <2>2, HoldersMove DEF InSlot, Over
  <2>4. /\ IsFiniteSet(woken \ {c}) /\ Cardinality(woken \ {c}) = Cardinality(woken) - 1
    BY <1>n, <2>1, FS_RemoveElement
  <2>5. Orderly(waiters, woken \ {c})
    BY <1>0, <2>4 DEF Orderly
  <2>6. \A d \in Calls : (d \in woken \ {c} \/ \E i \in 1..Len(waiters) : waiters[i] = d)
                           <=> d # c /\ Queued(d)
    BY <1>0, <2>1 DEF Orderly, Queued
  <2>7. /\ permits + Cardinality(woken \ {c}) + Cardinality(Holders') = MaxConcurrent
        /\ inFlight' = Cardinality(Holders')
    BY <1>0, <1>n, <2>1, <2>3, <2>4 DEF SlotsAccounted
  <2>8. Len(waiters) >= Len(waiters)
    BY <1>n
  <2> QED BY <1>0, <1>n, <2>1, <2>5, <2>6, <2>7, <2>8, Regrant DEF InSlot
<1>7. ASSUME NEW c \in Calls, CancelWaiting(c) PROVE PoolInv'
  <2>1. /\ pc[c] = "waiting" /\ Goto(c, "cancelled") /\ inFlight' = inFlight
    BY <1>7 DEF CancelWaiting
  <2>2. Holders' = Holders
    BY <1>0, <2>1, HoldersMove DEF InSlot, Over
  <2>3. CASE c \in woken /\ Grant(waiters, woken \ {c}, permits + 1, Len(waiters))
    <3>1. IsFiniteSet(woken \ {c}) /\ Cardinality(woken \ {c}) = Cardinality(woken) - 1
      BY <1>n, <2>3, FS_RemoveElement
    <3>2. Orderly(waiters, woken \ {c})
      BY <1>0, <3>1 DEF Orderly
    <3>3. \A d \in Calls : (d \in woken \ {c} \/ \E i \in 1..Len(waiters) : waiters[i] = d)
                             <=> d # c /\ Queued(d)
      BY <1>0, <2>3 DEF Orderly, Queued
    <3>4. /\ permits + 1 + Cardinality(woken \ {c}) + Cardinality(Holders') = MaxConcurrent
          /\ inFlight' = Cardinality(Holders') /\ permits + 1 \in Nat
      BY <1>0, <1>n, <2>1, <2>2, <3>1 DEF SlotsAccounted
    <3>5. Len(waiters) >= Len(waiters)
      BY <1>n
    <3> QED BY <1>0, <1>n, <2>1, <2>3, <3>2, <3>3, <3>4, <3>5, Regrant DEF Over
  <2>4. ASSUME NEW i \in DOMAIN waiters, waiters[i] = c,
               Grant(RemoveAt(waiters, i), woken, permits, Len(waiters))
        PROVE  PoolInv'
    <3>1. i \in 1..Len(waiters)
      BY <1>n, LenProperties
    <3>2. /\ Orderly(RemoveAt(waiters, i), woken)
          /\ Len(RemoveAt(waiters, i)) = Len(waiters) - 1
          /\ \A d : (\E j \in 1..(Len(waiters) - 1) : RemoveAt(waiters, i)[j] = d)
                      <=> d # c /\ \E j \in 1..Len(waiters) : waiters[j] = d
      <4>1. Orderly(RemoveAt(waiters, i), woken) /\ Closed(RemoveAt(waiters, i), waiters, i)
        BY <1>0, <3>1, LeaveQueue
      <4> QED BY <2>4, <4>1 DEF Closed
    <3>3. c \notin woken
      BY <1>0, <2>4, <3>1 DEF Orderly
    <3>4. \A d \in Calls : (d \in woken \/ \E j \in 1..Len(RemoveAt(waiters, i)) :
                                               RemoveAt(waiters, i)[j] = d)
                             <=> d # c /\ Queued(d)
      BY <3>2, <3>3 DEF Queued
    <3>5. /\ permits + Cardinality(woken) + Cardinality(Holders') = MaxConcurrent
          /\ inFlight' = Cardinality(Holders')
      BY <1>0, <2>1, <2>2 DEF SlotsAccounted
    <3>6. Len(waiters) >= Len(RemoveAt(waiters, i))
      BY <1>n, <3>2
    <3> QED BY <1>0, <1>n, <2>1, <2>4, <3>2, <3>4, <3>5, <3>6, Regrant DEF Over
  <2> QED BY <1>7, <2>3, <2>4 DEF CancelWaiting
<1> QED BY <1>1, <1>2, <1>3, <1>4, <1>5, <1>6, <1>7, Ways

LEMMA OsStep ==
    ASSUME IInv, [Next]_vars
    PROVE  OsOK'
<1>0. OsOK /\ PcOK
  BY DEF IInv, PoolInv
<1>1. CASE UNCHANGED vars
  BY <1>0, <1>1 DEF vars, OsOK
<1>2. ASSUME NEW c \in Calls, Step(c) \/ ProcessExits(c) PROVE OsOK'
  <2>1. ASSUME Exec(c) PROVE OsOK'
    <3>1. /\ proc' = [proc EXCEPT ![c] = "alive"] /\ signal' = signal
          /\ pc' = [pc EXCEPT ![c] = "feed"]
      BY <2>1 DEF Exec, Goto
    <3> QED BY <1>0, <3>1 DEF OsOK, PcOK
  <2>2. ASSUME ProcessExits(c) PROVE OsOK'
    <3>1. /\ proc' = [proc EXCEPT ![c] = "exited"] /\ signal' = signal /\ pc' = pc
          /\ proc[c] = "alive"
      BY <2>2 DEF ProcessExits
    <3> QED BY <1>0, <3>1 DEF OsOK
  <2>3. ASSUME proc' = proc,
               signal' = signal \/ \E sig \in {"none", "TERM", "KILL"} :
                                     signal' = [signal EXCEPT ![c] = sig],
               NEW p, Goto(c, p),
               pc[c] \in {"new", "waiting", "exec"} \/ p \notin {"new", "waiting", "exec"}
        PROVE  OsOK'
    <3>1. signal' \in [Calls -> {"none", "TERM", "KILL"}]
      BY <1>0, <2>3 DEF OsOK
    <3>2. \A d \in Calls : pc'[d] = IF d = c THEN p ELSE pc[d]
      BY <1>0, <2>3 DEF PcOK, Goto
    <3> QED BY <1>0, <2>3, <3>1, <3>2 DEF OsOK
  <2>4. ASSUME Call(c) \/ Wake(c) \/ ExecRaises(c) \/ Feed(c) \/ ReadersEnd(c) \/ ReaderRaises(c)
               \/ Return(c) \/ CancelWaiting(c) \/ Unwind(c) \/ CancelElsewhere(c)
        PROVE  OsOK'
    <3>1. proc' = proc /\ signal' = signal
      BY <2>4 DEF Call, Wake, ExecRaises, Feed, ReadersEnd, ReaderRaises, Return, CancelWaiting,
                  Unwind, CancelElsewhere, os
    <3>2. c \in woken => pc[c] = "waiting"
      BY DEF IInv, PoolInv, QueueOK, Queued
    <3>3. \E p : /\ Goto(c, p)
                 /\ pc[c] \in {"new", "waiting", "exec"} \/ p \notin {"new", "waiting", "exec"}
      BY <2>4, <3>2 DEF Call, Wake, ExecRaises, Feed, ReadersEnd, ReaderRaises, Return,
                        CancelWaiting, Unwind, CancelElsewhere
    <3> QED BY <2>3, <3>1, <3>3
  <2>5. ASSUME Timeout(c) \/ CancelReading(c) PROVE OsOK'
    <3>1. /\ proc' = proc
          /\ signal' = signal \/ signal' = [signal EXCEPT ![c] = "TERM"]
          /\ \E p : Goto(c, p) /\ p \notin {"new", "waiting", "exec"}
      BY <2>5 DEF Timeout, CancelReading, Terminate
    <3> QED BY <2>3, <3>1
  <2>6. ASSUME Terminated(c) \/ CancelTerminated(c) PROVE OsOK'
    <3>1. /\ proc' = proc
          /\ signal' = [signal EXCEPT ![c] = IF proc[c] = "exited" THEN @ ELSE "KILL"]
          /\ \E p : Goto(c, p) /\ p \notin {"new", "waiting", "exec"}
      BY <2>6 DEF Terminated, CancelTerminated
    <3>2. \E sig \in {"none", "TERM", "KILL"} : signal' = [signal EXCEPT ![c] = sig]
      <4>1. signal[c] \in {"none", "TERM", "KILL"}
        BY <1>0 DEF OsOK
      <4>2. CASE proc[c] = "exited"
        <5>1. signal' = [signal EXCEPT ![c] = signal[c]]
          BY <3>1, <4>2
        <5> QED BY <4>1, <5>1
      <4>3. CASE proc[c] # "exited"
        BY <3>1, <4>3
      <4> QED BY <4>2, <4>3
    <3> QED BY <2>3, <3>1, <3>2
  <2> QED BY <1>2, <2>1, <2>2, <2>4, <2>5, <2>6 DEF Step, Waiting, Running, Cancelling
<1> QED BY <1>1, <1>2 DEF Next

LEMMA InvStep == IInv /\ [Next]_vars => IInv'
BY PoolStep, OsStep DEF IInv

-----------------------------------------------------------------------------
(* The theorems *)

\* The inductive invariant holds in every reachable state: each permit is free,
\* handed over or held, and each waiting call is in the queue or woken, once.
THEOREM InvHolds == Spec => []IInv
<1>1. Init => IInv
  BY InvInit
<1>2. IInv /\ [Next]_vars => IInv'
  BY InvStep
<1> QED BY <1>1, <1>2, PTL DEF Spec

\* Type correctness of Spawner, for any set of calls.
THEOREM TypeCorrect == Spec => []TypeOK
<1>1. ASSUME IInv PROVE TypeOK
  <2>1. inFlight \in Int
    BY <1>1, FS_CardinalityType DEF IInv, PoolInv, SlotsOK, SlotsAccounted
  <2> QED BY <1>1, <2>1
          DEF IInv, PoolInv, PcOK, QueueOK, Orderly, SlotsOK, OsOK, TypeOK
<1> QED BY <1>1, InvHolds, PTL

\* No way out of spawn loses or doubles a permit, whatever raises and whoever is
\* cancelled: in_flight counts the calls in a slot, and they, the permits handed
\* over and the free ones always make MaxConcurrent.
THEOREM SlotsCorrect == Spec => []SlotsAccounted
<1>1. IInv => SlotsAccounted
  BY DEF IInv, PoolInv, SlotsOK
<1> QED BY <1>1, InvHolds, PTL

\* No wake-up is lost, and who waits is queued or woken once.
THEOREM WaitersCorrect == Spec => []WaitersServed
<1>1. ASSUME IInv PROVE WaitersServed
  <2>1. Orderly(waiters, woken) /\ NoneForgotten /\ \A c \in Calls : pc[c] = "waiting" <=> Queued(c)
    BY <1>1 DEF IInv, PoolInv, QueueOK
  <2>2. /\ waiters \in Seq(Calls) /\ Len(waiters) \in Nat /\ DOMAIN waiters = 1..Len(waiters)
        /\ woken \subseteq Calls /\ \A i \in 1..Len(waiters) : waiters[i] \in Calls
    BY <2>1, LenProperties, ElementOfSeq DEF Orderly
  <2>3. First(waiters, Len(waiters)) = ToSet(waiters)
    BY <2>2 DEF First, ToSet
  <2>4. ToSet(waiters) \union woken = {c \in Calls : pc[c] = "waiting"}
    BY <2>1, <2>2 DEF ToSet, Queued
  <2>5. Len(waiters) \in 0..Len(waiters)
    BY <2>2
  <2>6. Cardinality(woken \union First(waiters, Len(waiters))) = Cardinality(woken) + Len(waiters)
    BY <2>1, <2>5, FirstOnes
  <2> DEFINE W == {c \in Calls : pc[c] = "waiting"}
  <2>7. woken \union First(waiters, Len(waiters)) = W
    BY <2>3, <2>4
  <2>8. Cardinality(woken) \in Nat
    BY <2>1, FS_CardinalityType DEF Orderly
  <2> HIDE DEF W
  <2>9. Len(waiters) + Cardinality(woken) = Cardinality(W)
    <3>1. Cardinality(W) = Cardinality(woken \union First(waiters, Len(waiters)))
      BY <2>7, Zenon
    <3> QED BY <2>2, <2>6, <2>8, <3>1
  <2> QED BY <2>1, <2>4, <2>9 DEF WaitersServed, NoneForgotten, W
<1> QED BY <1>1, InvHolds, PTL

\* The two of a queue w that was taken from the waiters, in their order.
InOrder(w) ==
    \A i, j \in 1..Len(w) :
      i < j => \E a, b \in 1..Len(waiters) : a < b /\ waiters[a] = w[i] /\ waiters[b] = w[j]

\* Grant hands permits to calls that waited before those who still wait.
LEMMA GrantInOrder ==
    ASSUME NEW w, NEW k, Orderly(w, k), NEW n \in Nat, NEW most \in Nat,
           Grant(w, k, n, most), k \subseteq woken, InOrder(w),
           NEW c \in woken' \ woken, NEW j \in 1..Len(waiters')
    PROVE  \E a, b \in 1..Len(waiters) : a < b /\ waiters[a] = c /\ waiters[b] = waiters'[j]
<1>1. PICK s : Serves(s, w, k, n, most)
  BY GrantServes
<1>2. Len(w) \in Nat
  BY LenProperties DEF Orderly
<1>3. /\ s \in 0..Len(w) /\ j \in 1..(Len(w) - s) /\ waiters'[j] = w[s + j]
      /\ woken' = k \union First(w, s)
  BY <1>1 DEF Serves
<1>4. PICK i \in 1..s : c = w[i]
  BY <1>3 DEF First
<1>5. i \in 1..Len(w) /\ s + j \in 1..Len(w) /\ i < s + j
  BY <1>2, <1>3
<1> QED BY <1>3, <1>4, <1>5 DEF InOrder

\* A free permit is taken only where nobody waits, and permits are handed out in
\* the order of the queue, also past those who were cancelled in it.
THEOREM FifoCorrect == Spec => Fifo
<1> DEFINE Barge == \A c, d \in Calls : pc[c] = "new" /\ pc'[c] = "exec" => pc[d] # "waiting"
           Jump == \A c \in woken' \ woken, d \in ToSet(waiters') :
                     \E i, j \in DOMAIN waiters : i < j /\ waiters[i] = c /\ waiters[j] = d
<1>1. ASSUME IInv, [Next]_vars PROVE Barge /\ Jump
  <2>0. /\ Orderly(waiters, woken) /\ QueueOK /\ PcOK /\ permits \in Nat
        /\ IsFiniteSet(Holders)
    BY <1>1 DEF IInv, PoolInv, QueueOK, SlotsOK
  <2>1. /\ Len(waiters) \in Nat /\ DOMAIN waiters = 1..Len(waiters) /\ waiters \in Seq(Calls)
        /\ IsFiniteSet(woken)
    BY <2>0, LenProperties DEF Orderly
  <2>2. waiters' \in Seq(Calls) /\ DOMAIN waiters' = 1..Len(waiters')
    <3>1. waiters' \in Seq(Calls)
      BY <1>1, PoolStep DEF PoolInv, QueueOK, Orderly
    <3> QED BY <3>1, LenProperties
  <2>3. InOrder(waiters)
    BY DEF InOrder
  <2>4. CASE UNCHANGED <<pc, waiters, woken, permits, inFlight>>
    BY <2>4
  <2>5. ASSUME NEW c \in Calls, Enters(c) PROVE Barge /\ Jump
    <3>1. woken' = woken /\ waiters = <<>> /\ woken = {} /\ Len(waiters) = 0
      BY <2>5, EmptySeq DEF Enters, Locked
    <3>2. \A d \in Calls : pc[d] # "waiting"
      BY <2>0, <3>1 DEF QueueOK, Queued
    <3> QED BY <3>1, <3>2
  <2>6. ASSUME NEW c \in Calls, NEW p, Goto(c, p), pc[c] # "new" \/ p # "exec" PROVE Barge
    <3>1. \A d \in Calls : pc'[d] = IF d = c THEN p ELSE pc[d]
      BY <2>0, <2>6 DEF Goto, PcOK
    <3> QED BY <2>6, <3>1
  <2>7. ASSUME NEW c \in Calls, Queues(c) \/ Moves(c) PROVE Barge /\ Jump
    <3>1. woken' = woken /\ \E p : Goto(c, p) /\ (pc[c] # "new" \/ p # "exec")
      BY <2>7 DEF Queues, Moves, pool, InSlot
    <3> QED BY <2>6, <3>1
  <2>8. ASSUME NEW c \in Calls, Leaves(c) \/ Wake(c) \/ CancelWaiting(c) PROVE Barge
    <3>1. c \in woken => pc[c] = "waiting"
      BY <2>0 DEF QueueOK, Queued
    <3>2. \E p : Goto(c, p) /\ (pc[c] # "new" \/ p # "exec")
      BY <2>8, <3>1 DEF Leaves, Wake, CancelWaiting, Over
    <3> QED BY <2>6, <3>2
  <2>9. ASSUME NEW w, NEW k, Orderly(w, k), NEW n \in Nat, NEW most \in Nat,
               Grant(w, k, n, most), k \subseteq woken, InOrder(w)
        PROVE  Jump
    <3> SUFFICES ASSUME NEW c \in woken' \ woken, NEW d \in ToSet(waiters')
                 PROVE  \E i, j \in DOMAIN waiters : i < j /\ waiters[i] = c /\ waiters[j] = d
      OBVIOUS
    <3>1. PICK h \in 1..Len(waiters') : d = waiters'[h]
      BY <2>2 DEF ToSet
    <3>2. \E a, b \in 1..Len(waiters) : a < b /\ waiters[a] = c /\ waiters[b] = waiters'[h]
      BY <2>9, GrantInOrder
    <3> QED BY <2>1, <3>1, <3>2
  <2>10. ASSUME NEW c \in Calls, Leaves(c) PROVE Jump
    <3>1. Grant(waiters, woken, permits + 1, 1) /\ permits + 1 \in Nat
      BY <2>0, <2>10 DEF Leaves, Leave, Release
    <3> QED BY <2>0, <2>3, <2>9, <3>1
  <2>11. ASSUME NEW c \in Calls PROVE Orderly(waiters, woken \ {c}) /\ woken \ {c} \subseteq woken
    <3>1. IsFiniteSet(woken \ {c})
      BY <2>1, FS_RemoveElement
    <3> QED BY <2>0, <3>1 DEF Orderly
  <2>12. ASSUME NEW c \in Calls, Wake(c) PROVE Jump
    <3>1. Grant(waiters, woken \ {c}, permits, Len(waiters))
      BY <2>12 DEF Wake
    <3> QED BY <2>0, <2>1, <2>3, <2>9, <2>11, <3>1
  <2>13. ASSUME NEW c \in Calls, CancelWaiting(c) PROVE Jump
    <3>1. CASE Grant(waiters, woken \ {c}, permits + 1, Len(waiters))
      <4>1. permits + 1 \in Nat
        BY <2>0
      <4> QED BY <2>0, <2>1, <2>3, <2>9, <2>11, <3>1, <4>1
    <3>2. ASSUME NEW i \in 1..Len(waiters),
                 Grant(RemoveAt(waiters, i), woken, permits, Len(waiters))
          PROVE  Jump
      <4>1. Orderly(RemoveAt(waiters, i), woken) /\ Closed(RemoveAt(waiters, i), waiters, i)
        BY <2>0, LeaveQueue
      <4>2. ASSUME NEW r, Closed(r, waiters, i) PROVE InOrder(r)
        <5>1. /\ Len(r) = Len(waiters) - 1
              /\ \A j \in 1..(Len(waiters) - 1) :
                   r[j] = IF j < i THEN waiters[j] ELSE waiters[j + 1]
          BY <4>2 DEF Closed
        <5>2. ASSUME NEW x \in 1..Len(r), NEW y \in 1..Len(r), x < y
              PROVE  \E a, b \in 1..Len(waiters) :
                       a < b /\ waiters[a] = r[x] /\ waiters[b] = r[y]
          <6>1. PICK a \in 1..Len(waiters) : a = IF x < i THEN x ELSE x + 1
            BY <2>1, <5>1
          <6>2. PICK b \in 1..Len(waiters) : b = IF y < i THEN y ELSE y + 1
            BY <2>1, <5>1
          <6>3. waiters[a] = r[x] /\ waiters[b] = r[y]
            BY <5>1, <6>1, <6>2
          <6>4. a < b
            BY <2>1, <5>1, <5>2, <6>1, <6>2
          <6> QED BY <6>3, <6>4
        <5> QED BY <5>2 DEF InOrder
      <4> QED BY <2>0, <2>1, <2>9, <3>2, <4>1, <4>2
    <3> QED BY <2>1, <2>13, <3>1, <3>2 DEF CancelWaiting
  <2> QED BY <1>1, <2>4, <2>5, <2>7, <2>8, <2>10, <2>12, <2>13, Ways
<1>2. IInv /\ [Next]_vars => [Barge /\ Jump]_vars
  BY <1>1
<1> QED BY <1>2, InvHolds, PTL DEF Spec, Fifo

-----------------------------------------------------------------------------
(* The pool of processes *)

\* Where no reader fails and nobody is cancelled, a live claude keeps its slot.
AliveOK ==
    \A c \in Calls : /\ pc[c] \notin {"cancelTerm", "unwind"}
                     /\ proc[c] = "alive" => pc[c] \in InSlot

LEMMA AliveStep ==
    ASSUME ReaderFaults = FALSE, Cancels = FALSE, IInv, AliveOK, [Next]_vars
    PROVE  AliveOK'
<1>0. PcOK /\ OsOK
  BY DEF IInv, PoolInv
<1>1. CASE UNCHANGED vars
  BY <1>1 DEF vars, AliveOK
<1>2. ASSUME NEW c \in Calls, Step(c) \/ ProcessExits(c) PROVE AliveOK'
  <2>1. ASSUME NEW p, Goto(c, p), proc' = proc, p \notin {"cancelTerm", "unwind"},
               p \in InSlot \/ proc[c] # "alive"
        PROVE  AliveOK'
    <3>1. \A d \in Calls : pc'[d] = IF d = c THEN p ELSE pc[d]
      BY <1>0, <2>1 DEF PcOK, Goto
    <3> QED BY <2>1, <3>1 DEF AliveOK
  <2>2. c \in woken => pc[c] = "waiting"
    BY DEF IInv, PoolInv, QueueOK, Queued
  <2>3. pc[c] \in {"new", "waiting", "exec"} => proc[c] # "alive"
    BY <1>0 DEF OsOK
  <2>4. ASSUME Call(c) \/ Wake(c) \/ ExecRaises(c) \/ Return(c) PROVE AliveOK'
    <3>1. proc' = proc /\ \E p : /\ Goto(c, p) /\ p \in {"exec", "waiting", "raised", "returned"}
                                 /\ proc[c] # "alive"
      BY <2>2, <2>3, <2>4 DEF Call, Wake, ExecRaises, Return, os
    <3> QED BY <2>1, <3>1
  <2>5. ASSUME Feed(c) \/ ReadersEnd(c) \/ Timeout(c) \/ Terminated(c) PROVE AliveOK'
    <3>1. proc' = proc /\ \E p : Goto(c, p) /\ p \in InSlot \ {"cancelTerm", "unwind"}
      BY <2>5 DEF Feed, ReadersEnd, Timeout, Terminated, Terminate, os, InSlot
    <3> QED BY <2>1, <3>1
  <2>6. ASSUME Exec(c) PROVE AliveOK'
    <3>1. /\ proc' = [proc EXCEPT ![c] = "alive"] /\ pc' = [pc EXCEPT ![c] = "feed"]
      BY <2>6 DEF Exec, Goto
    <3> QED BY <1>0, <3>1 DEF AliveOK, OsOK, PcOK, InSlot
  <2>7. ASSUME ProcessExits(c) PROVE AliveOK'
    <3>1. proc' = [proc EXCEPT ![c] = "exited"] /\ pc' = pc
      BY <2>7 DEF ProcessExits
    <3> QED BY <1>0, <3>1 DEF AliveOK, OsOK
  <2>8. ~ (ReaderRaises(c) \/ Cancelling(c))
    BY DEF ReaderRaises, Cancelling, CancelWaiting, CancelReading, CancelTerminated, Unwind,
           CancelElsewhere, AliveOK
  <2> QED BY <1>2, <2>4, <2>5, <2>6, <2>7, <2>8 DEF Step, Waiting, Running
<1> QED BY <1>1, <1>2 DEF Next

LEMMA AliveInv ==
    ASSUME ReaderFaults = FALSE, Cancels = FALSE
    PROVE  Spec => [](IInv /\ AliveOK)
<1>1. Init => IInv /\ AliveOK
  BY InvInit DEF Init, AliveOK
<1>2. IInv /\ AliveOK /\ [Next]_vars => (IInv /\ AliveOK)'
  BY InvStep, AliveStep
<1> QED BY <1>1, <1>2, PTL DEF Spec

\* The live processes, and one more where a call is about to start it, fit.
LEMMA Fit ==
    ASSUME IInv, AliveOK
    PROVE  /\ IsFiniteSet(Alive) /\ Cardinality(Alive) \in Nat
           /\ Cardinality(Alive) =< MaxConcurrent
           /\ \A c \in Calls : pc[c] = "exec" => Cardinality(Alive) < MaxConcurrent
<1>1. /\ IsFiniteSet(Holders) /\ IsFiniteSet(woken) /\ permits \in Nat /\ SlotsAccounted
      /\ MaxConcurrent \in Nat /\ OsOK
  BY SpawnerAssumption DEF IInv, PoolInv, SlotsOK, QueueOK, Orderly
<1>2. Cardinality(Holders) \in Nat /\ Cardinality(Holders) =< MaxConcurrent
  BY <1>1, FS_CardinalityType DEF SlotsAccounted
<1>3. Alive \in SUBSET Holders
  BY DEF Alive, Holders, AliveOK
<1>4. IsFiniteSet(Alive) /\ Cardinality(Alive) =< Cardinality(Holders) /\ Cardinality(Alive) \in Nat
  BY <1>1, <1>3, FS_Subset, FS_CardinalityType
<1>5. ASSUME NEW c \in Calls, pc[c] = "exec" PROVE Cardinality(Alive) < Cardinality(Holders)
  <2>1. c \notin Alive /\ c \in Holders
    BY <1>1, <1>5 DEF OsOK, Alive, Holders, InSlot
  <2>2. Cardinality(Holders) = Cardinality(Alive) => Holders = Alive
    BY <1>1, <1>3, FS_Subset
  <2> QED BY <1>2, <1>4, <2>1, <2>2
<1> QED BY <1>1, <1>2, <1>4, <1>5

\* "Bounded-concurrency wrapper" is true of a spawner whose readers do not fail
\* and whose callers are not cancelled, though claude may close its pipes early,
\* hang and ignore SIGTERM: the only ways to break it are those two.
THEOREM BoundedCorrect ==
    ASSUME ReaderFaults = FALSE, Cancels = FALSE
    PROVE  Spec => []ProcessesBounded
<1>1. IInv /\ AliveOK => ProcessesBounded
  BY Fit DEF ProcessesBounded
<1> QED BY <1>1, AliveInv, PTL

\* Under the same two conditions the processes are a bounded pool: each call
\* starts claude at most once, into a free slot, and has a result at most once
\* and only after its process is gone.
THEOREM PoolCorrect ==
    ASSUME ReaderFaults = FALSE, Cancels = FALSE
    PROVE  Spec => ImplementsPool
<1> DEFINE Ended == {c \in Calls : proc[c] = "exited"}
<1> DEFINE Returned == {c \in Calls : pc[c] = "returned"}
<1>1. Init => Pool!Init
  BY DEF Init, Pool!Init, Alive
<1>2. ASSUME IInv, AliveOK, [Next]_vars PROVE [Pool!Next]_(Pool!vars)
  <2>0. OsOK /\ PcOK
    BY <1>2 DEF IInv, PoolInv
  <2>1. ASSUME proc' = proc, Returned' = Returned PROVE UNCHANGED Pool!vars
    BY <2>1 DEF Pool!vars, Alive
  <2>2. CASE UNCHANGED vars
    BY <2>1, <2>2 DEF vars
  <2>a. ASSUME NEW c \in Calls, NEW p, Goto(c, p), p # "returned", pc[c] # "returned"
        PROVE  Returned' = Returned
    <3>1. \A d \in Calls : pc'[d] = IF d = c THEN p ELSE pc[d]
      BY <2>0, <2>a DEF PcOK, Goto
    <3> QED BY <2>a, <3>1
  <2>3. ASSUME NEW c \in Calls, Exec(c) PROVE Pool!Start(c)
    <3>1. pc[c] = "exec" /\ proc' = [proc EXCEPT ![c] = "alive"] /\ proc[c] = "none"
      BY <2>0, <2>3 DEF Exec, OsOK
    <3>a. Returned' = Returned
      BY <2>3, <2>a DEF Exec
    <3>2. Alive' = Alive \union {c} /\ Ended' = Ended
      BY <2>0, <3>1 DEF Alive, OsOK
    <3>3. c \notin Alive \union Ended
      BY <3>1 DEF Alive
    <3>4. Cardinality(Alive) < MaxConcurrent
      BY <1>2, <3>1, Fit
    <3>5. /\ c \notin Alive \union {d \in Calls : proc[d] = "exited"}
          /\ Cardinality(Alive) < MaxConcurrent
          /\ Alive' = Alive \union {c}
          /\ {d \in Calls : proc[d] = "exited"}' = {d \in Calls : proc[d] = "exited"}
          /\ {d \in Calls : pc[d] = "returned"}' = {d \in Calls : pc[d] = "returned"}
      BY <3>2, <3>3, <3>4, <3>a
    <3>6. Pool!Cardinality(Alive) = Cardinality(Alive)
      BY DEF Pool!Cardinality, Cardinality
    <3> QED BY <3>5, <3>6 DEF Pool!Start
  <2>4. ASSUME NEW c \in Calls, ProcessExits(c) PROVE Pool!End(c)
    <3>1. proc[c] = "alive" /\ proc' = [proc EXCEPT ![c] = "exited"] /\ Returned' = Returned
      BY <2>4 DEF ProcessExits
    <3>2. c \in Alive /\ Alive' = Alive \ {c} /\ Ended' = Ended \union {c}
      BY <2>0, <3>1 DEF Alive, OsOK
    <3> QED BY <3>1, <3>2 DEF Pool!End
  <2>5. ASSUME NEW c \in Calls, Return(c) PROVE Pool!Deliver(c)
    <3>1. pc[c] = "reap" /\ proc[c] = "exited" /\ Goto(c, "returned") /\ proc' = proc
      BY <2>5 DEF Return, os
    <3>2. \A d \in Calls : pc'[d] = IF d = c THEN "returned" ELSE pc[d]
      BY <2>0, <3>1 DEF PcOK, Goto
    <3>3. c \in Ended \ Returned /\ Returned' = Returned \union {c}
      BY <3>1, <3>2
    <3>4. Alive' = Alive /\ Ended' = Ended
      BY <3>1 DEF Alive
    <3> QED BY <3>3, <3>4 DEF Pool!Deliver
  <2>6. ASSUME NEW c \in Calls, Step(c), ~ Exec(c), ~ Return(c)
        PROVE  proc' = proc /\ Returned' = Returned
    <3>1. c \in woken => pc[c] = "waiting"
      BY <1>2 DEF IInv, PoolInv, QueueOK, Queued
    <3>2. proc' = proc /\ \E p : Goto(c, p) /\ p # "returned" /\ pc[c] # "returned"
      BY <2>6, <3>1 DEF Step, Waiting, Running, Cancelling, Call, Wake, ExecRaises, Feed,
            ReadersEnd, ReaderRaises, Timeout, Terminated, Terminate, CancelWaiting,
            CancelReading, CancelTerminated, Unwind, CancelElsewhere, os
    <3> QED BY <2>a, <3>2
  <2> QED BY <1>2, <2>1, <2>2, <2>3, <2>4, <2>5, <2>6 DEF Next, Pool!Next
<1>3. IInv /\ AliveOK /\ [Next]_vars => [Pool!Next]_(Pool!vars)
  BY <1>2
<1> QED BY <1>1, <1>3, AliveInv, PTL DEF Spec, ImplementsPool, Pool!Spec

=============================================================================
