---------------------------- MODULE EgressProofs ----------------------------
(***************************************************************************)
(* Egress proved for every text, every chunk size from two characters on   *)
(* and every length of the prefix, longer than a chunk or not: nothing of  *)
(* a reply is lost in its split, every chunk can be sent, and the outcome  *)
(* tells what the operator has.                                            *)
(***************************************************************************)
EXTENDS Egress, TLAPS, SequenceTheorems

Chars == {"c", "n"}
Stretch == [first : 1..Len(body), last : 1..Len(body)]

\* While the body is split: every chunk lies before pos, which is at a
\* character that is no newline, and something was cut if pos has moved.
SplitOK ==
    /\ Len(body) >= 1
    /\ pos < End => body[pos] = "c"
    /\ \A k \in DOMAIN chunks : chunks[k].last < pos
    /\ pos > 1 => chunks # <<>>
    /\ pc # "split" => pos = End

\* While the chunks are sent: the ones before next are with the operator.
SentOK ==
    /\ got = [k \in DOMAIN got |-> k]
    /\ pc = "split" => got = <<>> /\ next = 1
    /\ pc \in {"send", "sent"} => Len(got) = next - 1
    /\ pc = "sent" => next = Len(chunks) + 1
    /\ pc = "raised" => Len(got) \in {next - 1, next}

IInv == TypeOK /\ SplitOK /\ SentOK /\ NothingLost /\ ChunksFit

-----------------------------------------------------------------------------

LEMMA Sizes ==
    /\ Half \in Nat /\ Half >= 1 /\ MaxChunk \in Nat /\ Half + Half =< MaxChunk
    /\ \A len \in PrefixLens : len \in Nat /\ len >= 2
BY EgressAssumption DEF Half

LEMMA TypeFacts ==
    ASSUME TypeOK
    PROVE  /\ Len(body) \in Nat /\ DOMAIN body = 1..Len(body) /\ End = Len(body) + 1
           /\ \A i \in 1..Len(body) : body[i] \in Chars
           /\ pos \in Nat /\ pos >= 1 /\ pos =< End
           /\ chunks \in Seq(Stretch) /\ Len(chunks) \in Nat /\ DOMAIN chunks = 1..Len(chunks)
           /\ \A k \in DOMAIN chunks : chunks[k].first \in Nat /\ chunks[k].last \in Nat
           /\ next \in Nat /\ next >= 1 /\ next =< Len(chunks) + 1
<1>1. Len(body) \in Nat /\ DOMAIN body = 1..Len(body) /\ \A i \in 1..Len(body) : body[i] \in Chars
  BY LenProperties DEF TypeOK, Chars
<1>2. chunks \in Seq(Stretch) /\ Len(chunks) \in Nat /\ DOMAIN chunks = 1..Len(chunks)
  BY LenProperties DEF TypeOK, Stretch
<1>3. \A k \in DOMAIN chunks : chunks[k] \in Stretch
  BY <1>2, ElementOfSeq
<1>4. pos \in 1..(Len(body) + 1) /\ next \in 1..(Len(chunks) + 1)
  BY DEF TypeOK, End
<1> QED BY <1>1, <1>2, <1>3, <1>4 DEF End, Stretch

LEMMA InvInit == Init => IInv
<1> SUFFICES ASSUME Init PROVE IInv
  OBVIOUS
<1>1. PICK len \in PrefixLens, t \in Texts : body = Prefix(len) \o t
  BY DEF Init
<1>2. PICK n \in 1..MaxText : t \in [1..n -> Chars]
  BY DEF Texts, Chars
<1>3. n \in Nat /\ n >= 1
  BY EgressAssumption
<1>4. t \in Seq(Chars) /\ Len(t) = n
  BY <1>2, <1>3
<1>5. Prefix(len) \in Seq(Chars) /\ Len(Prefix(len)) = len /\ Prefix(len)[1] = "c" /\ len >= 2
  BY Sizes DEF Prefix, Chars
<1>6. body \in Seq(Chars) /\ Len(body) = len + n /\ body[1] = Prefix(len)[1]
  <2>1. /\ Prefix(len) \o t \in Seq(Chars) /\ Len(Prefix(len) \o t) = Len(Prefix(len)) + Len(t)
        /\ \A i \in 1..Len(Prefix(len)) + Len(t) : (Prefix(len) \o t)[i] =
             IF i <= Len(Prefix(len)) THEN Prefix(len)[i] ELSE t[i - Len(Prefix(len))]
    BY <1>4, <1>5, ConcatProperties
  <2>2. 1 \in 1..Len(Prefix(len)) + Len(t) /\ 1 <= Len(Prefix(len))
    BY <1>3, <1>4, <1>5, Sizes
  <2> QED BY <1>1, <1>4, <1>5, <2>1, <2>2
<1>7. \A S : <<>> \in Seq(S) /\ Len(<<>>) = 0 /\ DOMAIN <<>> = {}
  BY EmptySeq
<1>8. TypeOK
  BY <1>3, <1>6, <1>7, Sizes DEF Init, TypeOK, End, Chars
<1>9. SplitOK /\ SentOK
  BY <1>3, <1>5, <1>6, <1>7, Sizes DEF Init, SplitOK, SentOK, End
<1>10. NothingLost /\ ChunksFit
  BY <1>7 DEF Init, NothingLost, ChunksFit
<1> QED BY <1>8, <1>9, <1>10 DEF IInv

\* The chunk that a cut or the rest makes, and what follows.
LEMMA ChunkMade ==
    ASSUME IInv, pc = "split", pos < End,
           NEW i \in Nat, pos < i, i =< End, i - pos =< MaxChunk,
           NEW p \in Nat, i =< p, p =< End,
           \A j \in i..(p - 1) : body[j] = "n", p < End => body[p] = "c",
           i - pos >= Half \/ p = End,
           chunks' = Append(chunks, [first |-> pos, last |-> i - 1]),
           pos' = p, pc' = "split" \/ (pc' = "send" /\ p = End),
           UNCHANGED <<body, next, got>>
    PROVE  IInv'
<1> DEFINE x == [first |-> pos, last |-> i - 1]
<1>0. TypeOK /\ SplitOK /\ SentOK /\ NothingLost /\ ChunksFit
  BY DEF IInv
<1>1. /\ Len(body) \in Nat /\ End = Len(body) + 1 /\ End' = End
      /\ pos \in Nat /\ pos >= 1 /\ Len(chunks) \in Nat /\ DOMAIN chunks = 1..Len(chunks)
      /\ chunks \in Seq(Stretch)
      /\ \A k \in DOMAIN chunks : chunks[k].first \in Nat /\ chunks[k].last \in Nat
  BY <1>0, TypeFacts DEF End
<1>2. x \in Stretch /\ x.first = pos /\ x.last = i - 1
  BY <1>1 DEF Stretch
<1>3. /\ chunks' \in Seq(Stretch) /\ Len(chunks') = Len(chunks) + 1
      /\ DOMAIN chunks' = 1..(Len(chunks) + 1)
      /\ \A k \in 1..Len(chunks) : chunks'[k] = chunks[k]
      /\ chunks'[Len(chunks) + 1].first = pos /\ chunks'[Len(chunks) + 1].last = i - 1
  <2>1. chunks' = Append(chunks, x)
    OBVIOUS
  <2> HIDE DEF x
  <2> QED BY <1>1, <1>2, <2>1, AppendProperties, LenProperties
<1>4. got = <<>> /\ next = 1
  BY <1>0 DEF SentOK
<1>5. TypeOK'
  <2>1. Stretch = Stretch'
    BY DEF Stretch
  <2>2. got' \in Seq(DOMAIN chunks')
    BY <1>4, EmptySeq
  <2> QED BY <1>0, <1>1, <1>3, <1>4, <2>2 DEF TypeOK, Stretch, End
<1>6. SplitOK'
  <2>1. \A k \in DOMAIN chunks' : chunks'[k].last < pos'
    BY <1>0, <1>1, <1>3 DEF SplitOK
  <2>2. chunks' # <<>>
    BY <1>1, <1>3, EmptySeq
  <2> QED BY <1>0, <1>1, <2>1, <2>2 DEF SplitOK
<1>7. SentOK'
  BY <1>0, <1>4, EmptySeq DEF SentOK
<1>8. NothingLost'
  <2>1. ASSUME NEW k \in 1..(Len(chunks') - 1) PROVE chunks'[k].last < chunks'[k + 1].first
    <3>1. CASE k = Len(chunks)
      BY <1>0, <1>1, <1>3, <3>1 DEF SplitOK
    <3>2. CASE k < Len(chunks)
      BY <1>0, <1>1, <1>3, <3>2 DEF NothingLost
    <3> QED BY <1>1, <1>3, <3>1, <3>2
  <2>2. ASSUME NEW j \in 1..(pos' - 1)
        PROVE  body'[j] = "n" \/ \E k \in DOMAIN chunks' : InChunk(k, j)'
    <3>1. CASE j < pos
      <4>1. j \in 1..(pos - 1)
        BY <1>1, <3>1
      <4>2. CASE \E k \in DOMAIN chunks : InChunk(k, j)
        BY <1>1, <1>3, <4>2 DEF InChunk
      <4> QED BY <1>0, <4>1, <4>2 DEF NothingLost
    <3>2. CASE pos =< j /\ j < i
      <4>1. chunks'[Len(chunks) + 1].first =< j /\ j =< chunks'[Len(chunks) + 1].last
        BY <1>1, <1>3, <3>2
      <4>2. Len(chunks) + 1 \in DOMAIN chunks'
        BY <1>1, <1>3
      <4> QED BY <4>1, <4>2 DEF InChunk
    <3>3. CASE i =< j
      BY <1>1, <3>3
    <3> QED BY <1>1, <3>1, <3>2, <3>3
  <2> QED BY <1>0, <1>1, <2>1, <2>2 DEF NothingLost
<1>9. ChunksFit'
  <2> SUFFICES ASSUME NEW k \in DOMAIN chunks'
               PROVE  LET length == chunks'[k].last + 1 - chunks'[k].first IN
                      /\ length \in 1..MaxChunk
                      /\ body[chunks'[k].first] = "c"
                      /\ length >= Half \/ (pos' = End /\ k = Len(chunks'))
    BY <1>1 DEF ChunksFit
  <2>1. CASE k = Len(chunks) + 1
    BY <1>0, <1>1, <1>3, <2>1, Sizes DEF SplitOK
  <2>2. CASE k \in 1..Len(chunks)
    BY <1>0, <1>1, <1>3, <2>2, Sizes DEF ChunksFit
  <2> QED BY <1>1, <1>3, <2>1, <2>2
<1> QED BY <1>5, <1>6, <1>7, <1>8, <1>9 DEF IInv

\* The split ends, or a step of send_reply is taken.
LEMMA SplitKept ==
    ASSUME IInv, UNCHANGED <<body, pos, chunks>>, pc # "split", pc' # "split"
    PROVE  SplitOK' /\ NothingLost' /\ ChunksFit'
BY DEF IInv, SplitOK, NothingLost, ChunksFit, InChunk, End

LEMMA SendStep ==
    ASSUME IInv, Sends \/ SendRaises \/ Return
    PROVE  IInv'
<1>0. TypeOK /\ SentOK
  BY DEF IInv
<1>1. /\ Len(chunks) \in Nat /\ DOMAIN chunks = 1..Len(chunks)
      /\ next \in Nat /\ next >= 1 /\ next =< Len(chunks) + 1
  BY <1>0, TypeFacts
<1>2. UNCHANGED <<body, pos, chunks>> /\ pc = "send" /\ pc' \in {"send", "sent", "raised"}
  BY DEF Sends, SendRaises, Return
<1>3. SplitOK' /\ NothingLost' /\ ChunksFit'
  BY <1>2, SplitKept
<1>4. got \in Seq(DOMAIN chunks) /\ Len(got) = next - 1 /\ got = [k \in DOMAIN got |-> k]
  BY <1>0, <1>2 DEF TypeOK, SentOK
<1>5. Len(got) \in Nat /\ DOMAIN got = 1..Len(got)
  BY <1>4, LenProperties
<1>6. ASSUME next \in DOMAIN chunks
      PROVE  /\ Append(got, next) \in Seq(DOMAIN chunks) /\ Len(Append(got, next)) = next
             /\ Append(got, next) = [k \in DOMAIN Append(got, next) |-> k]
  <2>1. /\ Append(got, next) \in Seq(DOMAIN chunks) /\ Len(Append(got, next)) = Len(got) + 1
        /\ \A k \in 1..Len(got) : Append(got, next)[k] = got[k]
        /\ Append(got, next)[Len(got) + 1] = next
    BY <1>4, <1>6, AppendProperties
  <2>2. /\ DOMAIN Append(got, next) = 1..next
        /\ Append(got, next) \in [1..next -> DOMAIN chunks]
    <3>1. Len(Append(got, next)) = next
      BY <1>1, <1>4, <1>5, <2>1
    <3> QED BY <2>1, <3>1, LenProperties
  <2>3. \A k \in 1..Len(got) : got[k] = k
    BY <1>4, <1>5
  <2>4. \A k \in 1..next : Append(got, next)[k] = k
    BY <1>1, <1>4, <1>5, <2>1, <2>3
  <2>5. Len(Append(got, next)) = next
    BY <1>1, <1>4, <1>5, <2>1
  <2> DEFINE g == Append(got, next)
  <2>6. g \in [1..next -> DOMAIN chunks] /\ \A k \in 1..next : g[k] = k
    BY <2>2, <2>4
  <2> HIDE DEF g
  <2>7. g = [k \in 1..next |-> g[k]]
    BY <2>6
  <2>8. g = [k \in 1..next |-> k]
    BY <2>6, <2>7
  <2> QED BY <2>1, <2>2, <2>5, <2>8 DEF g
<1>7. TypeOK'
  <2>1. got' \in Seq(DOMAIN chunks)
    BY <1>4, <1>6 DEF Sends, SendRaises, Return
  <2>2. next' \in 1..(Len(chunks) + 1)
    BY <1>1 DEF Sends, SendRaises, Return
  <2> QED BY <1>0, <1>2, <2>1, <2>2 DEF TypeOK, End
<1>8. SentOK'
  <2>1. CASE Sends
    BY <1>1, <1>6, <2>1 DEF Sends, SentOK
  <2>2. CASE SendRaises
    BY <1>1, <1>4, <1>6, <2>2 DEF SendRaises, SentOK
  <2>3. CASE Return
    BY <1>1, <1>4, <2>3 DEF Return, SentOK
  <2> QED BY <2>1, <2>2, <2>3
<1> QED BY <1>3, <1>7, <1>8 DEF IInv

LEMMA CutStep ==
    ASSUME IInv, Cut
    PROVE  IInv'
<1>a. PICK i \in pos..(pos + MaxChunk) : \E p \in i..End :
         /\ CutAt(i) /\ Stripped(i, p)
         /\ chunks' = Append(chunks, [first |-> pos, last |-> i - 1])
         /\ pos' = p
  BY DEF Cut
<1>1. PICK p \in i..End :
         /\ CutAt(i) /\ Stripped(i, p)
         /\ chunks' = Append(chunks, [first |-> pos, last |-> i - 1])
         /\ pos' = p
  BY <1>a
<1>2. End \in Nat /\ pos \in Nat /\ pos >= 1 /\ End - pos > MaxChunk
  BY TypeFacts DEF IInv, Cut, TooLong
<1>3. i \in Nat /\ p \in Nat /\ i =< p /\ p =< End /\ i - pos =< MaxChunk /\ pos < End
  BY <1>1, <1>2, Sizes
<1>4. i - pos >= Half
  BY <1>1, <1>2, Sizes DEF CutAt, Breaks
<1>5. i =< End /\ pos < i
  BY <1>3, <1>4, Sizes, <1>2
<1>6. p < End => body[p] = "c"
  <2>1. p < End => body[p] \in Chars
    BY <1>2, <1>3, TypeFacts DEF IInv
  <2> QED BY <1>1, <1>3, <1>2, <2>1 DEF Stripped, Chars
<1>7. \A j \in i..(p - 1) : body[j] = "n"
  BY <1>1 DEF Stripped
<1>8. pc = "split" /\ pc' = "split" /\ UNCHANGED <<body, next, got>>
  BY DEF Cut
<1> QED BY <1>1, <1>3, <1>4, <1>5, <1>6, <1>7, <1>8, ChunkMade

LEMMA LastStep ==
    ASSUME IInv, Last
    PROVE  IInv'
<1>1. /\ End \in Nat /\ pos \in Nat /\ pos >= 1 /\ pos =< End
      /\ ~ (End - pos > MaxChunk)
      /\ pc = "split" /\ pc' = "send" /\ pos' = End /\ UNCHANGED <<body, next, got>>
  BY TypeFacts DEF IInv, Last, TooLong
<1>2. CASE pos < End
  <2>1. chunks' = Append(chunks, [first |-> pos, last |-> End - 1])
    BY <1>2 DEF Last
  <2>2. End - pos =< MaxChunk
    BY <1>1, Sizes
  <2>3. \A j \in End..(End - 1) : body[j] = "n"
    BY <1>1
  <2> QED BY <1>1, <1>2, <2>1, <2>2, <2>3, ChunkMade
<1>3. CASE pos = End
  <2>1. chunks' = chunks /\ pos' = pos
    BY <1>1, <1>3 DEF Last
  <2>2. got = <<>> /\ next = 1
    BY <1>1 DEF IInv, SentOK
  <2> QED BY <1>1, <1>3, <2>1, <2>2, EmptySeq
        DEF IInv, TypeOK, SplitOK, SentOK, NothingLost, ChunksFit, InChunk, End
<1> QED BY <1>1, <1>2, <1>3

LEMMA InvStep == IInv /\ [Next]_vars => IInv'
<1> SUFFICES ASSUME IInv, [Next]_vars PROVE IInv'
  OBVIOUS
<1>1. CASE UNCHANGED vars
  BY <1>1 DEF vars, IInv, TypeOK, SplitOK, SentOK, NothingLost, ChunksFit, InChunk, End
<1> QED BY <1>1, CutStep, LastStep, SendStep DEF Next

LEMMA InvHolds == Spec => []IInv
BY InvInit, InvStep, PTL DEF Spec

-----------------------------------------------------------------------------

\* Positions, chunks and the handler's counters keep their types.
THEOREM TypeCorrect == Spec => []TypeOK
<1>1. IInv => TypeOK
  BY DEF IInv
<1> QED BY <1>1, InvHolds, PTL

\* Whatever the reply, its chunks follow each other, only newlines lie outside
\* of them, and the split stops at the end of the body.
THEOREM NothingLostCorrect == Spec => []NothingLost
<1>1. IInv => NothingLost
  BY DEF IInv
<1> QED BY <1>1, InvHolds, PTL

\* Every chunk is one Telegram accepts, and only the last may be short.
THEOREM ChunksFitCorrect == Spec => []ChunksFit
<1>1. IInv => ChunksFit
  BY DEF IInv
<1> QED BY <1>1, InvHolds, PTL

\* What the operator has is an initial part of the reply, and all of it, which
\* is not nothing, when send_reply returns.
THEOREM OutcomeCorrect == Spec => []TruthfulOutcome
<1>1. IInv => TruthfulOutcome
  <2>1. SUFFICES ASSUME IInv PROVE TruthfulOutcome
    OBVIOUS
  <2>2. got = [k \in DOMAIN got |-> k]
    BY <2>1 DEF IInv, SentOK
  <2>3. ASSUME pc = "sent" PROVE Len(got) = Len(chunks) /\ chunks # <<>>
    <3>1. Len(chunks) \in Nat /\ Len(got) = next - 1 /\ next = Len(chunks) + 1
      BY <2>1, <2>3, TypeFacts DEF IInv, SentOK
    <3>2. pos = End /\ Len(body) >= 1 /\ End = Len(body) + 1 /\ Len(body) \in Nat
      BY <2>1, <2>3, TypeFacts DEF IInv, SplitOK
    <3>3. chunks # <<>>
      BY <2>1, <3>2 DEF IInv, SplitOK
    <3> QED BY <3>1, <3>3
  <2> QED BY <2>2, <2>3 DEF TruthfulOutcome
<1> QED BY <1>1, InvHolds, PTL

=============================================================================
