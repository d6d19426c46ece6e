------------------------------- MODULE Egress -------------------------------
(***************************************************************************)
(* One reply on its way out: chunk_text and send_reply (egress/telegram.py)*)
(* and what _dispatch does with their outcome.  A body is the characters   *)
(* of prefix and text as the splitter tells them apart, "n" for a newline  *)
(* and "c" for any other; a chunk is a stretch of positions of the body.   *)
(***************************************************************************)
EXTENDS Naturals, Sequences

CONSTANTS
    MaxChunk,   \* max_chunk
    PrefixLens, \* lengths of what format_prefix may return
    MaxText     \* bound: length of the text

\* A prefix is "[engagement ...]" and a newline, so it has two characters; it
\* may be longer than a chunk, for it holds the name of the operator's slash
\* command (mode "slash:/<name>", __main__.py 136), which nothing bounds.
ASSUME EgressAssumption ==
    /\ MaxChunk \in Nat \ {0, 1} /\ MaxText \in Nat
    /\ PrefixLens \subseteq Nat \ {0, 1}

VARIABLES
    body,   \* prefix + text
    pos,    \* where chunk_text's `remaining` starts
    chunks, \* out: first and last position of each chunk
    next,   \* the chunk send_reply sends next
    got,    \* chunks delivered to the operator, in order
    pc      \* "split", "send"; "sent": send_reply returned; "raised"

vars == <<body, pos, chunks, next, got, pc>>

Half == MaxChunk \div 2
End == Len(body) + 1

\* One line, with its newline.
Prefix(len) == [i \in 1..len |-> IF i = len THEN "n" ELSE "c"]

\* text or "(empty reply)": the text is never empty.
Texts == UNION {[1..n -> {"c", "n"}] : n \in 1..MaxText}

Init ==
    /\ body \in {Prefix(len) \o text : len \in PrefixLens, text \in Texts}
    /\ pos = 1
    /\ chunks = <<>>
    /\ next = 1
    /\ got = <<>>
    /\ pc = "split"

-----------------------------------------------------------------------------
(* chunk_text *)

\* Slip: a chunk of one character too many passes.
TooLongByOne == End - pos > MaxChunk + 1

TooLong == End - pos > MaxChunk

\* The newlines of the window that are not in its first half.
Breaks == {i \in (pos + Half)..(pos + MaxChunk - 1) : body[i] = "n"}

\* The chunk ends before position i: the last of them, or the window's end.
CutAt(i) ==
    \/ i \in Breaks /\ \A j \in Breaks : j =< i
    \/ Breaks = {} /\ i = pos + MaxChunk

\* Slip: one character is skipped, newline or not.
StrippedOne(i, p) == p = i + 1

\* lstrip("\n"): what remains from position i on starts at p.
Stripped(i, p) ==
    /\ \A j \in i..(p - 1) : body[j] = "n"
    /\ p # End => body[p] # "n"

Cut ==
    /\ pc = "split" /\ TooLong
    /\ \E i \in pos..(pos + MaxChunk) : \E p \in i..End :
         /\ CutAt(i) /\ Stripped(i, p)
         /\ chunks' = Append(chunks, [first |-> pos, last |-> i - 1])
         /\ pos' = p
    /\ UNCHANGED <<body, next, got, pc>>

\* Slip: the rest is appended even if nothing remains.
LastAlways ==
    /\ pc = "split" /\ ~ TooLong
    /\ chunks' = Append(chunks, [first |-> pos, last |-> End - 1])
    /\ pos' = End
    /\ pc' = "send"
    /\ UNCHANGED <<body, next, got>>

\* What remains fits in one chunk, if anything remains.
Last ==
    /\ pc = "split" /\ ~ TooLong
    /\ chunks' = IF pos < End THEN Append(chunks, [first |-> pos, last |-> End - 1])
                              ELSE chunks
    /\ pos' = End
    /\ pc' = "send"
    /\ UNCHANGED <<body, next, got>>

-----------------------------------------------------------------------------
(* send_reply *)

Sends ==
    /\ pc = "send" /\ next \in DOMAIN chunks
    /\ got' = Append(got, next)
    /\ next' = next + 1
    /\ UNCHANGED <<body, pos, chunks, pc>>

\* Slip: a chunk that fails is skipped.
SendRaisesSkipped ==
    /\ pc = "send" /\ next \in DOMAIN chunks
    /\ next' = next + 1
    /\ UNCHANGED <<body, pos, chunks, got, pc>>

\* send_message raises, whether or not Telegram delivered the chunk.
SendRaises ==
    /\ pc = "send" /\ next \in DOMAIN chunks
    /\ got' \in {got, Append(got, next)}
    /\ pc' = "raised"
    /\ UNCHANGED <<body, pos, chunks, next>>

Return ==
    /\ pc = "send" /\ next \notin DOMAIN chunks
    /\ pc' = "sent"
    /\ UNCHANGED <<body, pos, chunks, next, got>>

Next == Cut \/ Last \/ Sends \/ SendRaises \/ Return

Spec == Init /\ [][Next]_vars

-----------------------------------------------------------------------------

\* Positions are positions of the body.
TypeOK ==
    /\ body \in Seq({"c", "n"})
    /\ pos \in 1..End
    /\ chunks \in Seq([first : 1..Len(body), last : 1..Len(body)])
    /\ next \in 1..(Len(chunks) + 1)
    /\ got \in Seq(DOMAIN chunks)
    /\ pc \in {"split", "send", "sent", "raised"}

InChunk(k, i) == chunks[k].first =< i /\ i =< chunks[k].last

\* The reply survives its split: the chunks follow each other in the body, and
\* what lies before, between and after them is newlines only.
NothingLost ==
    /\ \A k \in 1..(Len(chunks) - 1) : chunks[k].last < chunks[k + 1].first
    /\ \A i \in 1..(pos - 1) : body[i] = "n" \/ \E k \in DOMAIN chunks : InChunk(k, i)
    /\ pc # "split" => pos = End

\* No chunk is over max_chunk, which leaves room for the part marker under
\* Telegram's limit; none is empty or starts with a newline (a blank line is
\* never carried over); and, as cut < max_chunk // 2 has it, only the last is
\* shorter than half a window, so that a reply full of newlines does not become
\* a burst of scraps.  The module's docs do not know that last rule: they have
\* the last newline of the window end the chunk wherever it is (4-5), and a hard
\* split only where there is none (27-28).
ChunksFit ==
    \A k \in DOMAIN chunks :
        LET length == chunks[k].last + 1 - chunks[k].first IN
        /\ length \in 1..MaxChunk
        /\ body[chunks[k].first] = "c"
        /\ length >= Half \/ (pos = End /\ k = Len(chunks))

\* The row tells the truth about the reply (_dispatch, __main__.py 176-191):
\* it is done only if the operator has all of the reply; if send_reply raised in
\* between, he has its parts from the first on, in order, each once.
TruthfulOutcome ==
    /\ got = [k \in DOMAIN got |-> k]
    /\ pc = "sent" => Len(got) = Len(chunks) /\ chunks # <<>>
=============================================================================
